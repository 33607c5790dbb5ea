------------------------ MODULE UsbMultiWriteProofs ------------------------
(***************************************************************************)
(* Theorems about UsbMultiWrite, for any number of buffers, writes,        *)
(* retries and requests.                                                   *)
(***************************************************************************)
EXTENDS UsbMultiWrite, SequenceTheorems, FiniteSetTheorems, TLAPS

Drains == {"CANCELLING", "PURGING", "STOPPING"}

Threads == [pc : {"top", "send", "wait", "finish", "exited"}, zlp : BOOLEAN,
            stopped : BOOLEAN, flowOn : BOOLEAN, purged : BOOLEAN,
            cancelled : BOOLEAN, state : Drains \cup {"WORKING", "FLOW_OFF"},
            errs : Nat]

(* The IRPs in queue and sent are of no concern here: a record in sent has *)
(* a buffer, and its transfer is back or not.                              *)
SentRecords(s) ==
    /\ s \in Seq(ToSet(s))
    /\ \A r \in ToSet(s) :
          r = [irp |-> r.irp, buf |-> r.buf, returned |-> r.returned]

Types ==
    /\ idle \in Seq(Bufs) /\ pending \in Seq(Bufs) /\ done \in Seq(Bufs)
    /\ SentRecords(sent)
    /\ thread \in Threads
    /\ power \in {"on", "falling", "off", "rising"}
    /\ flow \in {"on", "asked", "off"}
    /\ closer \in {"open", "closing", "closed"}
    /\ stale \in BOOLEAN /\ overtaken \in BOOLEAN

(* A buffer is with the thread, with the bus, or on its way back; the      *)
(* thread has seen one come back when it handles its completion.           *)
BufferInOnePlace ==
    /\ IsInjective(idle) /\ IsInjective(pending) /\ IsInjective(done)
    /\ ToSet(idle) \cap ToSet(pending) = {}
    /\ ToSet(idle) \cap ToSet(done) = {}
    /\ ToSet(pending) \cap ToSet(done) = {}
    /\ ~(idle = << >> /\ pending = << >> /\ done = << >>)
    /\ At("finish") => done # << >>

(* The last record of a buffer in MWTSentIrpQueue is that of its transfer. *)
Recorded(s, b) ==
    \E k \in DOMAIN s :
        /\ s[k].buf = b /\ ~s[k].returned
        /\ \A j \in DOMAIN s : s[j].buf = b => j <= k

TransfersRecorded ==
    /\ \A k \in DOMAIN sent : sent[k].returned \/ Held(sent[k].buf)
    /\ \A b \in Bufs : Held(b) => Recorded(sent, b)

(* Who keeps the thread from sending, and will have it look again.         *)
Excused == ~LetGo \/ ev \cap {"resume", "flowOn"} # {}

CloseKnown ==
    /\ "cancel" \in ev \/ thread.cancelled \/ thread.state = "CANCELLING"
          => closer # "open"
    /\ At("exited") => thread.cancelled
    /\ closer = "closing" => \/ "cancel" \in ev
                             \/ thread.state = "CANCELLING" \/ thread.cancelled
                             \/ overtaken

StopsKnown ==
    /\ "stop" \in ev => \/ power # "on" \/ "resume" \in ev \/ ~present
                        \/ At("exited")
    /\ ~stale /\ thread.stopped => Excused

FlowKnown ==
    ~stale =>
        /\ "flowOff" \in ev => /\ flow = "asked" \/ At("exited")
                               /\ thread.state # "FLOW_OFF"
        /\ ~thread.flowOn =>
              flow # "on" \/ "flowOn" \in ev \/ closer # "open"

AckOwed ==
    flow = "asked" /\ "flowOff" \notin ev /\ ~At("exited") =>
        /\ thread.state = "FLOW_OFF" /\ ~thread.flowOn /\ "flowOn" \notin ev
        /\ ~At("send") /\ done # << >> /\ pending = << >>

LooksAgain ==
    /\ thread.purged => At("top")
    /\ ~stale /\ pending = << >> /\ done = << >> =>
          /\ (At("wait") \/ thread.purged) /\ thread.zlp => Excused
          /\ At("wait") /\ queue # << >> => Excused \/ "kick" \in ev

Invariant ==
    /\ Types /\ BufferInOnePlace /\ TransfersRecorded
    /\ CloseKnown /\ StopsKnown /\ FlowKnown /\ AckOwed /\ LooksAgain
    /\ DrainGoesOn

-----------------------------------------------------------------------------
(* Lists: what InsertTailList, RemoveHeadList, a cut, the move of a whole    *)
(* list and the removal of an entry do to the set of the entries.          *)
LEMMA ListEmpty ==
    ASSUME NEW S
    PROVE  << >> \in Seq(S) /\ ToSet(<< >>) = {} /\ IsInjective(<< >>)
BY DEF ToSet, IsInjective

LEMMA ListAppend ==
    ASSUME NEW S, NEW s \in Seq(S), NEW e \in S
    PROVE  /\ Append(s, e) \in Seq(S) /\ Append(s, e) # << >>
           /\ Len(Append(s, e)) = Len(s) + 1
           /\ ToSet(Append(s, e)) = ToSet(s) \cup {e}
           /\ Last(Append(s, e)) = e
           /\ IsInjective(s) /\ e \notin ToSet(s) => IsInjective(Append(s, e))
<1>. DEFINE t == Append(s, e)
<1>1. /\ t \in Seq(S) /\ t # << >> /\ Len(t) = Len(s) + 1
      /\ \A i \in 1..Len(s) : t[i] = s[i]
      /\ t[Len(s) + 1] = e /\ Len(s) \in Nat
      /\ DOMAIN t = 1..(Len(s) + 1) /\ DOMAIN s = 1..Len(s)
  BY AppendProperties, LenProperties
<1>. HIDE DEF t
<1>2. ToSet(t) = ToSet(s) \cup {e}
  BY <1>1 DEF ToSet
<1>3. Last(t) = e
  BY <1>1 DEF Last
<1>4. IsInjective(s) /\ e \notin ToSet(s) => IsInjective(t)
  BY <1>1 DEF ToSet, IsInjective
<1>5. QED
  BY <1>1, <1>2, <1>3, <1>4 DEF t

LEMMA ListTail ==
    ASSUME NEW S, NEW s \in Seq(S), s # << >>
    PROVE  /\ Head(s) \in S /\ Head(s) \in ToSet(s)
           /\ Tail(s) \in Seq(S) /\ Len(Tail(s)) = Len(s) - 1
           /\ ToSet(s) = ToSet(Tail(s)) \cup {Head(s)}
           /\ IsInjective(s) => /\ IsInjective(Tail(s))
                                /\ Head(s) \notin ToSet(Tail(s))
<1>. DEFINE t == Tail(s)
<1>1. /\ t \in Seq(S) /\ Len(t) = Len(s) - 1
      /\ \A i \in 1..Len(t) : t[i] = s[i + 1]
      /\ Len(s) \in Nat /\ Len(s) > 0 /\ Head(s) = s[1] /\ Head(s) \in S
      /\ DOMAIN t = 1..Len(t) /\ DOMAIN s = 1..Len(s)
  BY HeadTailProperties, LenProperties, EmptySeq
<1>. HIDE DEF t
<1>2. \A i \in 1..Len(s) : i = 1 \/ (i - 1 \in 1..Len(t) /\ t[i - 1] = s[i])
  BY <1>1
<1>3. ASSUME NEW i \in 1..Len(s) PROVE s[i] \in ToSet(t) \cup {s[1]}
  BY <1>1, <1>2 DEF ToSet
<1>4. ASSUME NEW i \in 1..Len(t) PROVE t[i] \in ToSet(s)
  <2>1. i + 1 \in 1..Len(s) /\ t[i] = s[i + 1]
    BY <1>1
  <2>2. QED
    BY <1>1, <2>1 DEF ToSet
<1>5. s[1] \in ToSet(s)
  BY <1>1 DEF ToSet
<1>6. ToSet(s) = ToSet(t) \cup {s[1]}
  <2>1. ToSet(s) \subseteq ToSet(t) \cup {s[1]}
    BY <1>1, <1>3 DEF ToSet
  <2>2. ToSet(t) \subseteq ToSet(s)
    BY <1>1, <1>4 DEF ToSet
  <2>3. QED
    BY <1>5, <2>1, <2>2
<1>7. ASSUME IsInjective(s), NEW i \in 1..Len(t)
      PROVE  t[i] # s[1] /\ \A j \in 1..Len(t) : t[i] = t[j] => i = j
  <2>1. \A j \in 1..Len(t) : j + 1 \in 1..Len(s) /\ t[j] = s[j + 1]
    BY <1>1
  <2>2. \A j, k \in 1..Len(s) : s[j] = s[k] => j = k
    BY <1>1, <1>7 DEF IsInjective
  <2>3. QED
    BY <1>1, <2>1, <2>2
<1>8. IsInjective(s) => IsInjective(t) /\ s[1] \notin ToSet(t)
  BY <1>1, <1>7 DEF ToSet, IsInjective
<1>9. QED
  BY <1>1, <1>5, <1>6, <1>8 DEF t

LEMMA ListConcat ==
    ASSUME NEW S, NEW s \in Seq(S), NEW t \in Seq(S)
    PROVE  /\ s \o t \in Seq(S) /\ Len(s \o t) = Len(s) + Len(t)
           /\ ToSet(s \o t) = ToSet(s) \cup ToSet(t)
           /\ IsInjective(s) /\ IsInjective(t) /\ ToSet(s) \cap ToSet(t) = {}
                 => IsInjective(s \o t)
<1>. DEFINE u == s \o t
<1>1. /\ u \in Seq(S) /\ Len(u) = Len(s) + Len(t)
      /\ \A i \in 1..Len(u) : u[i] = IF i <= Len(s) THEN s[i] ELSE t[i - Len(s)]
      /\ Len(s) \in Nat /\ Len(t) \in Nat
      /\ DOMAIN u = 1..Len(u) /\ DOMAIN s = 1..Len(s) /\ DOMAIN t = 1..Len(t)
  BY ConcatProperties, LenProperties
<1>. HIDE DEF u
<1>2. ToSet(u) \subseteq ToSet(s) \cup ToSet(t)
  <2>1. ASSUME NEW i \in 1..Len(u) PROVE u[i] \in ToSet(s) \cup ToSet(t)
    <3>1. \/ i \in 1..Len(s) /\ u[i] = s[i]
          \/ i - Len(s) \in 1..Len(t) /\ u[i] = t[i - Len(s)]
      BY <1>1
    <3>2. CASE i \in 1..Len(s) /\ u[i] = s[i]
      BY <1>1, <3>2 DEF ToSet
    <3>3. CASE i - Len(s) \in 1..Len(t) /\ u[i] = t[i - Len(s)]
      BY <1>1, <3>3 DEF ToSet
    <3>4. QED
      BY <3>1, <3>2, <3>3
  <2>2. QED
    BY <1>1, <2>1 DEF ToSet
<1>3. ASSUME NEW i \in 1..Len(s) PROVE s[i] \in ToSet(u)
  BY <1>1 DEF ToSet
<1>4. ASSUME NEW i \in 1..Len(t) PROVE t[i] \in ToSet(u)
  <2>1. i + Len(s) \in 1..Len(u) /\ u[i + Len(s)] = t[i]
    BY <1>1
  <2>2. QED
    BY <1>1, <2>1 DEF ToSet
<1>5. ToSet(u) = ToSet(s) \cup ToSet(t)
  BY <1>1, <1>2, <1>3, <1>4 DEF ToSet
<1>6. ASSUME IsInjective(s), IsInjective(t), ToSet(s) \cap ToSet(t) = {},
             NEW i \in 1..Len(u), NEW j \in 1..Len(u), u[i] = u[j]
      PROVE  i = j
  <2>1. CASE i <= Len(s) /\ j <= Len(s)
    BY <1>1, <1>6, <2>1 DEF IsInjective
  <2>2. CASE i > Len(s) /\ j > Len(s)
    <3>1. /\ i - Len(s) \in 1..Len(t) /\ j - Len(s) \in 1..Len(t)
          /\ t[i - Len(s)] = t[j - Len(s)]
      BY <1>1, <1>6, <2>2
    <3>2. i - Len(s) = j - Len(s)
      BY <1>1, <1>6, <3>1 DEF IsInjective
    <3>3. QED
      BY <1>1, <3>2
  <2>3. ASSUME NEW k \in 1..Len(u), NEW l \in 1..Len(u), u[k] = u[l],
               k <= Len(s), l > Len(s)
        PROVE  FALSE
    <3>0. k \in 1..Len(s) /\ l - Len(s) \in 1..Len(t)
      BY <1>1, <2>3
    <3>1. s[k] \in ToSet(s) /\ t[l - Len(s)] \in ToSet(t)
      BY <1>1, <3>0 DEF ToSet
    <3>2. s[k] = t[l - Len(s)]
      BY <1>1, <2>3
    <3>3. QED
      BY <1>6, <3>1, <3>2
  <2>4. QED
    BY <1>1, <1>6, <2>1, <2>2, <2>3
<1>7. QED
  BY <1>1, <1>5, <1>6 DEF u, IsInjective

LEMMA RemovedAt ==
    ASSUME NEW S, NEW s \in Seq(S), NEW i \in 1..Len(s)
    PROVE  /\ RemoveAt(s, i) \in Seq(S)
           /\ Len(RemoveAt(s, i)) = Len(s) - 1
           /\ \A j \in 1..(Len(s) - 1) :
                 RemoveAt(s, i)[j] = IF j < i THEN s[j] ELSE s[j + 1]
<1>. DEFINE left  == SubSeq(s, 1, i - 1)
             right == SubSeq(s, i + 1, Len(s))
<1>1. /\ left \in Seq(S)
      /\ Len(left) = i - 1
      /\ \A j \in 1..(i - 1) : left[j] = s[j]
  BY ElementOfSeq, LenProperties, SubSeqProperties
<1>2. /\ right \in Seq(S)
      /\ Len(right) = Len(s) - i
      /\ \A j \in 1..(Len(s) - i) : right[j] = s[j + i]
  BY ElementOfSeq, LenProperties, SubSeqProperties
<1>. HIDE DEF left, right
<1>3. /\ left \o right \in Seq(S)
      /\ Len(left \o right) = Len(s) - 1
      /\ \A j \in 1..(Len(s) - 1) :
            (left \o right)[j] = IF j < i THEN s[j] ELSE s[j + 1]
  <2>1. /\ left \o right \in Seq(S)
        /\ Len(left \o right) = Len(left) + Len(right)
        /\ \A j \in 1..(Len(left) + Len(right)) :
              (left \o right)[j] =
                 IF j <= Len(left) THEN left[j] ELSE right[j - Len(left)]
    BY <1>1, <1>2, ConcatProperties
  <2>2. Len(s) \in Nat
    BY LenProperties
  <2>3. ASSUME NEW j \in 1..(Len(s) - 1)
        PROVE  (left \o right)[j] = IF j < i THEN s[j] ELSE s[j + 1]
    <3>1. CASE j < i
      BY <1>1, <1>2, <2>1, <2>2, <3>1
    <3>2. CASE j >= i
      <4>1. (left \o right)[j] = right[j - (i - 1)]
        BY <1>1, <1>2, <2>1, <2>2, <3>2
      <4>2. right[j - (i - 1)] = s[j - (i - 1) + i]
        BY <1>2, <2>2, <3>2
      <4>3. QED
        BY <4>1, <4>2, <3>2
    <3>3. j < i \/ j >= i
      BY <2>2
    <3>4. QED
      BY <3>1, <3>2, <3>3
  <2>4. QED
    BY <1>1, <1>2, <2>1, <2>2, <2>3
<1>4. QED
  BY <1>3 DEF RemoveAt, left, right

LEMMA ListCut ==
    ASSUME NEW S, NEW s \in Seq(S), NEW n \in 0..Len(s)
    PROVE  LET l == SubSeq(s, 1, n)
               r == SubSeq(s, n + 1, Len(s))
           IN  /\ l \in Seq(S) /\ Len(l) = n
               /\ \A i \in 1..n : l[i] = s[i]
               /\ r \in Seq(S) /\ Len(r) = Len(s) - n
               /\ \A i \in 1..(Len(s) - n) : r[i] = s[i + n]
<1>. DEFINE l == SubSeq(s, 1, n)
            r == SubSeq(s, n + 1, Len(s))
<1>1. Len(s) \in Nat /\ n \in Nat /\ n <= Len(s) /\ DOMAIN s = 1..Len(s)
  BY LenProperties
<1>2. \A i \in 1..Len(s) : s[i] \in S
  BY ElementOfSeq
<1>3. /\ l \in Seq(S) /\ Len(l) = n
      /\ \A i \in 1..n : l[i] = s[i]
  <2>1. \A i \in 1..n : s[i] \in S
    BY <1>1, <1>2
  <2>2. /\ l \in Seq(S) /\ Len(l) = n
        /\ \A i \in 1..n : l[i] = s[1 + i - 1]
    BY <1>1, <2>1, SubSeqProperties
  <2>3. \A i \in 1..n : 1 + i - 1 = i
    OBVIOUS
  <2>4. QED
    BY <2>2, <2>3
<1>4. /\ r \in Seq(S) /\ Len(r) = Len(s) - n
      /\ \A i \in 1..(Len(s) - n) : r[i] = s[i + n]
  <2>1. \A i \in (n + 1)..Len(s) : s[i] \in S
    BY <1>1, <1>2
  <2>2. /\ r \in Seq(S)
        /\ Len(r) = IF n + 1 <= Len(s) THEN Len(s) - (n + 1) + 1 ELSE 0
        /\ \A i \in 1..(Len(s) - (n + 1) + 1) : r[i] = s[(n + 1) + i - 1]
    BY <1>1, <2>1, SubSeqProperties
  <2>3. Len(s) - (n + 1) + 1 = Len(s) - n
    BY <1>1
  <2>4. \A i \in 1..(Len(s) - n) : (n + 1) + i - 1 = i + n
    BY <1>1
  <2>5. Len(r) = Len(s) - n
    <3>1. CASE n + 1 <= Len(s)
      BY <2>2, <2>3, <3>1
    <3>2. CASE ~(n + 1 <= Len(s))
      <4>0. \A a, b \in Nat : b <= a /\ ~(b + 1 <= a) => a - b = 0
        OBVIOUS
      <4>1. Len(s) - n = 0
        BY <1>1, <3>2, <4>0
      <4>2. QED
        BY <2>2, <3>2, <4>1
    <3>3. QED
      BY <3>1, <3>2
  <2>6. QED
    BY <2>2, <2>3, <2>4, <2>5
<1>5. QED
  BY <1>3, <1>4 DEF l, r

LEMMA ListSplit ==
    ASSUME NEW S, NEW s \in Seq(S), NEW n \in 0..Len(s)
    PROVE  LET l == SubSeq(s, 1, n)
               r == SubSeq(s, n + 1, Len(s))
           IN  /\ l \in Seq(S) /\ r \in Seq(S)
               /\ Len(l) = n /\ Len(r) = Len(s) - n
               /\ ToSet(s) = ToSet(l) \cup ToSet(r)
               /\ IsInjective(s) => /\ IsInjective(l) /\ IsInjective(r)
                                    /\ ToSet(l) \cap ToSet(r) = {}
<1>. DEFINE l == SubSeq(s, 1, n)
            r == SubSeq(s, n + 1, Len(s))
<1>1. Len(s) \in Nat /\ n \in Nat /\ n <= Len(s) /\ DOMAIN s = 1..Len(s)
  BY LenProperties
<1>3. /\ l \in Seq(S) /\ Len(l) = n
      /\ \A i \in 1..n : l[i] = s[i]
  BY ListCut
<1>4. /\ r \in Seq(S) /\ Len(r) = Len(s) - n
      /\ \A i \in 1..(Len(s) - n) : r[i] = s[i + n]
  BY ListCut
<1>5. DOMAIN l = 1..n /\ DOMAIN r = 1..(Len(s) - n)
  BY <1>3, <1>4, LenProperties
<1>. HIDE DEF l, r
<1>6. ToSet(s) = ToSet(l) \cup ToSet(r)
  <2>1. ASSUME NEW i \in 1..Len(s) PROVE s[i] \in ToSet(l) \cup ToSet(r)
    <3>1. CASE i <= n
      BY <1>1, <1>3, <1>5, <3>1 DEF ToSet
    <3>2. CASE i > n
      <4>1. i - n \in 1..(Len(s) - n) /\ r[i - n] = s[(i - n) + n]
        BY <1>1, <1>4, <3>2
      <4>2. r[i - n] = s[i]
        BY <1>1, <4>1
      <4>3. QED
        BY <1>5, <4>1, <4>2 DEF ToSet
    <3>3. QED
      BY <1>1, <3>1, <3>2
  <2>2. ASSUME NEW i \in 1..n PROVE l[i] \in ToSet(s)
    BY <1>1, <1>3 DEF ToSet
  <2>3. ASSUME NEW i \in 1..(Len(s) - n) PROVE r[i] \in ToSet(s)
    <3>1. i + n \in 1..Len(s) /\ r[i] = s[i + n]
      BY <1>1, <1>4
    <3>2. QED
      BY <1>1, <3>1 DEF ToSet
  <2>4. ToSet(s) \subseteq ToSet(l) \cup ToSet(r)
    BY <1>1, <2>1 DEF ToSet
  <2>5. ToSet(l) \subseteq ToSet(s) /\ ToSet(r) \subseteq ToSet(s)
    BY <1>5, <2>2, <2>3 DEF ToSet
  <2>6. QED
    BY <2>4, <2>5
<1>7. IsInjective(s) => /\ IsInjective(l) /\ IsInjective(r)
                       /\ ToSet(l) \cap ToSet(r) = {}
  <2>1. SUFFICES ASSUME IsInjective(s)
                 PROVE  /\ IsInjective(l) /\ IsInjective(r)
                        /\ ToSet(l) \cap ToSet(r) = {}
    OBVIOUS
  <2>2. \A i, j \in 1..Len(s) : s[i] = s[j] => i = j
    BY <1>1, <2>1 DEF IsInjective
  <2>3. IsInjective(l)
    BY <1>1, <1>3, <1>5, <2>2 DEF IsInjective
  <2>4. ASSUME NEW i \in 1..(Len(s) - n), NEW j \in 1..(Len(s) - n),
               r[i] = r[j]
        PROVE  i = j
    <3>1. i + n \in 1..Len(s) /\ j + n \in 1..Len(s) /\ s[i + n] = s[j + n]
      BY <1>1, <1>4, <2>4
    <3>2. n + i = j + n
      BY <2>2, <3>1
    <3>3. QED
      BY <1>1, <3>2
  <2>5. ASSUME NEW i \in 1..n, NEW j \in 1..(Len(s) - n), l[i] = r[j]
        PROVE  FALSE
    <3>1. i \in 1..Len(s) /\ j + n \in 1..Len(s) /\ s[i] = s[j + n]
      BY <1>1, <1>3, <1>4, <2>5
    <3>2. i = j + n
      BY <2>2, <3>1
    <3>3. QED
      BY <1>1, <3>2
  <2>6. QED
    BY <1>5, <2>3, <2>4, <2>5 DEF ToSet, IsInjective
<1>8. QED
  BY <1>3, <1>4, <1>6, <1>7 DEF l, r

LEMMA IdleAtFirst ==
    LET s == SetToSeq(Bufs)
    IN  /\ s \in Seq(Bufs) /\ Len(s) = Cardinality(Bufs)
        /\ IsInjective(s)
<1>. DEFINE n == Cardinality(Bufs)
            s == SetToSeq(Bufs)
<1>1. n \in Nat /\ ExistsBijection(1..n, Bufs)
  BY BufferAssumption, FS_CardinalityType
<1>2. \E f \in [1..n -> Bufs] : IsInjective(f)
  BY <1>1 DEF ExistsBijection, Bijection, Injection, IsInjective
<1>3. s \in [1..n -> Bufs] /\ IsInjective(s)
  BY <1>2 DEF SetToSeq
<1>. HIDE DEF s, n
<1>4. s \in Seq(Bufs) /\ Len(s) = n
  <2>1. s \in Seq(Bufs)
    BY <1>1, <1>3, IsASeq
  <2>2. DOMAIN s = 1..Len(s) /\ Len(s) \in Nat /\ DOMAIN s = 1..n
    BY <1>3, <2>1, LenProperties
  <2>3. \A i : i \in 1..Len(s) <=> i \in 1..n
    BY <2>2
  <2>4. /\ Len(s) = 0 \/ Len(s) \in 1..Len(s)
        /\ n = 0 \/ n \in 1..n
    BY <1>1, <2>2
  <2>5. Len(s) <= n /\ n <= Len(s)
    BY <1>1, <2>2, <2>3, <2>4
  <2>6. \A l \in Nat : l <= n /\ n <= l => l = n
    BY <1>1
  <2>7. Len(s) = n
    BY <2>2, <2>5, <2>6
  <2>8. QED
    BY <2>1, <2>7
<1>5. QED
  BY <1>3, <1>4 DEF s, n

-----------------------------------------------------------------------------
(* Buffers: what the bus, the submission and the completion of a transfer   *)
(* do to the three lists of buffers and to the list of what was sent.      *)
LEMMA BufferTypes ==
    ASSUME Types
    PROVE  /\ ToSet(idle) \subseteq Bufs /\ ToSet(pending) \subseteq Bufs
           /\ ToSet(done) \subseteq Bufs
           /\ DOMAIN sent = 1..Len(sent) /\ Len(sent) \in Nat
<1>1. \A s \in Seq(Bufs) : ToSet(s) \subseteq Bufs
  BY ElementOfSeq, LenProperties DEF ToSet
<1>2. QED
  BY <1>1, LenProperties DEF Types

LEMMA TransfersReturn ==
    ASSUME Types, BufferInOnePlace, TransfersRecorded,
           NEW n \in 0..Len(pending), NEW s, Returned(n, s),
           UNCHANGED <<idle, sent>>, At("finish")' => At("finish")
    PROVE  /\ pending' \in Seq(Bufs) /\ done' \in Seq(Bufs)
           /\ BufferInOnePlace' /\ TransfersRecorded'
           /\ n > 0 \/ done # << >> => done' # << >>
           /\ n = Len(pending) => pending' = << >>
<1>. DEFINE part == SubSeq(pending, 1, n)
            rest == SubSeq(pending, n + 1, Len(pending))
<1>1. /\ pending \in Seq(Bufs) /\ done \in Seq(Bufs) /\ n \in Nat
      /\ Len(pending) \in Nat /\ Len(done) \in Nat /\ n <= Len(pending)
  BY LenProperties DEF Types
<1>2. /\ part \in Seq(Bufs) /\ rest \in Seq(Bufs)
      /\ Len(part) = n /\ Len(rest) = Len(pending) - n
      /\ ToSet(pending) = ToSet(part) \cup ToSet(rest)
      /\ IsInjective(part) /\ IsInjective(rest)
      /\ ToSet(part) \cap ToSet(rest) = {}
  BY <1>1, ListSplit DEF BufferInOnePlace
<1>3. pending' = rest /\ done' = done \o part
  BY DEF Returned
<1>. HIDE DEF part, rest
<1>4. /\ done' \in Seq(Bufs) /\ Len(done') = Len(done) + n
      /\ ToSet(done') = ToSet(done) \cup ToSet(part)
  <2>1. /\ done \o part \in Seq(Bufs)
        /\ Len(done \o part) = Len(done) + Len(part)
        /\ ToSet(done \o part) = ToSet(done) \cup ToSet(part)
    <3>1. done \in Seq(Bufs) /\ part \in Seq(Bufs)
      BY <1>1, <1>2
    <3>2. QED
      BY <3>1, ListConcat, Zenon
  <2>2. /\ done' \in Seq(Bufs) /\ Len(done') = Len(done) + Len(part)
        /\ ToSet(done') = ToSet(done) \cup ToSet(part)
    BY <1>3, <2>1, Zenon
  <2>3. Len(part) = n
    BY <1>2
  <2>4. QED
    BY <2>2, <2>3, Zenon
<1>5. IsInjective(done')
  <2>1. ToSet(done) \cap ToSet(part) = {}
    BY <1>2 DEF BufferInOnePlace
  <2>2. QED
    BY <1>1, <1>2, <1>3, <2>1, ListConcat DEF BufferInOnePlace
<1>6. n > 0 \/ done # << >> => done' # << >>
  <2>1. Len(done') > 0 => done' # << >>
    BY EmptySeq
  <2>2. done # << >> => Len(done) > 0
    BY <1>1, EmptySeq
  <2>3. QED
    BY <1>1, <1>4, <2>1, <2>2
<1>7. n = Len(pending) => pending' = << >>
  BY <1>1, <1>2, <1>3, EmptySeq
<1>8. ~(idle' = << >> /\ pending' = << >> /\ done' = << >>)
  <2>1. CASE n > 0 \/ done # << >>
    BY <1>6, <2>1
  <2>2. CASE n = 0 /\ done = << >>
    <3>1. Len(pending') = Len(pending)
      BY <1>1, <1>2, <1>3, <2>2
    <3>2. pending' = << >> => pending = << >>
      BY <1>1, <3>1, EmptySeq
    <3>3. QED
      BY <2>2, <3>2 DEF BufferInOnePlace
  <2>3. QED
    BY <1>1, <2>1, <2>2
<1>9. BufferInOnePlace'
  <2>1. At("finish")' => done' # << >>
    BY <1>6 DEF BufferInOnePlace
  <2>2. /\ IsInjective(idle') /\ IsInjective(pending')
        /\ ToSet(idle') \cap ToSet(pending') = {}
        /\ ToSet(idle') \cap ToSet(done') = {}
        /\ ToSet(pending') \cap ToSet(done') = {}
    BY <1>2, <1>3, <1>4 DEF BufferInOnePlace
  <2>3. QED
    BY <1>5, <1>8, <2>1, <2>2 DEF BufferInOnePlace
<1>10. TransfersRecorded'
  <2>1. ToSet(pending') \cup ToSet(done') = ToSet(pending) \cup ToSet(done)
    BY <1>2, <1>3, <1>4
  <2>2. \A b : Held(b)' <=> Held(b)
    BY <2>1 DEF Held
  <2>3. QED
    BY <2>2 DEF TransfersRecorded
<1>11. QED
  BY <1>2, <1>3, <1>4, <1>6, <1>7, <1>9, <1>10

LEMMA AbortReturns ==
    ASSUME Types, BufferInOnePlace, TransfersRecorded,
           AbortOutput, UNCHANGED <<idle, sent>>, At("finish")' => At("finish")
    PROVE  /\ pending' \in Seq(Bufs) /\ done' \in Seq(Bufs)
           /\ BufferInOnePlace' /\ TransfersRecorded'
           /\ pending # << >> \/ done # << >> => done' # << >>
           /\ pending' = << >>
<1>1. PICK s : Returned(Len(pending), s)
  BY DEF AbortOutput
<1>2. /\ Len(pending) \in 0..Len(pending)
      /\ pending # << >> => Len(pending) > 0
  BY EmptySeq, LenProperties DEF Types
<1>3. QED
  BY <1>1, <1>2, TransfersReturn

LEMMA SentAppend ==
    ASSUME NEW s, SentRecords(s), NEW i, NEW b, NEW c
    PROVE  LET r == [irp |-> i, buf |-> b, returned |-> c]
               t == Append(s, r)
           IN  /\ SentRecords(t)
               /\ DOMAIN s = 1..Len(s) /\ DOMAIN t = 1..(Len(s) + 1)
               /\ Len(s) \in Nat
               /\ \A k \in DOMAIN s : t[k] = s[k]
               /\ t[Len(s) + 1] = r
<1>. DEFINE r == [irp |-> i, buf |-> b, returned |-> c]
            t == Append(s, r)
            S == ToSet(s) \cup {r}
<1>1. s \in Seq(S)
  <2>1. s \in Seq(ToSet(s)) /\ ToSet(s) \subseteq S
    BY DEF SentRecords
  <2>. HIDE DEF S
  <2>2. QED
    BY <2>1, SeqMonotonic
<1>2. /\ t \in Seq(S) /\ ToSet(t) = ToSet(s) \cup {r}
      /\ Len(t) = Len(s) + 1
  <2>1. r \in S
    OBVIOUS
  <2>. HIDE DEF S, r
  <2>2. QED
    BY <1>1, <2>1, ListAppend
<1>3. /\ \A k \in 1..Len(s) : t[k] = s[k]
      /\ t[Len(s) + 1] = r
      /\ DOMAIN s = 1..Len(s) /\ DOMAIN t = 1..(Len(s) + 1) /\ Len(s) \in Nat
  <2>1. r \in S
    OBVIOUS
  <2>. HIDE DEF S, r
  <2>2. QED
    BY <1>1, <1>2, <2>1, AppendProperties, LenProperties
<1>4. \A x \in S : x = [irp |-> x.irp, buf |-> x.buf, returned |-> x.returned]
  BY DEF SentRecords
<1>5. SentRecords(t)
  <2>1. t \in Seq(ToSet(t))
    BY <1>2
  <2>. HIDE DEF t
  <2>2. QED
    BY <1>2, <1>4, <2>1 DEF SentRecords
<1>6. QED
  BY <1>3, <1>5

LEMMA TransferSubmitted ==
    ASSUME Types, BufferInOnePlace, TransfersRecorded, idle # << >>, Submit,
           UNCHANGED done, At("finish")' => At("finish")
    PROVE  /\ idle' \in Seq(Bufs) /\ pending' \in Seq(Bufs)
           /\ SentRecords(sent')
           /\ BufferInOnePlace' /\ TransfersRecorded'
           /\ pending' # << >>
           /\ pending # << >> => Head(pending') = Head(pending)
<1>. DEFINE HeldNext(c) == c \in ToSet(pending') \cup ToSet(done')
<1>. PICK b : b = Head(idle)
  OBVIOUS
<1>1. /\ idle \in Seq(Bufs) /\ pending \in Seq(Bufs) /\ SentRecords(sent)
  BY DEF Types
<1>2. /\ idle' = Tail(idle) /\ pending' = Append(pending, b)
      /\ \E i : sent' = Append(sent, [irp |-> i, buf |-> b, returned |-> FALSE])
  BY DEF Submit
<1>3. /\ b \in Bufs /\ b \in ToSet(idle) /\ idle' \in Seq(Bufs)
      /\ ToSet(idle) = ToSet(idle') \cup {b}
      /\ IsInjective(idle') /\ b \notin ToSet(idle')
  BY <1>1, <1>2, ListTail DEF BufferInOnePlace
<1>4. b \notin ToSet(pending) /\ b \notin ToSet(done)
  BY <1>3 DEF BufferInOnePlace
<1>5. /\ pending' \in Seq(Bufs) /\ pending' # << >>
      /\ ToSet(pending') = ToSet(pending) \cup {b}
      /\ IsInjective(pending')
  BY <1>1, <1>2, <1>3, <1>4, ListAppend DEF BufferInOnePlace
<1>6. pending # << >> => Head(pending') = Head(pending)
  BY <1>1, <1>2, <1>3, HeadTailAppend
<1>7. BufferInOnePlace'
  BY <1>3, <1>4, <1>5 DEF BufferInOnePlace
<1>8. PICK i : sent' = Append(sent, [irp |-> i, buf |-> b, returned |-> FALSE])
  BY <1>2
<1>9. /\ SentRecords(sent')
      /\ DOMAIN sent = 1..Len(sent) /\ DOMAIN sent' = 1..(Len(sent) + 1)
      /\ Len(sent) \in Nat
      /\ \A k \in DOMAIN sent : sent'[k] = sent[k]
      /\ sent'[Len(sent) + 1].buf = b /\ ~sent'[Len(sent) + 1].returned
  <2>. DEFINE r == [irp |-> i, buf |-> b, returned |-> FALSE]
  <2>1. r.buf = b /\ ~r.returned
    OBVIOUS
  <2>2. /\ SentRecords(sent')
        /\ DOMAIN sent = 1..Len(sent) /\ DOMAIN sent' = 1..(Len(sent) + 1)
        /\ Len(sent) \in Nat
        /\ \A k \in DOMAIN sent : sent'[k] = sent[k]
        /\ sent'[Len(sent) + 1] = r
    BY <1>1, <1>8, SentAppend
  <2>3. QED
    BY <2>1, <2>2
<1>10. \A c \in Bufs : HeldNext(c) <=> Held(c) \/ c = b
  BY <1>5 DEF Held
<1>11. HeldNext(b)
  BY <1>4, <1>5 DEF Held
<1>12. ASSUME NEW k \in DOMAIN sent'
       PROVE  sent'[k].returned \/ HeldNext(sent'[k].buf)
  <2>1. CASE k = Len(sent) + 1
    BY <1>9, <1>11, <2>1
  <2>2. CASE k \in DOMAIN sent
    <3>1. sent'[k] = sent[k] /\ (sent[k].returned \/ Held(sent[k].buf))
      BY <1>9, <2>2 DEF TransfersRecorded
    <3>2. \A c : Held(c) => HeldNext(c)
      BY <1>5 DEF Held
    <3>3. QED
      BY <3>1, <3>2
  <2>3. QED
    BY <1>9, <2>1, <2>2
<1>13. ASSUME NEW c \in Bufs, HeldNext(c)
       PROVE  Recorded(sent', c)
  <2>1. CASE c = b
    <3>1. Len(sent) + 1 \in DOMAIN sent'
          /\ \A j \in DOMAIN sent' : j <= Len(sent) + 1
      BY <1>9
    <3>2. QED
      BY <1>9, <2>1, <3>1 DEF Recorded
  <2>2. CASE c # b
    <3>1. PICK k \in DOMAIN sent :
              /\ sent[k].buf = c /\ ~sent[k].returned
              /\ \A j \in DOMAIN sent : sent[j].buf = c => j <= k
      BY <1>10, <1>13, <2>2 DEF TransfersRecorded, Recorded
    <3>2. k \in DOMAIN sent' /\ sent'[k] = sent[k]
      BY <1>9
    <3>3. ASSUME NEW j \in DOMAIN sent', sent'[j].buf = c PROVE j <= k
      <4>1. j # Len(sent) + 1
        BY <1>9, <2>2, <3>3
      <4>2. j \in DOMAIN sent /\ sent'[j] = sent[j]
        BY <1>9, <4>1
      <4>3. QED
        BY <3>1, <3>3, <4>2
    <3>4. QED
      BY <3>1, <3>2, <3>3 DEF Recorded
  <2>3. QED
    BY <2>1, <2>2
<1>14. TransfersRecorded'
  BY <1>12, <1>13 DEF TransfersRecorded, Held
<1>15. QED
  BY <1>3, <1>5, <1>6, <1>7, <1>9, <1>14

LEMMA RecordsMarked ==
    ASSUME SentRecords(sent), NEW b
    PROVE  LET m == Marked(b)
           IN  /\ SentRecords(m)
               /\ DOMAIN m = DOMAIN sent
               /\ \A k \in DOMAIN sent :
                     /\ m[k].buf = sent[k].buf
                     /\ sent[k].buf = b => m[k].returned
                     /\ sent[k].buf # b => m[k] = sent[k]
<1>. DEFINE m == Marked(b)
<1>1. /\ DOMAIN sent = 1..Len(sent) /\ Len(sent) \in Nat
      /\ DOMAIN m = DOMAIN sent
  BY LenProperties DEF SentRecords, Marked
<1>2. ASSUME NEW k \in DOMAIN sent
      PROVE  /\ m[k].buf = sent[k].buf
             /\ sent[k].buf = b => m[k].returned
             /\ sent[k].buf # b => m[k] = sent[k]
             /\ m[k] = [irp |-> m[k].irp, buf |-> m[k].buf,
                        returned |-> m[k].returned]
  <2>1. sent[k] = [irp |-> sent[k].irp, buf |-> sent[k].buf,
                   returned |-> sent[k].returned]
    BY DEF SentRecords, ToSet
  <2>2. CASE sent[k].buf = b
    <3>1. m[k] = [sent[k] EXCEPT !.returned = TRUE]
      BY <2>2 DEF Marked
    <3>2. m[k] = [irp |-> sent[k].irp, buf |-> b, returned |-> TRUE]
      BY <2>1, <2>2, <3>1
    <3>. HIDE DEF m
    <3>3. m[k].irp = sent[k].irp /\ m[k].buf = b /\ m[k].returned = TRUE
      BY <3>2
    <3>4. QED
      BY <2>2, <3>2, <3>3
  <2>3. CASE sent[k].buf # b
    <3>1. m[k] = sent[k]
      BY <2>3 DEF Marked
    <3>. HIDE DEF m
    <3>2. QED
      BY <2>1, <2>3, <3>1
  <2>4. QED
    BY <2>2, <2>3
<1>3. m \in Seq(ToSet(m))
  <2>1. m = [k \in 1..Len(sent) |-> m[k]]
    BY <1>1 DEF Marked
  <2>2. \A k \in 1..Len(sent) : m[k] \in ToSet(m)
    BY <1>1 DEF ToSet
  <2>. HIDE DEF m
  <2>3. m \in [1..Len(sent) -> ToSet(m)]
    BY <2>1, <2>2
  <2>4. QED
    BY <1>1, <2>3, IsASeq
<1>4. SentRecords(m)
  <2>. HIDE DEF m
  <2>1. QED
    BY <1>1, <1>2, <1>3 DEF SentRecords, ToSet
<1>5. QED
  BY <1>1, <1>2, <1>4

LEMMA RecordRemoved ==
    ASSUME NEW m, SentRecords(m), NEW i \in DOMAIN m
    PROVE  LET t == RemoveAt(m, i)
           IN  /\ SentRecords(t)
               /\ \A j \in DOMAIN t : \E k \in DOMAIN m : t[j] = m[k]
               /\ \A b : b # m[i].buf /\ Recorded(m, b) => Recorded(t, b)
<1>. DEFINE t == RemoveAt(m, i)
            S == ToSet(m)
<1>1. m \in Seq(S) /\ DOMAIN m = 1..Len(m) /\ Len(m) \in Nat
  BY LenProperties DEF SentRecords
<1>2. /\ t \in Seq(S) /\ Len(t) = Len(m) - 1
      /\ \A j \in 1..(Len(m) - 1) : t[j] = IF j < i THEN m[j] ELSE m[j + 1]
  BY <1>1, RemovedAt
<1>3. DOMAIN t = 1..(Len(m) - 1) /\ i \in Nat
  BY <1>1, <1>2, LenProperties
<1>. HIDE DEF t
<1>4. ASSUME NEW j \in DOMAIN t
      PROVE  \E k \in DOMAIN m : t[j] = m[k]
  <2>1. j \in DOMAIN m /\ j + 1 \in DOMAIN m
    BY <1>1, <1>3
  <2>2. QED
    BY <1>2, <1>3, <2>1
<1>5. SentRecords(t)
  <2>1. t \in Seq(ToSet(t))
    <3>1. \A j \in 1..Len(t) : t[j] \in ToSet(t)
      BY <1>2, <1>3 DEF ToSet
    <3>2. t \in [1..Len(t) -> ToSet(t)] /\ Len(t) \in Nat
      BY <1>2, <3>1, LenProperties
    <3>3. QED
      BY <3>2, IsASeq
  <2>2. ToSet(t) \subseteq S
    BY <1>4 DEF ToSet
  <2>3. QED
    BY <2>1, <2>2 DEF SentRecords
<1>6. ASSUME NEW b, b # m[i].buf, Recorded(m, b)
      PROVE  Recorded(t, b)
  <2>1. PICK k \in DOMAIN m :
            /\ m[k].buf = b /\ ~m[k].returned
            /\ \A j \in DOMAIN m : m[j].buf = b => j <= k
    BY <1>6 DEF Recorded
  <2>2. k # i
    BY <1>6, <2>1
  <2>. DEFINE n == IF k < i THEN k ELSE k - 1
  <2>3. n \in DOMAIN t /\ t[n] = m[k]
    <3>1. CASE k < i
      BY <1>1, <1>2, <1>3, <3>1
    <3>2. CASE k > i
      <4>1. k - 1 \in 1..(Len(m) - 1) /\ ~(k - 1 < i) /\ (k - 1) + 1 = k
        BY <1>1, <1>3, <3>2
      <4>2. QED
        BY <1>1, <1>2, <1>3, <3>2, <4>1
    <3>3. QED
      BY <1>1, <1>3, <2>2, <3>1, <3>2
  <2>4. ASSUME NEW j \in DOMAIN t, t[j].buf = b PROVE j <= n
    <3>1. CASE j < i
      <4>1. j \in DOMAIN m /\ t[j] = m[j]
        BY <1>1, <1>2, <1>3, <3>1
      <4>2. j <= k
        BY <2>1, <2>4, <4>1
      <4>3. QED
        BY <1>1, <1>3, <2>2, <3>1, <4>2
    <3>2. CASE ~(j < i)
      <4>1. j + 1 \in DOMAIN m /\ t[j] = m[j + 1]
        BY <1>1, <1>2, <1>3, <3>2
      <4>2. j + 1 <= k
        BY <2>1, <2>4, <4>1
      <4>3. QED
        BY <1>1, <1>3, <2>2, <3>2, <4>2
    <3>3. QED
      BY <3>1, <3>2
  <2>. HIDE DEF n
  <2>5. QED
    BY <2>1, <2>3, <2>4 DEF Recorded
<1>7. QED
  BY <1>4, <1>5, <1>6 DEF t

LEMMA TransferFinished ==
    ASSUME Types, BufferInOnePlace, TransfersRecorded, done # << >>,
           NEW b, b = Head(done),
           done' = Tail(done), idle' = Append(idle, b), UNCHANGED pending,
           \/ sent' = RemoveAt(Marked(b), LastOf(b))
           \/ sent' = Marked(b)
           \/ sent' = << >> /\ AllReturned(b),
           ~At("finish")'
    PROVE  /\ idle' \in Seq(Bufs) /\ done' \in Seq(Bufs)
           /\ SentRecords(sent')
           /\ BufferInOnePlace' /\ TransfersRecorded'
           /\ pending = << >> /\ done' = << >> => AllReturned(b)
<1>. DEFINE HeldNext(c) == c \in ToSet(pending') \cup ToSet(done')
<1>1. /\ idle \in Seq(Bufs) /\ pending \in Seq(Bufs) /\ done \in Seq(Bufs)
      /\ SentRecords(sent)
  BY DEF Types
<1>2. /\ b \in Bufs /\ b \in ToSet(done) /\ done' \in Seq(Bufs)
      /\ ToSet(done) = ToSet(done') \cup {b}
      /\ IsInjective(done') /\ b \notin ToSet(done')
  BY <1>1, ListTail DEF BufferInOnePlace
<1>3. b \notin ToSet(pending) /\ b \notin ToSet(idle)
  BY <1>2 DEF BufferInOnePlace
<1>4. /\ idle' \in Seq(Bufs) /\ idle' # << >>
      /\ ToSet(idle') = ToSet(idle) \cup {b} /\ IsInjective(idle')
  BY <1>1, <1>2, <1>3, ListAppend DEF BufferInOnePlace
<1>5. BufferInOnePlace'
  BY <1>2, <1>3, <1>4 DEF BufferInOnePlace
<1>6. /\ \A c : Held(c) /\ c # b => HeldNext(c)
      /\ \A c : HeldNext(c) => Held(c) /\ c # b
  BY <1>2, <1>3 DEF Held
<1>7. pending = << >> /\ done' = << >> => AllReturned(b)
  <2>1. pending = << >> /\ done' = << >> => \A c : ~HeldNext(c)
    BY ListEmpty
  <2>2. QED
    BY <1>6, <2>1 DEF AllReturned, TransfersRecorded
<1>8. /\ SentRecords(Marked(b)) /\ DOMAIN Marked(b) = DOMAIN sent
      /\ \A k \in DOMAIN sent :
            /\ Marked(b)[k].buf = sent[k].buf
            /\ sent[k].buf = b => Marked(b)[k].returned
            /\ sent[k].buf # b => Marked(b)[k] = sent[k]
  BY <1>1, RecordsMarked
<1>9. PICK m : m = Marked(b)
  OBVIOUS
<1>10. ASSUME NEW k \in DOMAIN m
       PROVE  m[k].returned \/ HeldNext(m[k].buf)
  BY <1>6, <1>8, <1>9 DEF TransfersRecorded
<1>11. ASSUME NEW c \in Bufs, HeldNext(c)
       PROVE  c # b /\ Recorded(m, c)
  <2>1. c # b /\ Recorded(sent, c)
    BY <1>6, <1>11 DEF TransfersRecorded
  <2>2. QED
    BY <1>8, <1>9, <2>1 DEF Recorded
<1>12. CASE sent' = Marked(b)
  <2>1. TransfersRecorded'
    BY <1>9, <1>10, <1>11, <1>12 DEF TransfersRecorded, Held
  <2>2. QED
    BY <1>2, <1>4, <1>5, <1>7, <1>8, <1>12, <2>1
<1>13. CASE sent' = RemoveAt(Marked(b), LastOf(b))
  <2>1. PICK i : i = LastOf(b)
    OBVIOUS
  <2>2. i \in DOMAIN sent /\ sent[i].buf = b
    <3>1. Recorded(sent, b)
      BY <1>2 DEF TransfersRecorded, Held
    <3>2. \E k \in DOMAIN sent :
              sent[k].buf = b /\ \A j \in DOMAIN sent : sent[j].buf = b => j <= k
      BY <3>1 DEF Recorded
    <3>3. QED
      BY <2>1, <3>2 DEF LastOf
  <2>3. i \in DOMAIN m /\ m[i].buf = b /\ SentRecords(m)
    BY <1>8, <1>9, <2>2
  <2>4. /\ SentRecords(sent')
        /\ \A j \in DOMAIN sent' : \E k \in DOMAIN m : sent'[j] = m[k]
        /\ \A c : c # b /\ Recorded(m, c) => Recorded(sent', c)
    BY <1>9, <1>13, <2>1, <2>3, RecordRemoved
  <2>5. \A j \in DOMAIN sent' : sent'[j].returned \/ HeldNext(sent'[j].buf)
    BY <1>10, <2>4
  <2>6. TransfersRecorded'
    BY <1>11, <2>4, <2>5 DEF TransfersRecorded, Held
  <2>7. QED
    BY <1>2, <1>4, <1>5, <1>7, <2>4, <2>6
<1>14. CASE sent' = << >> /\ AllReturned(b)
  <2>1. SentRecords(sent')
    BY <1>14 DEF SentRecords, ToSet
  <2>2. DOMAIN sent' = {}
    BY <1>14
  <2>3. ASSUME NEW c \in Bufs, HeldNext(c) PROVE FALSE
    <3>1. c # b /\ Recorded(sent, c)
      BY <1>6, <2>3 DEF TransfersRecorded
    <3>2. QED
      BY <1>14, <3>1 DEF Recorded, AllReturned
  <2>4. TransfersRecorded'
    BY <2>2, <2>3 DEF TransfersRecorded, Held
  <2>5. QED
    BY <1>2, <1>4, <1>5, <1>7, <2>1, <2>4
<1>15. QED
  BY <1>12, <1>13, <1>14

-----------------------------------------------------------------------------
(* The steps: every one keeps each part of the invariant.                   *)
LEMMA WakesInOrder ==
    /\ Wakes("resume") => "stop" \notin ev /\ "cancel" \notin ev
    /\ Wakes("flowOff") => "flowOn" \notin ev /\ "resume" \notin ev
<1>1. DOMAIN EventOrder = 1..7
  BY DEF EventOrder
<1>2. /\ EventOrder[1] = "cancel" /\ EventOrder[4] = "stop"
      /\ EventOrder[5] = "resume" /\ EventOrder[6] = "flowOn"
      /\ EventOrder[7] = "flowOff"
  BY DEF EventOrder
<1>3. QED
  BY <1>1, <1>2 DEF Wakes

LEMMA BuffersStay ==
    ASSUME BufferInOnePlace, TransfersRecorded,
           UNCHANGED <<idle, pending, done, sent>>,
           At("finish")' => At("finish") \/ done # << >>
    PROVE  BufferInOnePlace' /\ TransfersRecorded'
<1>1. BufferInOnePlace'
  BY DEF BufferInOnePlace
<1>2. \A b : Held(b)' <=> Held(b)
  BY DEF Held
<1>3. QED
  BY <1>1, <1>2 DEF TransfersRecorded

LEMMA SubmitWhere ==
    ASSUME ThreadSend
    PROVE  \/ idle # << >> /\ ~thread.cancelled /\ ~suspended /\ Submit
           \/ UNCHANGED <<idle, pending, sent>>
BY DEF ThreadSend, HasWork

LEMMA FinishWhere ==
    ASSUME Types, FinishCompletion
    PROVE  LET b == Head(done)
               status == IF present THEN result[b] ELSE "cxl"
           IN  /\ done' = Tail(done) /\ idle' = Append(idle, b)
               /\ UNCHANGED pending
               /\ \/ sent' = RemoveAt(Marked(b), LastOf(b))
                  \/ sent' = Marked(b)
                  \/ sent' = << >> /\ AllReturned(b)
               /\ thread'.pc \in {"top", "wait"}
<1>. DEFINE b == Head(done)
            status == IF present THEN result[b] ELSE "cxl"
<1>1. /\ done' = Tail(done) /\ idle' = Append(idle, b) /\ UNCHANGED pending
      /\ FinishFlowOff(b, status) \/ FinishWorking(b, status)
  BY DEF FinishCompletion
<1>. HIDE DEF b, status
<1>2. CASE FinishFlowOff(b, status)
  <2>1. \/ sent' = RemoveAt(Marked(b), LastOf(b))
        \/ sent' = Marked(b)
        \/ sent' = << >> /\ AllReturned(b)
    BY <1>2 DEF FinishFlowOff
  <2>2. thread'.pc = "top"
    BY <1>2 DEF FinishFlowOff, Answer, Types, Threads
  <2>3. QED
    BY <1>1, <2>1, <2>2 DEF b
<1>3. CASE FinishWorking(b, status)
  <2>1. sent' = RemoveAt(Marked(b), LastOf(b))
    BY <1>3 DEF FinishWorking
  <2>2. thread'.pc \in {"top", "wait"}
    BY <1>3 DEF FinishWorking, Answer, Types, Threads
  <2>3. QED
    BY <1>1, <2>1, <2>2 DEF b
<1>4. QED
  BY <1>1, <1>2, <1>3 DEF b, status

(* What the answer to a write does to the thread: USBMWT_WriteIrpCompletion *)
(* may give the device up, and tells the thread to stop.                   *)
LEMMA Answered ==
    ASSUME NEW i, NEW status, NEW t \in Threads, Answer(i, status, t)
    PROVE  /\ thread' \in Threads
           /\ thread'.pc = t.pc /\ thread'.zlp = t.zlp
           /\ thread'.flowOn = t.flowOn /\ thread'.purged = t.purged
           /\ thread'.cancelled = t.cancelled /\ thread'.state = t.state
           /\ thread'.stopped => t.stopped \/ ~present'
           /\ ev' = ev \/ (ev' = ev \cup {"stop"} /\ ~present')
           /\ present' => present
<1>. DEFINE failed == status = "err"
            givenUp == failed /\ t.errs + 1 > Retries
<1>1. /\ thread' = [t EXCEPT !.errs = IF ~failed THEN 0
                                       ELSE IF givenUp THEN Retries ELSE @ + 1,
                             !.stopped = @ \/ givenUp]
      /\ device' = IF givenUp /\ present THEN "failed" ELSE device
      /\ ev' = ev \cup (IF givenUp THEN {"stop"} ELSE {})
  BY DEF Answer
<1>2. givenUp \in BOOLEAN /\ failed \in BOOLEAN
  OBVIOUS
<1>. HIDE DEF failed, givenUp
<1>3. /\ thread' \in Threads
      /\ thread'.pc = t.pc /\ thread'.zlp = t.zlp
      /\ thread'.flowOn = t.flowOn /\ thread'.purged = t.purged
      /\ thread'.cancelled = t.cancelled /\ thread'.state = t.state
      /\ thread'.stopped = (t.stopped \/ givenUp)
  <2>. DEFINE e == IF ~failed THEN 0 ELSE IF givenUp THEN Retries ELSE t.errs + 1
              c == t.stopped \/ givenUp
  <2>1. thread' = [t EXCEPT !.errs = e, !.stopped = c]
    BY <1>1
  <2>2. e \in Nat
    BY <1>2, WriteAssumption DEF Threads
  <2>3. c \in BOOLEAN
    OBVIOUS
  <2>. HIDE DEF e, c
  <2>4. /\ thread' \in Threads
        /\ thread'.pc = t.pc /\ thread'.zlp = t.zlp
        /\ thread'.flowOn = t.flowOn /\ thread'.purged = t.purged
        /\ thread'.cancelled = t.cancelled /\ thread'.state = t.state
        /\ thread'.stopped = c
    BY <2>1, <2>2, <2>3 DEF Threads
  <2>5. QED
    BY <2>4 DEF c
<1>4. /\ givenUp => ~present'
      /\ present' => present
  BY <1>1 DEF present
<1>5. ev' = ev \/ (ev' = ev \cup {"stop"} /\ ~present')
  <2>1. CASE givenUp
    BY <1>1, <1>4, <2>1
  <2>2. CASE ~givenUp
    <3>1. ev' = ev
      BY <1>1, <2>2
    <3>2. QED
      BY <3>1
  <2>3. QED
    BY <2>1, <2>2
<1>6. thread'.stopped => t.stopped \/ ~present'
  <2>1. CASE givenUp
    BY <1>4, <2>1
  <2>2. CASE ~givenUp
    BY <1>3, <2>2
  <2>3. QED
    BY <2>1, <2>2
<1>7. QED
  BY <1>3, <1>4, <1>5, <1>6

(* What the handling of a completion leaves of the thread's state.         *)
LEMMA FinishOutcome ==
    ASSUME Types, FinishCompletion
    PROVE  /\ thread' \in Threads /\ At("finish")
           /\ thread'.flowOn = thread.flowOn /\ thread'.purged = thread.purged
           /\ thread'.stopped => thread.stopped \/ ~present'
           /\ ev' = ev \/ (ev' = ev \cup {"stop"} /\ ~present')
           /\ present' => present
           /\ flow' \in {flow, "off"} /\ (flow' = "off" => flow # "on")
           /\ \/ /\ thread.state = "FLOW_OFF" /\ thread'.pc = "top"
                 /\ thread'.state \in {"FLOW_OFF", "WORKING"}
                 /\ thread'.cancelled = thread.cancelled
                 /\ flow' # "asked" \/ thread'.state = "FLOW_OFF"
                 /\ AllReturned(Head(done)) => flow' # "asked"
              \/ /\ thread.state \in Drains /\ pending # << >>
                 /\ thread'.pc = "wait" /\ thread'.state = thread.state
                 /\ thread'.cancelled = thread.cancelled
                 /\ Head(pending) \in urbCxl' /\ UNCHANGED flow
              \/ /\ thread.state # "FLOW_OFF" /\ thread'.pc = "top"
                 /\ thread'.state = "WORKING" /\ UNCHANGED flow
                 /\ thread'.cancelled =>
                       thread.cancelled \/ thread.state = "CANCELLING"
                 /\ thread.cancelled \/ thread.state = "CANCELLING" =>
                       thread'.cancelled
<1>. DEFINE b == Head(done)
            status == IF present THEN result[b] ELSE "cxl"
<1>1. /\ At("finish")
      /\ \/ thread.state = "FLOW_OFF" /\ FinishFlowOff(b, status)
         \/ thread.state # "FLOW_OFF" /\ FinishWorking(b, status)
  BY DEF FinishCompletion
<1>2. thread \in Threads /\ flow \in {"on", "asked", "off"}
  BY DEF Types
<1>. HIDE DEF status
<1>3. CASE thread.state = "FLOW_OFF" /\ FinishFlowOff(b, status)
  <2>. DEFINE kept == IF status = "ok" THEN RemoveAt(Marked(b), LastOf(b))
                      ELSE Marked(b)
              back == AllReturned(b)
              z == IF back /\ kept # << >> /\ Head(kept).irp = NONE THEN TRUE
                   ELSE thread.zlp
              w == IF back \/ kept = << >> THEN "WORKING" ELSE thread.state
              t == [thread EXCEPT !.pc = "top", !.zlp = z, !.state = w]
  <2>1. /\ IF status = "ok" THEN Answer(calling[b], status, t)
           ELSE thread' = t /\ UNCHANGED <<outq, device, ev>>
        /\ IF back \/ kept = << >> THEN FlowOffAck ELSE UNCHANGED flow
    BY <1>3 DEF FinishFlowOff
  <2>2. z \in BOOLEAN /\ w \in {"FLOW_OFF", "WORKING"}
    BY <1>2, <1>3 DEF Threads
  <2>3. /\ flow' \in {flow, "off"} /\ (flow' = "off" => flow # "on")
        /\ flow' # "asked" \/ w = "FLOW_OFF"
        /\ back => flow' # "asked"
    <3>. HIDE DEF back, kept
    <3>1. QED
      BY <1>2, <1>3, <2>1 DEF FlowOffAck
  <2>. HIDE DEF z, w, kept, back
  <2>4. /\ t \in Threads /\ t.pc = "top" /\ t.state = w
        /\ t.flowOn = thread.flowOn /\ t.purged = thread.purged
        /\ t.cancelled = thread.cancelled /\ t.stopped = thread.stopped
    BY <1>2, <2>2 DEF Threads
  <2>. HIDE DEF t
  <2>5. /\ thread' \in Threads /\ thread'.pc = "top" /\ thread'.state = w
        /\ thread'.flowOn = thread.flowOn /\ thread'.purged = thread.purged
        /\ thread'.cancelled = thread.cancelled
        /\ thread'.stopped => thread.stopped \/ ~present'
        /\ ev' = ev \/ (ev' = ev \cup {"stop"} /\ ~present')
        /\ present' => present
    <3>1. CASE status = "ok"
      BY <2>1, <2>4, <3>1, Answered
    <3>2. CASE status # "ok"
      <4>1. thread' = t /\ ev' = ev /\ device' = device
        BY <2>1, <3>2
      <4>2. present' => present
        BY <4>1 DEF present
      <4>3. thread'.stopped => thread.stopped \/ ~present'
        BY <2>4, <4>1
      <4>4. QED
        BY <2>4, <4>1, <4>2, <4>3
    <3>3. QED
      BY <3>1, <3>2
  <2>6. QED
    BY <1>1, <1>3, <2>2, <2>3, <2>5 DEF back
<1>4. CASE thread.state # "FLOW_OFF" /\ FinishWorking(b, status)
  <2>. DEFINE draining == thread.state # "WORKING"
              t == IF draining /\ pending # << >>
                   THEN [thread EXCEPT !.pc = "wait"]
                   ELSE [thread EXCEPT
                            !.pc = "top", !.state = "WORKING",
                            !.cancelled = @ \/ thread.state = "CANCELLING"]
  <2>1. /\ Answer(calling[b], status, t) /\ UNCHANGED flow
        /\ draining /\ pending # << >> => Head(pending) \in urbCxl'
    BY <1>4 DEF FinishWorking
  <2>2. CASE draining /\ pending # << >>
    <3>1. /\ t \in Threads /\ t.pc = "wait" /\ t.state = thread.state
          /\ t.flowOn = thread.flowOn /\ t.purged = thread.purged
          /\ t.cancelled = thread.cancelled /\ t.stopped = thread.stopped
      BY <1>2, <2>2 DEF Threads
    <3>. HIDE DEF t
    <3>2. /\ thread' \in Threads /\ thread'.pc = "wait"
          /\ thread'.state = thread.state
          /\ thread'.flowOn = thread.flowOn /\ thread'.purged = thread.purged
          /\ thread'.cancelled = thread.cancelled
          /\ thread'.stopped => thread.stopped \/ ~present'
          /\ ev' = ev \/ (ev' = ev \cup {"stop"} /\ ~present')
          /\ present' => present
      BY <2>1, <3>1, Answered
    <3>3. thread.state \in Drains
      BY <1>2, <1>4, <2>2 DEF Threads
    <3>4. QED
      BY <1>1, <1>2, <2>1, <2>2, <3>2, <3>3
  <2>3. CASE ~(draining /\ pending # << >>)
    <3>1. /\ t \in Threads /\ t.pc = "top" /\ t.state = "WORKING"
          /\ t.flowOn = thread.flowOn /\ t.purged = thread.purged
          /\ t.cancelled = (thread.cancelled \/ thread.state = "CANCELLING")
          /\ t.stopped = thread.stopped
      BY <1>2, <2>3 DEF Threads
    <3>. HIDE DEF t
    <3>2. /\ thread' \in Threads /\ thread'.pc = "top"
          /\ thread'.state = "WORKING"
          /\ thread'.flowOn = thread.flowOn /\ thread'.purged = thread.purged
          /\ thread'.cancelled = t.cancelled
          /\ thread'.stopped => thread.stopped \/ ~present'
          /\ ev' = ev \/ (ev' = ev \cup {"stop"} /\ ~present')
          /\ present' => present
      BY <2>1, <3>1, Answered
    <3>3. QED
      BY <1>1, <1>2, <1>4, <2>1, <3>1, <3>2
  <2>4. QED
    BY <2>2, <2>3
<1>5. QED
  BY <1>1, <1>3, <1>4

LEMMA ThreadTyped ==
    ASSUME Types, Next
    PROVE  thread' \in Threads
<1>1. thread \in Threads
  BY DEF Types
<1>. USE DEF Threads
<1>2. CASE UNCHANGED thread
  BY <1>1, <1>2
<1>3. CASE ThreadTop
  BY <1>1, <1>3 DEF ThreadTop
<1>4. CASE ThreadSend
  <2>1. CASE Submit
    <3>. DEFINE z == (IF thread.zlp THEN NONE ELSE Head(queue)) \in LongWrites
    <3>1. thread' = [thread EXCEPT !.zlp = z] /\ z \in BOOLEAN
      BY <2>1 DEF Submit
    <3>. HIDE DEF z
    <3>2. QED
      BY <1>1, <3>1
  <2>2. CASE ~Submit
    BY <1>1, <1>4, <2>2 DEF ThreadSend
  <2>3. QED
    BY <2>1, <2>2
<1>5. CASE ThreadExit
  BY <1>1, <1>5 DEF ThreadExit
<1>6. CASE CancelEvent
  BY <1>1, <1>6 DEF CancelEvent, StartDrain, Drains
<1>7. CASE PurgeEvent
  BY <1>1, <1>7 DEF PurgeEvent, StartDrain, Drains
<1>8. CASE StopEvent
  BY <1>1, <1>8 DEF StopEvent, StartDrain, Drains
<1>9. CASE KickEvent
  BY <1>1, <1>9 DEF KickEvent
<1>10. suspended \in BOOLEAN
  BY DEF suspended
<1>11. CASE ResumeEvent
  BY <1>1, <1>10, <1>11 DEF ResumeEvent
<1>12. CASE FlowOnEvent
  BY <1>1, <1>10, <1>12 DEF FlowOnEvent
<1>13. CASE FlowOffEvent
  BY <1>1, <1>13 DEF FlowOffEvent
<1>14. CASE PeekCompletion
  BY <1>1, <1>14 DEF PeekCompletion
<1>15. CASE FinishCompletion
  BY <1>15, FinishOutcome
<1>16. CASE \/ StartWrite \/ Enqueue \/ BusComplete
            \/ Standby \/ StandbyStop \/ Wakeup \/ WakeupResume
            \/ EmptyCompletionQueue \/ FlowOff \/ FlowOffTimeout \/ FlowOn
            \/ CleanupAbort \/ CleanupPurge \/ SurpriseRemoval \/ Close
            \/ CloseDone
  <2>1. UNCHANGED thread
    BY <1>16
    DEF StartWrite, Enqueue, BusComplete, Standby, StandbyStop, Wakeup,
        WakeupResume, EmptyCompletionQueue, FlowOff, FlowOffTimeout, FlowOn,
        CleanupAbort, CleanupPurge, SurpriseRemoval, Close, CloseDone,
        Announces, Others
  <2>2. QED
    BY <1>2, <2>1
<1>17. QED
  BY <1>3, <1>4, <1>5, <1>6, <1>7, <1>8, <1>9, <1>11, <1>12, <1>13, <1>14,
     <1>15, <1>16
  DEF Next, Thread

LEMMA BuffersKept ==
    ASSUME Types, BufferInOnePlace, TransfersRecorded, Next
    PROVE  /\ idle' \in Seq(Bufs) /\ pending' \in Seq(Bufs)
           /\ done' \in Seq(Bufs) /\ SentRecords(sent')
           /\ BufferInOnePlace' /\ TransfersRecorded'
<1>1. /\ idle \in Seq(Bufs) /\ pending \in Seq(Bufs) /\ done \in Seq(Bufs)
      /\ SentRecords(sent) /\ thread \in Threads
  BY DEF Types
<1>2. CASE /\ UNCHANGED <<idle, pending, done, sent>>
           /\ At("finish")' => At("finish") \/ done # << >>
  BY <1>1, <1>2, BuffersStay
<1>3. CASE BusComplete
  <2>1. PICK s : Returned(1, s)
    BY <1>3 DEF BusComplete
  <2>2. 1 \in 0..Len(pending)
    BY <1>1, <1>3, EmptySeq, LenProperties DEF BusComplete
  <2>3. UNCHANGED <<idle, sent, thread>>
    BY <1>3 DEF BusComplete
  <2>4. At("finish")' => At("finish")
    BY <2>3 DEF At
  <2>5. QED
    BY <1>1, <2>1, <2>2, <2>3, <2>4, TransfersReturn
<1>4. CASE CleanupAbort
  <2>1. AbortOutput /\ UNCHANGED <<idle, sent, thread>>
    BY <1>4 DEF CleanupAbort
  <2>2. At("finish")' => At("finish")
    BY <2>1 DEF At
  <2>3. QED
    BY <1>1, <2>1, <2>2, AbortReturns
<1>5. CASE FlowOffEvent
  <2>1. UNCHANGED <<idle, sent>> /\ ~At("finish")'
    BY <1>1, <1>5 DEF FlowOffEvent, At, Threads
  <2>2. CASE UNCHANGED <<pending, done>>
    BY <1>2, <2>1, <2>2
  <2>3. CASE AbortOutput
    BY <1>1, <2>1, <2>3, AbortReturns
  <2>4. QED
    BY <1>5, <2>2, <2>3 DEF FlowOffEvent
<1>6. CASE ThreadSend
  <2>1. UNCHANGED done
    BY <1>6 DEF ThreadSend
  <2>2. ~At("finish")'
    BY <1>1, <1>6 DEF ThreadSend, Submit, At, Threads
  <2>3. CASE idle # << >> /\ Submit
    BY <1>1, <2>1, <2>2, <2>3, TransferSubmitted
  <2>4. CASE UNCHANGED <<idle, pending, sent>>
    BY <1>2, <2>1, <2>2, <2>4
  <2>5. QED
    BY <1>6, <2>3, <2>4, SubmitWhere
<1>7. CASE FinishCompletion
  <2>1. done # << >>
    BY <1>7 DEF FinishCompletion, BufferInOnePlace
  <2>2. PICK b : b = Head(done)
    OBVIOUS
  <2>3. /\ done' = Tail(done) /\ idle' = Append(idle, b) /\ UNCHANGED pending
        /\ \/ sent' = RemoveAt(Marked(b), LastOf(b))
           \/ sent' = Marked(b)
           \/ sent' = << >> /\ AllReturned(b)
        /\ ~At("finish")'
    BY <1>7, <2>2, FinishWhere DEF At
  <2>4. QED
    BY <1>1, <2>1, <2>2, <2>3, TransferFinished
<1>8. CASE \/ ThreadTop \/ ThreadExit \/ CancelEvent \/ PurgeEvent \/ StopEvent
           \/ KickEvent \/ ResumeEvent \/ FlowOnEvent \/ PeekCompletion
  <2>1. UNCHANGED <<idle, pending, done, sent>>
    BY <1>8 DEF ThreadTop, ThreadExit, CancelEvent, PurgeEvent, StopEvent,
                KickEvent, ResumeEvent, FlowOnEvent, PeekCompletion, Quiet,
                queues
  <2>2. At("finish")' => At("finish") \/ done # << >>
    <3>1. CASE ThreadTop
      BY <1>1, <3>1 DEF ThreadTop, At, Threads
    <3>2. CASE ThreadExit
      BY <1>1, <3>2 DEF ThreadExit, At, Threads
    <3>3. CASE CancelEvent \/ PurgeEvent \/ StopEvent
      BY <1>1, <3>3
      DEF CancelEvent, PurgeEvent, StopEvent, StartDrain, Wakes, At, Threads
    <3>4. CASE KickEvent \/ ResumeEvent \/ FlowOnEvent
      BY <1>1, <3>4 DEF KickEvent, ResumeEvent, FlowOnEvent, At, Threads
    <3>5. CASE PeekCompletion
      BY <3>5 DEF PeekCompletion
    <3>6. QED
      BY <1>8, <3>1, <3>2, <3>3, <3>4, <3>5
  <2>3. QED
    BY <1>2, <2>1, <2>2
<1>9. CASE \/ StartWrite \/ Enqueue \/ Standby \/ StandbyStop \/ Wakeup
           \/ WakeupResume \/ EmptyCompletionQueue \/ FlowOff \/ FlowOffTimeout
           \/ FlowOn \/ CleanupPurge \/ SurpriseRemoval \/ Close \/ CloseDone
  <2>1. UNCHANGED <<idle, pending, done, sent, thread>>
    BY <1>9
    DEF StartWrite, Enqueue, Standby, StandbyStop, Wakeup, WakeupResume,
        EmptyCompletionQueue, FlowOff, FlowOffTimeout, FlowOn, CleanupPurge,
        SurpriseRemoval, Close, CloseDone, Announces, Others, queues
  <2>2. At("finish")' => At("finish")
    BY <2>1 DEF At
  <2>3. QED
    BY <1>2, <2>1, <2>2
<1>10. QED
  BY <1>3, <1>4, <1>5, <1>6, <1>7, <1>8, <1>9 DEF Next, Thread

LEMMA TypesKept ==
    ASSUME Types, BufferInOnePlace, TransfersRecorded, Next
    PROVE  Types'
<1>1. /\ power' \in {"on", "falling", "off", "rising"}
      /\ flow' \in {"on", "asked", "off"}
      /\ closer' \in {"open", "closing", "closed"}
  <2>1. CASE Thread
    <3>1. UNCHANGED <<power, closer>>
      BY <2>1 DEF Thread, ThreadTop, ThreadSend, ThreadExit, CancelEvent,
                  PurgeEvent, StopEvent, KickEvent, ResumeEvent, FlowOnEvent,
                  FlowOffEvent, PeekCompletion, FinishCompletion, outside
    <3>2. flow' \in {flow, "off"}
      <4>1. CASE FinishCompletion
        BY <4>1, FinishOutcome
      <4>2. CASE FlowOffEvent
        BY <4>2 DEF FlowOffEvent, FlowOffAck
      <4>3. CASE ~FinishCompletion /\ ~FlowOffEvent
        BY <2>1, <4>3
        DEF Thread, ThreadTop, ThreadSend, ThreadExit, CancelEvent, PurgeEvent,
            StopEvent, KickEvent, ResumeEvent, FlowOnEvent, PeekCompletion,
            outside
      <4>4. QED
        BY <4>1, <4>2, <4>3
    <3>3. QED
      BY <3>1, <3>2 DEF Types
  <2>2. CASE ~Thread
    BY <2>2
    DEF Next, Types, StartWrite, Enqueue, BusComplete, Standby, StandbyStop,
        Wakeup, WakeupResume, EmptyCompletionQueue, FlowOff, FlowOffTimeout,
        FlowOn, CleanupAbort, CleanupPurge, SurpriseRemoval, Close, CloseDone,
        Announces, Others, outside
  <2>3. QED
    BY <2>1, <2>2
<1>2. stale' \in BOOLEAN /\ overtaken' \in BOOLEAN
  <2>1. CASE Thread
    BY <2>1
    DEF Types, Thread, ThreadTop, ThreadSend, ThreadExit, CancelEvent,
        PurgeEvent, StopEvent, KickEvent, ResumeEvent, FlowOnEvent,
        FlowOffEvent, PeekCompletion, FinishCompletion, StartDrain, Quiet,
        history
  <2>2. CASE ~Thread
    BY <2>2
    DEF Next, Types, StartWrite, Enqueue, BusComplete, Standby, StandbyStop,
        Wakeup, WakeupResume, EmptyCompletionQueue, FlowOff, FlowOffTimeout,
        FlowOn, CleanupAbort, CleanupPurge, SurpriseRemoval, Close, CloseDone,
        Announces, Others, history
  <2>3. QED
    BY <2>1, <2>2
<1>3. QED
  BY <1>1, <1>2, ThreadTyped, BuffersKept DEF Types

(* Only the thread ends and forgets a close: it cancels what is in flight,  *)
(* and remembers that in its state until nothing is.                       *)
LEMMA CloseKept ==
    ASSUME Types, CloseKnown, Next
    PROVE  CloseKnown'
<1>1. /\ thread \in Threads /\ closer \in {"open", "closing", "closed"}
      /\ overtaken \in BOOLEAN
  BY DEF Types
<1>. USE DEF CloseKnown, At
<1>2. CASE UNCHANGED <<thread, closer, overtaken>> /\ ("cancel" \in ev <=> "cancel" \in ev')
  BY <1>2
<1>3. CASE ThreadTop
  BY <1>1, <1>3 DEF ThreadTop, Threads, history
<1>4. CASE ThreadSend
  <2>1. /\ thread'.cancelled = thread.cancelled /\ thread'.pc # "exited"
        /\ thread'.state = thread.state
    BY <1>1, <1>4 DEF ThreadSend, Submit, Threads
  <2>2. UNCHANGED <<closer, overtaken, ev>>
    BY <1>4 DEF ThreadSend, outside, history
  <2>3. QED
    BY <2>1, <2>2
<1>5. CASE ThreadExit
  BY <1>1, <1>5 DEF ThreadExit, ExitReady, Threads, outside, history
<1>6. CASE CancelEvent
  BY <1>1, <1>6 DEF CancelEvent, StartDrain, Wakes, Threads, outside
<1>7. CASE PurgeEvent
  <2>1. /\ thread'.cancelled = thread.cancelled /\ thread'.pc # "exited"
        /\ \/ thread'.state = thread.state /\ UNCHANGED overtaken
           \/ /\ thread'.state = "PURGING"
              /\ thread.state = "CANCELLING" => overtaken'
              /\ overtaken => overtaken'
    <3>1. CASE pending # << >> /\ StartDrain("PURGING", thread)
      <4>1. thread' = [thread EXCEPT !.state = "PURGING"]
        BY <3>1 DEF StartDrain
      <4>2. /\ thread.state = "CANCELLING" => overtaken'
            /\ overtaken => overtaken'
        BY <3>1 DEF StartDrain
      <4>3. QED
        BY <1>1, <1>7, <4>1, <4>2 DEF PurgeEvent, Wakes, Threads
    <3>2. CASE pending = << >>
      BY <1>1, <1>7, <3>2 DEF PurgeEvent, Wakes, Threads
    <3>3. QED
      BY <1>7, <3>1, <3>2 DEF PurgeEvent
  <2>2. closer' = closer /\ ("cancel" \in ev <=> "cancel" \in ev')
    BY <1>7 DEF PurgeEvent, Wakes, outside
  <2>3. QED
    BY <2>1, <2>2
<1>8. CASE StopEvent
  <2>1. /\ thread'.cancelled = thread.cancelled /\ thread'.pc # "exited"
        /\ \/ thread'.state = thread.state /\ UNCHANGED overtaken
           \/ /\ thread'.state = "STOPPING"
              /\ thread.state = "CANCELLING" => overtaken'
              /\ overtaken => overtaken'
    <3>1. CASE pending # << >> /\ StartDrain("STOPPING", [thread EXCEPT !.stopped = TRUE])
      <4>1. thread' = [[thread EXCEPT !.stopped = TRUE] EXCEPT !.state = "STOPPING"]
        BY <3>1 DEF StartDrain
      <4>2. /\ thread.state = "CANCELLING" => overtaken'
            /\ overtaken => overtaken'
        BY <3>1 DEF StartDrain
      <4>3. QED
        BY <1>1, <1>8, <4>1, <4>2 DEF StopEvent, Wakes, Threads
    <3>2. CASE pending = << >>
      BY <1>1, <1>8, <3>2 DEF StopEvent, Wakes, Threads
    <3>3. QED
      BY <1>8, <3>1, <3>2 DEF StopEvent
  <2>2. closer' = closer /\ ("cancel" \in ev <=> "cancel" \in ev')
    BY <1>8 DEF StopEvent, Wakes, outside
  <2>3. QED
    BY <2>1, <2>2
<1>9. CASE KickEvent \/ ResumeEvent \/ FlowOnEvent
  BY <1>1, <1>9
  DEF KickEvent, ResumeEvent, FlowOnEvent, Wakes, Threads, outside
<1>10. CASE FlowOffEvent
  <2>1. CASE highSpeed
    <3>1. /\ thread' = [thread EXCEPT !.stopped = TRUE, !.flowOn = FALSE,
                                     !.pc = "top"]
          /\ UNCHANGED <<closer, overtaken>>
          /\ "cancel" \in ev <=> "cancel" \in ev'
      BY <1>10, <2>1 DEF FlowOffEvent, Wakes, history
    <3>2. /\ thread'.cancelled = thread.cancelled /\ thread'.pc = "top"
          /\ thread'.state = thread.state
      BY <1>1, <3>1 DEF Threads
    <3>3. QED
      BY <3>1, <3>2
  <2>2. CASE ~highSpeed
    BY <1>1, <1>10, <2>2 DEF FlowOffEvent, Wakes, Threads
  <2>3. QED
    BY <2>1, <2>2
<1>11. CASE PeekCompletion
  BY <1>1, <1>11 DEF PeekCompletion, Threads, outside, history
<1>12. CASE FinishCompletion
  <2>1. UNCHANGED <<closer, overtaken>> /\ ("cancel" \in ev <=> "cancel" \in ev')
    BY <1>12, FinishOutcome DEF FinishCompletion, history
  <2>2. /\ thread'.pc # "exited"
        /\ \/ /\ thread'.cancelled = thread.cancelled
              /\ thread'.state = "CANCELLING" <=> thread.state = "CANCELLING"
           \/ /\ thread'.state = "WORKING"
              /\ thread'.cancelled =>
                    thread.cancelled \/ thread.state = "CANCELLING"
              /\ thread.cancelled \/ thread.state = "CANCELLING" =>
                    thread'.cancelled
    BY <1>12, FinishOutcome
  <2>3. QED
    BY <1>1, <2>1, <2>2
<1>13. CASE Close
  BY <1>1, <1>13 DEF Close, Others, history
<1>14. CASE CloseDone
  BY <1>1, <1>14 DEF CloseDone, history
<1>15. CASE \/ StartWrite \/ Enqueue \/ BusComplete \/ Standby \/ StandbyStop
            \/ Wakeup \/ WakeupResume \/ EmptyCompletionQueue \/ FlowOff
            \/ FlowOffTimeout \/ FlowOn \/ CleanupAbort \/ CleanupPurge
            \/ SurpriseRemoval
  <2>1. UNCHANGED <<thread, closer, overtaken>>
    BY <1>15
    DEF StartWrite, Enqueue, BusComplete, Standby, StandbyStop, Wakeup,
        WakeupResume, EmptyCompletionQueue, FlowOff, FlowOffTimeout, FlowOn,
        CleanupAbort, CleanupPurge, SurpriseRemoval, Announces, Others,
        outside, history
  <2>2. "cancel" \in ev <=> "cancel" \in ev'
    BY <1>15
    DEF StartWrite, Enqueue, BusComplete, Standby, StandbyStop, Wakeup,
        WakeupResume, EmptyCompletionQueue, FlowOff, FlowOffTimeout, FlowOn,
        CleanupAbort, CleanupPurge, SurpriseRemoval, Announces, Others,
        SetStopState
  <2>3. QED
    BY <1>2, <2>1, <2>2
<1>16. QED
  BY <1>3, <1>4, <1>5, <1>6, <1>7, <1>8, <1>9, <1>10, <1>11, <1>12, <1>13,
     <1>14, <1>15
  DEF Next, Thread

(* What excuses the thread does not go away without an event that has it    *)
(* look again: power comes back with "resume", the flow with "flowOn", and *)
(* a close and the loss of the device are for good.                        *)
LEMMA ReasonsStay ==
    ASSUME Types, Next
    PROVE  /\ closer # "open" => closer' # "open"
           /\ ~present => ~present'
           /\ power # "on" => \/ power' # "on" \/ "resume" \in ev'
                               \/ At("exited") \/ ~present'
           /\ flow # "on" => flow' # "on" \/ "flowOn" \in ev'
           /\ "resume" \in ev => "resume" \in ev' \/ ResumeEvent
           /\ "flowOn" \in ev => "flowOn" \in ev' \/ FlowOnEvent
           /\ At("exited") => At("exited")'
           /\ stale => stale'
<1>1. closer # "open" => closer' # "open"
  BY DEF Next, Thread, ThreadTop, ThreadSend, ThreadExit, CancelEvent,
         PurgeEvent, StopEvent, KickEvent, ResumeEvent, FlowOnEvent,
         FlowOffEvent, PeekCompletion, FinishCompletion, StartWrite, Enqueue,
         BusComplete, Standby, StandbyStop, Wakeup, WakeupResume,
         EmptyCompletionQueue, FlowOff, FlowOffTimeout, FlowOn, CleanupAbort,
         CleanupPurge, SurpriseRemoval, Close, CloseDone, Announces, Others,
         outside
<1>2. ~present => ~present'
  <2>1. CASE FinishCompletion
    BY <2>1, FinishOutcome
  <2>2. CASE ~FinishCompletion
    BY <2>2
    DEF present, Next, Thread, ThreadTop, ThreadSend, ThreadExit, CancelEvent,
        PurgeEvent, StopEvent, KickEvent, ResumeEvent, FlowOnEvent,
        FlowOffEvent, PeekCompletion, StartWrite, Enqueue, BusComplete,
        Standby, StandbyStop, Wakeup, WakeupResume, EmptyCompletionQueue,
        FlowOff, FlowOffTimeout, FlowOn, CleanupAbort, CleanupPurge,
        SurpriseRemoval, Close, CloseDone, Announces, Others, outside
  <2>3. QED
    BY <2>1, <2>2
<1>3. power # "on" => \/ power' # "on" \/ "resume" \in ev'
                      \/ At("exited") \/ ~present'
  BY DEF present, Next, Thread, ThreadTop, ThreadSend, ThreadExit, CancelEvent,
         PurgeEvent, StopEvent, KickEvent, ResumeEvent, FlowOnEvent,
         FlowOffEvent, PeekCompletion, FinishCompletion, StartWrite, Enqueue,
         BusComplete, Standby, StandbyStop, Wakeup, WakeupResume, SetStopState,
         EmptyCompletionQueue, FlowOff, FlowOffTimeout, FlowOn, CleanupAbort,
         CleanupPurge, SurpriseRemoval, Close, CloseDone, Announces, Others,
         outside
<1>4. flow # "on" => flow' # "on" \/ "flowOn" \in ev'
  <2>1. CASE FinishCompletion
    BY <2>1, FinishOutcome
  <2>2. CASE ~FinishCompletion
    BY <2>2
    DEF Next, Thread, ThreadTop, ThreadSend, ThreadExit, CancelEvent,
        PurgeEvent, StopEvent, KickEvent, ResumeEvent, FlowOnEvent,
        FlowOffEvent, FlowOffAck, PeekCompletion, StartWrite, Enqueue,
        BusComplete, Standby, StandbyStop, Wakeup, WakeupResume,
        EmptyCompletionQueue, FlowOff, FlowOffTimeout, FlowOn, CleanupAbort,
        CleanupPurge, SurpriseRemoval, Close, CloseDone, Announces, Others,
        outside
  <2>3. QED
    BY <2>1, <2>2
<1>5. /\ "resume" \in ev => "resume" \in ev' \/ ResumeEvent
      /\ "flowOn" \in ev => "flowOn" \in ev' \/ FlowOnEvent
  <2>1. CASE FinishCompletion
    BY <2>1, FinishOutcome
  <2>2. CASE ResumeEvent \/ FlowOnEvent
    BY <2>2 DEF ResumeEvent, FlowOnEvent, Wakes
  <2>3. CASE ~FinishCompletion /\ ~ResumeEvent /\ ~FlowOnEvent
    BY <2>3
    DEF Next, Thread, ThreadTop, ThreadSend, ThreadExit, CancelEvent,
        PurgeEvent, StopEvent, KickEvent, FlowOffEvent, PeekCompletion, Wakes,
        StartWrite, Enqueue, BusComplete, Standby, StandbyStop, Wakeup,
        WakeupResume, SetStopState, EmptyCompletionQueue, FlowOff,
        FlowOffTimeout, FlowOn, CleanupAbort, CleanupPurge, SurpriseRemoval,
        Close, CloseDone, Announces, Others, outside
  <2>4. QED
    BY <2>1, <2>2, <2>3
<1>6. At("exited") => At("exited")'
  <2>1. CASE FinishCompletion
    BY <2>1, FinishOutcome DEF At
  <2>2. CASE ~FinishCompletion
    BY <2>2
    DEF At, Next, Thread, ThreadTop, ThreadSend, ThreadExit, CancelEvent,
        PurgeEvent, StopEvent, KickEvent, ResumeEvent, FlowOnEvent,
        FlowOffEvent, PeekCompletion, Wakes, StartWrite, Enqueue, BusComplete,
        Standby, StandbyStop, Wakeup, WakeupResume, EmptyCompletionQueue,
        FlowOff, FlowOffTimeout, FlowOn, CleanupAbort, CleanupPurge,
        SurpriseRemoval, Close, CloseDone, Announces, Others
  <2>3. QED
    BY <2>1, <2>2
<1>7. stale => stale'
  BY DEF Types, Next, Thread, ThreadTop, ThreadSend, ThreadExit, CancelEvent,
         PurgeEvent, StopEvent, KickEvent, ResumeEvent, FlowOnEvent,
         FlowOffEvent, PeekCompletion, FinishCompletion, Quiet, StartWrite,
         Enqueue, BusComplete, Standby, StandbyStop, Wakeup, WakeupResume,
         EmptyCompletionQueue, FlowOff, FlowOffTimeout, FlowOn, CleanupAbort,
         CleanupPurge, SurpriseRemoval, Close, CloseDone, Announces, Others,
         history
<1>8. QED
  BY <1>1, <1>2, <1>3, <1>4, <1>5, <1>6, <1>7

LEMMA ExcuseStays ==
    ASSUME Types, CloseKnown, Excused, Next, ~ResumeEvent, ~FlowOnEvent
    PROVE  Excused'
<1>1. At("exited") => closer # "open"
  BY DEF CloseKnown
<1>2. QED
  BY <1>1, ReasonsStay DEF Excused, LetGo

(* Only the thread changes its state; the others signal events.            *)
LEMMA OthersStay ==
    ASSUME Next, ~Thread
    PROVE  /\ UNCHANGED <<thread, idle, sent, overtaken>>
           /\ \A e : e \in ev => e \in ev'
           /\ "stop" \in ev' => "stop" \in ev \/ StandbyStop
           /\ "flowOff" \in ev' => "flowOff" \in ev \/ FlowOff
           /\ "flowOn" \in ev' => "flowOn" \in ev \/ FlowOn
           /\ flow' = flow \/ FlowOff \/ FlowOffTimeout \/ FlowOn
           /\ UNCHANGED <<pending, done, urbCxl>> \/ BusComplete \/ CleanupAbort
           /\ UNCHANGED queue \/ Enqueue \/ CloseDone
<1>. USE DEF StartWrite, Enqueue, BusComplete, Standby, StandbyStop, Wakeup,
             WakeupResume, SetStopState, EmptyCompletionQueue, FlowOff,
             FlowOffTimeout, FlowOn, CleanupAbort, CleanupPurge,
             SurpriseRemoval, Close, CloseDone, Announces, Others, queues,
             outside, history
<1>1. UNCHANGED <<thread, idle, sent, overtaken>>
  BY DEF Next
<1>2. \A e : e \in ev => e \in ev'
  BY DEF Next
<1>3. /\ "stop" \in ev' => "stop" \in ev \/ StandbyStop
      /\ "flowOff" \in ev' => "flowOff" \in ev \/ FlowOff
      /\ "flowOn" \in ev' => "flowOn" \in ev \/ FlowOn
  BY DEF Next
<1>4. flow' = flow \/ FlowOff \/ FlowOffTimeout \/ FlowOn
  BY DEF Next
<1>5. UNCHANGED <<pending, done, urbCxl>> \/ BusComplete \/ CleanupAbort
  BY DEF Next
<1>6. UNCHANGED queue \/ Enqueue \/ CloseDone
  BY DEF Next
<1>7. QED
  BY <1>1, <1>2, <1>3, <1>4, <1>5, <1>6

(* Cancel, stop and purge leave the transfers alone, and either start a    *)
(* drain or, with nothing in flight, have the thread look at its state.    *)
DrainOutcome(state) ==
    /\ thread'.flowOn = thread.flowOn /\ thread'.zlp = thread.zlp
    /\ IF pending = << >>
       THEN /\ thread'.pc = "top" /\ thread'.state = thread.state
            /\ UNCHANGED urbCxl
       ELSE /\ thread'.pc = "wait" /\ thread'.state = state
            /\ thread'.purged = thread.purged
            /\ Head(pending) \in urbCxl'

LEMMA EventOutcome ==
    ASSUME Types
    PROVE  /\ CancelEvent => /\ DrainOutcome("CANCELLING")
                             /\ thread'.purged = thread.purged
           /\ StopEvent => /\ DrainOutcome("STOPPING")
                           /\ thread'.purged = thread.purged
           /\ PurgeEvent => /\ DrainOutcome("PURGING")
                            /\ thread'.stopped = thread.stopped
           /\ CancelEvent \/ StopEvent \/ PurgeEvent =>
                 /\ At("wait")
                 /\ UNCHANGED <<idle, pending, done, queue, flow, power, closer,
                                device, stale>>
<1>1. thread \in Threads
  BY DEF Types
<1>. DEFINE t == [thread EXCEPT !.stopped = TRUE]
<1>2. /\ t \in Threads /\ t.pc = thread.pc /\ t.flowOn = thread.flowOn
      /\ t.zlp = thread.zlp /\ t.purged = thread.purged /\ t.state = thread.state
  BY <1>1 DEF Threads
<1>3. ASSUME NEW r \in Threads, NEW state, StartDrain(state, r)
      PROVE  /\ thread'.flowOn = r.flowOn /\ thread'.zlp = r.zlp
             /\ thread'.stopped = r.stopped /\ thread'.purged = r.purged
             /\ thread'.pc = r.pc /\ thread'.state = state
             /\ Head(pending) \in urbCxl'
  BY <1>3 DEF StartDrain, Threads
<1>4. CancelEvent \/ StopEvent \/ PurgeEvent =>
          /\ thread.pc = "wait"
          /\ UNCHANGED <<idle, pending, done, queue, flow, power, closer,
                         device, stale>>
  BY DEF CancelEvent, StopEvent, PurgeEvent, Quiet, outside, Wakes, At
<1>5. ASSUME CancelEvent
      PROVE  DrainOutcome("CANCELLING") /\ thread'.purged = thread.purged
  <2>1. CASE pending = << >>
    <3>1. thread' = [t EXCEPT !.cancelled = TRUE, !.pc = "top"] /\ UNCHANGED urbCxl
      BY <1>5, <2>1 DEF CancelEvent
    <3>. HIDE DEF t
    <3>2. /\ thread'.flowOn = t.flowOn /\ thread'.zlp = t.zlp
          /\ thread'.purged = t.purged /\ thread'.pc = "top"
          /\ thread'.state = t.state
      BY <1>2, <3>1 DEF Threads
    <3>3. QED
      BY <1>2, <2>1, <3>1, <3>2 DEF DrainOutcome
  <2>2. CASE pending # << >>
    <3>1. StartDrain("CANCELLING", t)
      BY <1>5, <2>2 DEF CancelEvent
    <3>. HIDE DEF t
    <3>2. QED
      BY <1>2, <1>3, <1>4, <1>5, <2>2, <3>1 DEF DrainOutcome
  <2>3. QED
    BY <2>1, <2>2
<1>6. ASSUME StopEvent
      PROVE  DrainOutcome("STOPPING") /\ thread'.purged = thread.purged
  <2>1. CASE pending = << >>
    <3>1. thread' = [t EXCEPT !.pc = "top"] /\ UNCHANGED urbCxl
      BY <1>6, <2>1 DEF StopEvent
    <3>. HIDE DEF t
    <3>2. /\ thread'.flowOn = t.flowOn /\ thread'.zlp = t.zlp
          /\ thread'.purged = t.purged /\ thread'.pc = "top"
          /\ thread'.state = t.state
      BY <1>2, <3>1 DEF Threads
    <3>3. QED
      BY <1>2, <2>1, <3>1, <3>2 DEF DrainOutcome
  <2>2. CASE pending # << >>
    <3>1. StartDrain("STOPPING", t)
      BY <1>6, <2>2 DEF StopEvent
    <3>. HIDE DEF t
    <3>2. QED
      BY <1>2, <1>3, <1>4, <1>6, <2>2, <3>1 DEF DrainOutcome
  <2>3. QED
    BY <2>1, <2>2
<1>7. ASSUME PurgeEvent
      PROVE  DrainOutcome("PURGING") /\ thread'.stopped = thread.stopped
  <2>1. CASE pending = << >>
    <3>1. /\ thread' = [thread EXCEPT !.purged = TRUE, !.pc = "top"]
          /\ UNCHANGED urbCxl
      BY <1>7, <2>1 DEF PurgeEvent
    <3>2. QED
      BY <1>1, <2>1, <3>1 DEF Threads, DrainOutcome
  <2>2. CASE pending # << >>
    <3>1. StartDrain("PURGING", thread)
      BY <1>7, <2>2 DEF PurgeEvent
    <3>2. QED
      BY <1>1, <1>3, <1>4, <1>7, <2>2, <3>1 DEF DrainOutcome
  <2>3. QED
    BY <2>1, <2>2
<1>8. QED
  BY <1>4, <1>5, <1>6, <1>7 DEF At

LEMMA StopsKept ==
    ASSUME Types, CloseKnown, StopsKnown, FlowKnown, Next
    PROVE  StopsKnown'
<1>. DEFINE Known == \/ power # "on" \/ "resume" \in ev \/ ~present
                     \/ At("exited")
<1>1. thread \in Threads /\ stale \in BOOLEAN
  BY DEF Types
<1>2. "stop" \in ev' => Known'
  <2>1. CASE "stop" \in ev /\ "stop" \in ev'
    <3>1. ~ResumeEvent
      BY <2>1, WakesInOrder DEF ResumeEvent
    <3>2. Known
      BY <2>1 DEF StopsKnown
    <3>3. QED
      BY <3>1, <3>2, ReasonsStay
  <2>2. CASE StandbyStop
    BY <2>2 DEF StandbyStop
  <2>3. CASE FinishCompletion
    BY <2>1, <2>3, FinishOutcome
  <2>4. CASE Thread /\ ~FinishCompletion
    <3>1. "stop" \in ev' => "stop" \in ev
      BY <2>4 DEF Thread, ThreadTop, ThreadSend, ThreadExit, CancelEvent,
                  PurgeEvent, StopEvent, KickEvent, ResumeEvent, FlowOnEvent,
                  FlowOffEvent, PeekCompletion, Wakes
    <3>2. QED
      BY <2>1, <3>1
  <2>5. CASE ~Thread /\ ~StandbyStop
    BY <2>1, <2>5, OthersStay
  <2>6. QED
    BY <2>2, <2>3, <2>4, <2>5
<1>3. ~stale' /\ thread'.stopped => Excused'
  <2>1. SUFFICES ASSUME ~stale', thread'.stopped
                 PROVE  Excused'
    OBVIOUS
  <2>2. ~stale
    BY <2>1, ReasonsStay
  <2>3. CASE thread.stopped /\ ~ResumeEvent /\ ~FlowOnEvent
    BY <2>2, <2>3, ExcuseStays DEF StopsKnown
  <2>4. CASE ResumeEvent
    <3>1. thread'.stopped = suspended /\ power' = power
      BY <1>1, <2>4 DEF ResumeEvent, Threads, outside
    <3>2. QED
      BY <2>1, <3>1 DEF suspended, Excused, LetGo
  <2>5. CASE FlowOnEvent
    <3>1. thread'.stopped = suspended /\ power' = power
      BY <1>1, <2>5 DEF FlowOnEvent, Threads, outside
    <3>2. QED
      BY <2>1, <3>1 DEF suspended, Excused, LetGo
  <2>6. CASE CancelEvent
    <3>1. closer # "open"
      BY <2>6 DEF CancelEvent, Wakes, CloseKnown
    <3>2. QED
      BY <3>1, ReasonsStay DEF Excused, LetGo
  <2>7. CASE StopEvent
    <3>1. Known /\ ~At("exited")
      BY <2>7 DEF StopEvent, Wakes, StopsKnown, At
    <3>2. Excused
      BY <3>1 DEF Excused, LetGo
    <3>3. QED
      BY <2>4, <2>5, <3>2, ExcuseStays
  <2>8. CASE FlowOffEvent
    <3>1. flow = "asked"
      BY <2>2, <2>8 DEF FlowOffEvent, Wakes, FlowKnown, At
    <3>2. flow' # "on"
      BY <2>8, <3>1 DEF FlowOffEvent, FlowOffAck
    <3>3. QED
      BY <3>2 DEF Excused, LetGo
  <2>9. CASE FinishCompletion
    <3>1. thread.stopped \/ ~present'
      BY <2>1, <2>9, FinishOutcome
    <3>2. ~present' => Excused'
      BY DEF Excused, LetGo
    <3>3. QED
      BY <2>3, <2>4, <2>5, <3>1, <3>2
  <2>10. CASE PurgeEvent
    <3>1. thread.stopped
      BY <2>1, <2>10, EventOutcome
    <3>2. QED
      BY <2>3, <2>4, <2>5, <3>1
  <2>11. CASE \/ ThreadTop \/ ThreadSend \/ ThreadExit \/ KickEvent
               \/ PeekCompletion
    <3>1. thread.stopped
      BY <1>1, <2>1, <2>11
      DEF ThreadTop, ThreadSend, Submit, ThreadExit, KickEvent, PeekCompletion,
          Threads
    <3>2. QED
      BY <2>3, <2>4, <2>5, <3>1
  <2>12. CASE ~Thread
    <3>1. thread.stopped
      BY <2>1, <2>12, OthersStay
    <3>2. QED
      BY <2>3, <2>4, <2>5, <3>1
  <2>13. QED
    BY <2>4, <2>5, <2>6, <2>7, <2>8, <2>9, <2>10, <2>11, <2>12 DEF Thread
<1>4. QED
  BY <1>2, <1>3 DEF StopsKnown

LEMMA FlowKept ==
    ASSUME Types, CloseKnown, FlowKnown, Next
    PROVE  FlowKnown'
<1>1. thread \in Threads /\ stale \in BOOLEAN
  BY DEF Types
<1>2. SUFFICES ASSUME ~stale'
               PROVE  /\ "flowOff" \in ev' => /\ flow' = "asked" \/ At("exited")'
                                              /\ thread'.state # "FLOW_OFF"
                      /\ ~thread'.flowOn =>
                            \/ flow' # "on" \/ "flowOn" \in ev'
                            \/ closer' # "open"
  BY DEF FlowKnown
<1>3. ~stale
  BY <1>2, ReasonsStay
<1>4. /\ "flowOff" \in ev => /\ flow = "asked" \/ At("exited")
                             /\ thread.state # "FLOW_OFF"
      /\ ~thread.flowOn =>
            flow # "on" \/ "flowOn" \in ev \/ closer # "open"
  BY <1>3 DEF FlowKnown
<1>5. CASE /\ thread'.flowOn = thread.flowOn /\ ~FlowOnEvent
           /\ thread'.state = thread.state \/ thread'.state # "FLOW_OFF"
           /\ "flowOff" \in ev' => "flowOff" \in ev /\ flow' = flow
  BY <1>4, <1>5, ReasonsStay
<1>6. CASE ThreadTop \/ ThreadSend \/ ThreadExit \/ KickEvent \/ PeekCompletion
  <2>1. thread'.flowOn = thread.flowOn /\ thread'.state = thread.state
    BY <1>1, <1>6
    DEF ThreadTop, ThreadSend, Submit, ThreadExit, KickEvent, PeekCompletion,
        Threads
  <2>2. ("flowOff" \in ev' => "flowOff" \in ev) /\ flow' = flow
    BY <1>6
    DEF ThreadTop, ThreadSend, ThreadExit, KickEvent, PeekCompletion, Wakes,
        outside
  <2>3. ~FlowOnEvent \/ thread'.flowOn
    BY <1>1 DEF FlowOnEvent, Threads
  <2>4. QED
    BY <1>4, <2>1, <2>2, <2>3, ReasonsStay
<1>7. CASE CancelEvent \/ StopEvent \/ PurgeEvent
  <2>1. /\ thread'.flowOn = thread.flowOn /\ flow' = flow
        /\ thread'.state = thread.state \/ thread'.state # "FLOW_OFF"
    BY <1>7, EventOutcome DEF DrainOutcome
  <2>2. "flowOff" \in ev' => "flowOff" \in ev
    BY <1>7 DEF CancelEvent, StopEvent, PurgeEvent, Wakes
  <2>3. ~FlowOnEvent \/ thread'.flowOn
    BY <1>1 DEF FlowOnEvent, Threads
  <2>4. QED
    BY <1>4, <2>1, <2>2, <2>3, ReasonsStay
<1>8. CASE ResumeEvent
  <2>1. /\ thread'.flowOn = thread.flowOn /\ thread'.state = thread.state
        /\ flow' = flow
    BY <1>1, <1>8 DEF ResumeEvent, Threads, outside
  <2>2. ("flowOff" \in ev' => "flowOff" \in ev)
    BY <1>8 DEF ResumeEvent, Wakes
  <2>3. ~FlowOnEvent \/ thread'.flowOn
    BY <1>1 DEF FlowOnEvent, Threads
  <2>4. QED
    BY <1>4, <2>1, <2>2, <2>3, ReasonsStay
<1>9. CASE FlowOnEvent
  <2>1. /\ thread'.flowOn /\ thread'.state = thread.state /\ flow' = flow
        /\ "flowOff" \in ev' => "flowOff" \in ev
    BY <1>1, <1>9 DEF FlowOnEvent, Threads, Wakes, outside
  <2>2. QED
    BY <1>4, <2>1, ReasonsStay
<1>10. CASE FlowOffEvent
  <2>1. flow = "asked" /\ "flowOff" \notin ev'
    BY <1>4, <1>10 DEF FlowOffEvent, Wakes, At
  <2>2. flow' # "on"
    BY <1>10, <2>1 DEF FlowOffEvent, FlowOffAck
  <2>3. QED
    BY <2>1, <2>2
<1>11. CASE FinishCompletion
  <2>1. /\ thread'.flowOn = thread.flowOn
        /\ "flowOff" \in ev' => "flowOff" \in ev
        /\ thread.state # "FLOW_OFF" =>
              flow' = flow /\ thread'.state # "FLOW_OFF"
    BY <1>11, FinishOutcome DEF Drains
  <2>2. ~FlowOnEvent \/ thread'.flowOn
    BY <1>1 DEF FlowOnEvent, Threads
  <2>3. QED
    BY <1>4, <2>1, <2>2, ReasonsStay
<1>12. CASE ~Thread
  <2>1. thread' = thread
    BY <1>12, OthersStay
  <2>2. ~FlowOnEvent
    BY <1>12 DEF Thread
  <2>3. CASE FlowOff
    <3>1. thread.state # "FLOW_OFF" /\ flow' = "asked"
      BY <1>2, <2>3 DEF FlowOff, Announces
    <3>2. QED
      BY <2>1, <3>1
  <2>4. CASE FlowOn
    <3>1. flow = "off" /\ flow' = "on" /\ "flowOn" \in ev'
          /\ ("flowOff" \in ev' => "flowOff" \in ev)
      BY <2>4 DEF FlowOn, Announces
    <3>2. QED
      BY <1>4, <2>1, <3>1, ReasonsStay
  <2>5. CASE FlowOffTimeout
    <3>1. At("exited") /\ flow' = "off" /\ ev' = ev
      BY <2>5 DEF FlowOffTimeout, Others
    <3>2. QED
      BY <1>4, <2>1, <3>1, ReasonsStay
  <2>6. CASE ~FlowOff /\ ~FlowOn /\ ~FlowOffTimeout
    BY <1>5, <1>12, <2>1, <2>2, <2>6, OthersStay
  <2>7. QED
    BY <2>3, <2>4, <2>5, <2>6
<1>13. QED
  BY <1>6, <1>7, <1>8, <1>9, <1>10, <1>11, <1>12 DEF Thread

(* The interrupt thread waits for the answer to a flow-off that the thread  *)
(* has taken: no transfer is with the bus or will be, and the last one to  *)
(* be handled sends the answer.                                            *)
LEMMA AckKept ==
    ASSUME Types, BufferInOnePlace, TransfersRecorded, AckOwed, Next
    PROVE  AckOwed'
<1>1. /\ thread \in Threads /\ flow \in {"on", "asked", "off"}
      /\ pending \in Seq(Bufs) /\ done \in Seq(Bufs)
  BY DEF Types
<1>2. SUFFICES ASSUME flow' = "asked", "flowOff" \notin ev', ~At("exited")'
               PROVE  /\ thread'.state = "FLOW_OFF" /\ ~thread'.flowOn
                      /\ "flowOn" \notin ev' /\ thread'.pc # "send"
                      /\ done' # << >> /\ pending' = << >>
  BY DEF AckOwed, At
<1>3. ~At("exited")
  BY <1>2, ReasonsStay
<1>4. CASE FlowOffEvent
  <2>1. ~highSpeed /\ AbortOutput /\ pending # << >> /\ UNCHANGED <<idle, sent>>
    BY <1>1, <1>2, <1>4 DEF FlowOffEvent, FlowOffAck
  <2>2. thread' = [[thread EXCEPT !.stopped = TRUE, !.flowOn = FALSE, !.pc = "top"]
                      EXCEPT !.state = "FLOW_OFF"]
    BY <1>4, <2>1 DEF FlowOffEvent
  <2>3. /\ thread'.state = "FLOW_OFF" /\ ~thread'.flowOn /\ thread'.pc = "top"
    BY <1>1, <2>2 DEF Threads
  <2>4. "flowOn" \notin ev'
    BY <1>4, WakesInOrder DEF FlowOffEvent, Wakes
  <2>5. At("finish")' => At("finish")
    BY <2>3 DEF At
  <2>6. done' # << >> /\ pending' = << >>
    BY <2>1, <2>5, AbortReturns
  <2>7. QED
    BY <2>3, <2>4, <2>6
<1>5. CASE FlowOff
  BY <1>2, <1>5 DEF FlowOff, Announces
<1>6. CASE FinishCompletion
  <2>1. flow = "asked" /\ "flowOff" \notin ev
    BY <1>1, <1>2, <1>6, FinishOutcome
  <2>2. /\ thread.state = "FLOW_OFF" /\ ~thread.flowOn /\ "flowOn" \notin ev
        /\ pending = << >>
    BY <1>3, <2>1 DEF AckOwed
  <2>3. /\ thread'.state = "FLOW_OFF" /\ ~thread'.flowOn /\ "flowOn" \notin ev'
        /\ thread'.pc = "top" /\ ~AllReturned(Head(done))
    BY <1>2, <1>6, <2>2, FinishOutcome DEF Drains
  <2>4. PICK b : b = Head(done)
    OBVIOUS
  <2>5. /\ done # << >> /\ done' = Tail(done) /\ idle' = Append(idle, b)
        /\ UNCHANGED pending
        /\ \/ sent' = RemoveAt(Marked(b), LastOf(b))
           \/ sent' = Marked(b)
           \/ sent' = << >> /\ AllReturned(b)
    BY <1>6, <2>4, FinishWhere DEF FinishCompletion, BufferInOnePlace
  <2>6. ~At("finish")'
    BY <2>3 DEF At
  <2>7. done' # << >>
    BY <2>2, <2>3, <2>4, <2>5, <2>6, TransferFinished
  <2>8. QED
    BY <2>2, <2>3, <2>5, <2>7
<1>7. CASE Thread /\ ~FlowOffEvent /\ ~FinishCompletion
  <2>1. flow = "asked"
    BY <1>2, <1>7
    DEF Thread, ThreadTop, ThreadSend, ThreadExit, CancelEvent, PurgeEvent,
        StopEvent, KickEvent, ResumeEvent, FlowOnEvent, PeekCompletion, outside
  <2>2. "flowOff" \notin ev
    BY <1>2, <1>7
    DEF Thread, ThreadTop, ThreadSend, ThreadExit, CancelEvent, PurgeEvent,
        StopEvent, KickEvent, ResumeEvent, FlowOnEvent, PeekCompletion, Wakes
  <2>3. /\ thread.state = "FLOW_OFF" /\ ~thread.flowOn /\ "flowOn" \notin ev
        /\ ~At("send") /\ done # << >> /\ pending = << >>
    BY <1>3, <2>1, <2>2 DEF AckOwed
  <2>4. "flowOn" \notin ev'
    BY <1>7, <2>3
    DEF Thread, ThreadTop, ThreadSend, ThreadExit, CancelEvent, PurgeEvent,
        StopEvent, KickEvent, ResumeEvent, FlowOnEvent, PeekCompletion, Wakes
  <2>5. UNCHANGED <<pending, done>>
    BY <1>7, <2>3
    DEF Thread, ThreadTop, ThreadSend, ThreadExit, CancelEvent, PurgeEvent,
        StopEvent, KickEvent, ResumeEvent, FlowOnEvent, PeekCompletion, Quiet,
        queues
  <2>6. /\ thread'.state = "FLOW_OFF" /\ ~thread'.flowOn /\ thread'.pc # "send"
    <3>1. CASE ThreadTop
      BY <1>1, <2>3, <3>1 DEF ThreadTop, Threads
    <3>2. CASE ThreadExit \/ PeekCompletion
      BY <1>1, <2>3, <3>2 DEF ThreadExit, PeekCompletion, Threads
    <3>3. CASE CancelEvent \/ StopEvent \/ PurgeEvent
      BY <2>3, <3>3, EventOutcome DEF DrainOutcome
    <3>4. CASE KickEvent \/ ResumeEvent
      BY <1>1, <2>3, <3>4 DEF KickEvent, ResumeEvent, Threads
    <3>5. ~FlowOnEvent /\ ~ThreadSend
      BY <2>3 DEF FlowOnEvent, Wakes, ThreadSend
    <3>6. QED
      BY <1>7, <3>1, <3>2, <3>3, <3>4, <3>5 DEF Thread
  <2>7. QED
    BY <2>3, <2>4, <2>5, <2>6
<1>8. CASE ~Thread /\ ~FlowOff
  <2>1. /\ thread' = thread /\ UNCHANGED <<idle, sent>> /\ "flowOff" \notin ev
    BY <1>2, <1>8, OthersStay
  <2>2. ~FlowOn /\ flow = "asked"
    <3>1. ~FlowOn /\ ~FlowOffTimeout
      BY <1>2 DEF FlowOn, FlowOffTimeout
    <3>2. QED
      BY <1>2, <1>8, <3>1, OthersStay
  <2>3. /\ thread.state = "FLOW_OFF" /\ ~thread.flowOn /\ "flowOn" \notin ev
        /\ ~At("send") /\ done # << >> /\ pending = << >>
    BY <1>3, <2>1, <2>2 DEF AckOwed
  <2>4. "flowOn" \notin ev'
    BY <1>8, <2>2, <2>3, OthersStay
  <2>5. done' # << >> /\ pending' = << >>
    <3>1. CASE CleanupAbort
      <4>1. AbortOutput /\ (At("finish")' => At("finish"))
        BY <2>1, <3>1 DEF CleanupAbort, At
      <4>2. QED
        BY <2>1, <2>3, <4>1, AbortReturns
    <3>2. ~BusComplete
      BY <2>3 DEF BusComplete
    <3>3. CASE ~CleanupAbort
      BY <1>8, <2>3, <3>2, <3>3, OthersStay
    <3>4. QED
      BY <3>1, <3>3
  <2>6. QED
    BY <2>1, <2>3, <2>4, <2>5 DEF At
<1>9. QED
  BY <1>4, <1>5, <1>6, <1>7, <1>8 DEF Thread

(* With every buffer idle, a thread that goes to its wait has found nothing *)
(* to send, or is kept from sending; a write that comes later kicks it.    *)
LEMMA LooksKept ==
    ASSUME Types, BufferInOnePlace, TransfersRecorded, CloseKnown, StopsKnown,
           FlowKnown, LooksAgain, Next
    PROVE  LooksAgain'
<1>1. thread \in Threads /\ stale \in BOOLEAN
  BY DEF Types
<1>. DEFINE AtRest == pending = << >> /\ done = << >>
            Look == /\ (At("wait") \/ thread.purged) /\ thread.zlp => Excused
                    /\ At("wait") /\ queue # << >> => Excused \/ "kick" \in ev
<1>2. /\ ~stale' => ~stale
      /\ ~stale /\ AtRest => Look
      /\ thread.purged => At("top")
  BY ReasonsStay DEF LooksAgain
<1>3. SUFFICES /\ thread'.purged => thread'.pc = "top"
               /\ ~stale' /\ AtRest' => Look'
  BY DEF LooksAgain, At
<1>4. ASSUME thread'.pc # "wait", ~thread'.purged
      PROVE  /\ thread'.purged => thread'.pc = "top"
             /\ ~stale' /\ AtRest' => Look'
  BY <1>4 DEF At
<1>5. CASE ThreadTop
  <2>1. /\ thread'.pc = "wait" \/ thread'.pc = "send"
        /\ ~thread'.purged /\ thread'.zlp = thread.zlp
        /\ UNCHANGED <<pending, done, ev, stale>>
        /\ \/ thread'.pc = "send"
           \/ ~present /\ queue' = << >>
           \/ thread.purged /\ queue' = << >>
           \/ thread.stopped \/ ~thread.flowOn
    <3>1. UNCHANGED <<pending, done, ev, stale>>
      BY <1>5 DEF ThreadTop, history
    <3>2. CASE ~present \/ thread.purged
      <4>1. thread' = [thread EXCEPT !.purged = FALSE, !.pc = "wait"] /\ queue' = << >>
        BY <1>5, <3>2 DEF ThreadTop, PurgeQueue
      <4>2. thread'.pc = "wait" /\ ~thread'.purged /\ thread'.zlp = thread.zlp
        BY <1>1, <4>1 DEF Threads
      <4>3. QED
        BY <3>1, <3>2, <4>1, <4>2
    <3>3. CASE present /\ ~thread.purged
      <4>. DEFINE c == IF thread.stopped \/ ~thread.flowOn THEN "wait" ELSE "send"
      <4>1. thread' = [thread EXCEPT !.pc = c]
        BY <1>5, <3>3 DEF ThreadTop
      <4>2. c = "send" \/ (c = "wait" /\ (thread.stopped \/ ~thread.flowOn))
        OBVIOUS
      <4>. HIDE DEF c
      <4>3. thread'.pc = c /\ ~thread'.purged /\ thread'.zlp = thread.zlp
        BY <1>1, <3>3, <4>1 DEF Threads
      <4>4. QED
        BY <3>1, <4>2, <4>3
    <3>4. QED
      BY <3>2, <3>3
  <2>2. SUFFICES ASSUME ~stale', AtRest', thread'.pc = "wait"
                 PROVE  Look'
    BY <1>4, <2>1 DEF At
  <2>3. ~stale /\ Look
    BY <1>2, <2>1, <2>2
  <2>4. CASE thread.stopped \/ ~thread.flowOn
    <3>1. Excused
      BY <2>3, <2>4 DEF StopsKnown, FlowKnown, Excused, LetGo
    <3>2. Excused'
      BY <1>5, <3>1, ExcuseStays DEF ThreadTop, ResumeEvent, FlowOnEvent, Wakes, At
    <3>3. QED
      BY <3>2
  <2>5. CASE ~present /\ queue' = << >>
    BY <2>5, ReasonsStay DEF Excused, LetGo
  <2>6. CASE thread.purged /\ queue' = << >>
    <3>1. thread'.zlp => Excused
      BY <2>1, <2>3, <2>6
    <3>2. Excused => Excused'
      BY <1>5, ExcuseStays DEF ThreadTop, ResumeEvent, FlowOnEvent, Wakes, At
    <3>3. QED
      BY <2>6, <3>1, <3>2
  <2>7. QED
    BY <2>1, <2>2, <2>4, <2>5, <2>6
<1>6. CASE ThreadSend
  <2>1. At("send") /\ ~thread.purged
    BY <1>2, <1>6 DEF ThreadSend, At
  <2>2. CASE Submit /\ idle # << >>
    <3>1. thread'.pc = "send" /\ ~thread'.purged
      BY <1>1, <2>1, <2>2 DEF Submit, Threads, At
    <3>2. QED
      BY <1>4, <3>1
  <2>3. CASE ~(Submit /\ idle # << >>)
    <3>1. thread' = [thread EXCEPT !.pc = "wait"] /\ UNCHANGED <<pending, done>>
      BY <1>6, <2>3 DEF ThreadSend, HasWork
    <3>2. /\ thread'.pc = "wait" /\ ~thread'.purged
          /\ thread'.zlp = thread.zlp
      BY <1>1, <2>1, <3>1 DEF Threads
    <3>3. SUFFICES ASSUME AtRest'
                   PROVE  Look'
      BY <3>2
    <3>4. idle # << >>
      BY <3>1, <3>3 DEF BufferInOnePlace
    <3>5. CASE HasWork /\ thread.cancelled
      <4>1. closer # "open"
        BY <3>5 DEF CloseKnown
      <4>2. QED
        BY <4>1, ReasonsStay DEF Excused, LetGo
    <3>6. CASE suspended
      <4>1. power' # "on"
        BY <1>6, <3>6 DEF suspended, ThreadSend, outside
      <4>2. QED
        BY <4>1 DEF Excused, LetGo
    <3>7. CASE ~present
      BY <3>7, ReasonsStay DEF Excused, LetGo
    <3>8. CASE ~HasWork /\ present
      <4>1. queue = << >> /\ ~thread.zlp
        BY <3>4, <3>8 DEF HasWork
      <4>2. queue' = queue
        BY <1>6, <3>8 DEF ThreadSend
      <4>3. QED
        BY <3>2, <4>1, <4>2
    <3>9. QED
      BY <1>6, <2>3, <3>5, <3>6, <3>7, <3>8 DEF ThreadSend, HasWork
  <2>4. QED
    BY <2>2, <2>3
<1>7. CASE ThreadExit \/ PeekCompletion
  <2>1. thread'.pc # "wait" /\ thread'.purged = thread.purged /\ At("wait")
    BY <1>1, <1>7 DEF ThreadExit, PeekCompletion, Threads
  <2>2. QED
    BY <1>2, <1>4, <2>1 DEF At
<1>8. CASE CancelEvent \/ StopEvent
  <2>1. /\ At("wait") /\ UNCHANGED <<pending, done>>
        /\ thread'.purged = thread.purged
        /\ pending = << >> => thread'.pc = "top"
    BY <1>8, EventOutcome DEF DrainOutcome
  <2>2. ~thread'.purged
    BY <1>2, <2>1 DEF At
  <2>3. CASE pending = << >>
    BY <1>4, <2>1, <2>2, <2>3
  <2>4. CASE pending # << >>
    BY <2>1, <2>2, <2>4
  <2>5. QED
    BY <2>3, <2>4
<1>9. CASE PurgeEvent
  <2>1. /\ At("wait") /\ UNCHANGED <<pending, done>>
        /\ thread'.zlp = thread.zlp
        /\ pending = << >> => thread'.pc = "top"
        /\ pending # << >> => thread'.purged = thread.purged
    BY <1>9, EventOutcome DEF DrainOutcome
  <2>2. CASE pending = << >>
    <3>1. SUFFICES ASSUME ~stale', AtRest'
                   PROVE  thread'.zlp => Excused'
      BY <2>1, <2>2 DEF At
    <3>2. thread'.zlp => Excused
      BY <1>2, <2>1, <3>1
    <3>3. Excused => Excused'
      <4>1. "resume" \in ev => "resume" \in ev'
        BY <1>9 DEF PurgeEvent, Wakes
      <4>2. "flowOn" \in ev => "flowOn" \in ev'
        BY <1>9 DEF PurgeEvent, Wakes
      <4>3. UNCHANGED <<power, flow, closer, device>>
        BY <1>9, EventOutcome
      <4>4. QED
        BY <4>1, <4>2, <4>3 DEF Excused, LetGo, present
    <3>4. QED
      BY <3>2, <3>3
  <2>3. CASE pending # << >>
    <3>1. ~thread'.purged
      BY <1>2, <2>1, <2>3 DEF At
    <3>2. QED
      BY <2>1, <2>3, <3>1
  <2>4. QED
    BY <2>2, <2>3
<1>10. CASE KickEvent \/ ResumeEvent \/ FlowOnEvent
  <2>1. thread'.pc = "top" /\ thread'.purged = thread.purged /\ At("wait")
    BY <1>1, <1>10 DEF KickEvent, ResumeEvent, FlowOnEvent, Wakes, Threads
  <2>2. QED
    BY <1>2, <1>4, <2>1 DEF At
<1>11. CASE FlowOffEvent
  <2>1. thread'.pc = "top" /\ thread'.purged = thread.purged /\ At("wait")
    BY <1>1, <1>11 DEF FlowOffEvent, Wakes, Threads
  <2>2. QED
    BY <1>2, <1>4, <2>1 DEF At
<1>12. CASE FinishCompletion
  <2>1. ~thread'.purged
    BY <1>2, <1>12, FinishOutcome DEF At
  <2>2. pending' = pending
    BY <1>12 DEF FinishCompletion
  <2>3. CASE thread'.pc = "wait"
    <3>1. pending # << >>
      BY <1>12, <2>3, FinishOutcome
    <3>2. QED
      BY <2>1, <2>2, <3>1
  <2>4. CASE thread'.pc # "wait"
    BY <1>4, <2>1, <2>4
  <2>5. QED
    BY <2>3, <2>4
<1>13. CASE ~Thread
  <2>1. thread' = thread
    BY <1>13, OthersStay
  <2>2. Excused => Excused'
    BY <1>13, ExcuseStays DEF Thread
  <2>3. AtRest' => AtRest
    <3>1. CASE BusComplete
      <4>1. PICK s : Returned(1, s)
        BY <3>1 DEF BusComplete
      <4>2. 1 \in 0..Len(pending)
        BY <3>1, EmptySeq, LenProperties DEF BusComplete, Types
      <4>3. At("finish")' => At("finish")
        BY <2>1 DEF At
      <4>4. UNCHANGED <<idle, sent>>
        BY <1>13, OthersStay
      <4>5. QED
        BY <4>1, <4>2, <4>3, <4>4, TransfersReturn
    <3>2. CASE CleanupAbort
      <4>1. AbortOutput
        BY <3>2 DEF CleanupAbort
      <4>2. At("finish")' => At("finish")
        BY <2>1 DEF At
      <4>3. UNCHANGED <<idle, sent>>
        BY <1>13, OthersStay
      <4>4. QED
        BY <4>1, <4>2, <4>3, AbortReturns
    <3>3. QED
      BY <1>13, <3>1, <3>2, OthersStay
  <2>4. "kick" \in ev => "kick" \in ev'
    BY <1>13, OthersStay
  <2>5. queue' # << >> => queue # << >> \/ "kick" \in ev'
    <3>1. CASE Enqueue
      BY <3>1 DEF Enqueue
    <3>2. CASE CloseDone
      BY <3>2 DEF CloseDone, PurgeQueue
    <3>3. QED
      BY <1>13, <3>1, <3>2, OthersStay
  <2>6. QED
    BY <1>2, <2>1, <2>2, <2>3, <2>4, <2>5 DEF At
<1>14. QED
  BY <1>5, <1>6, <1>7, <1>8, <1>9, <1>10, <1>11, <1>12, <1>13 DEF Thread

LEMMA DrainKept ==
    ASSUME Types, BufferInOnePlace, TransfersRecorded, DrainGoesOn, Next
    PROVE  DrainGoesOn'
<1>1. /\ thread \in Threads /\ pending \in Seq(Bufs) /\ done \in Seq(Bufs)
  BY DEF Types
<1>. DEFINE Goes(p, d, u) == d # << >> \/ (p # << >> /\ Head(p) \in u)
<1>2. SUFFICES ASSUME thread'.state \in Drains
               PROVE  Goes(pending', done', urbCxl')
  BY DEF DrainGoesOn, Drains
<1>3. thread.state \in Drains => Goes(pending, done, urbCxl)
  BY DEF DrainGoesOn, Drains
<1>4. CASE /\ thread'.state = thread.state
           /\ UNCHANGED <<pending, done, urbCxl>>
  BY <1>2, <1>3, <1>4
<1>5. CASE ThreadTop \/ ThreadExit \/ PeekCompletion
  <2>1. thread'.state = thread.state /\ UNCHANGED <<pending, done, urbCxl>>
    BY <1>1, <1>5 DEF ThreadTop, ThreadExit, PeekCompletion, Threads, queues
  <2>2. QED
    BY <1>4, <2>1
<1>6. CASE KickEvent \/ ResumeEvent \/ FlowOnEvent
  <2>1. thread'.state = thread.state /\ UNCHANGED <<pending, done, urbCxl>>
    BY <1>1, <1>6 DEF KickEvent, ResumeEvent, FlowOnEvent, Quiet, Threads
  <2>2. QED
    BY <1>4, <2>1
<1>7. CASE ThreadSend
  <2>1. UNCHANGED <<done, urbCxl>>
    BY <1>7 DEF ThreadSend
  <2>2. thread'.state = thread.state
    BY <1>1, <1>7 DEF ThreadSend, Submit, Threads
  <2>3. CASE Submit /\ idle # << >>
    <3>1. At("finish")' => At("finish")
      BY <1>1, <2>3 DEF Submit, At, Threads
    <3>2. /\ pending' # << >>
          /\ pending # << >> => Head(pending') = Head(pending)
      BY <2>1, <2>3, <3>1, TransferSubmitted
    <3>3. QED
      BY <1>2, <1>3, <2>1, <2>2, <3>2
  <2>4. CASE UNCHANGED pending
    BY <1>4, <2>1, <2>2, <2>4
  <2>5. QED
    BY <1>7, <2>3, <2>4, SubmitWhere
<1>8. CASE CancelEvent \/ StopEvent \/ PurgeEvent
  <2>1. /\ UNCHANGED <<pending, done>>
        /\ IF pending = << >>
           THEN thread'.state = thread.state /\ UNCHANGED urbCxl
           ELSE Head(pending) \in urbCxl'
    BY <1>8, EventOutcome DEF DrainOutcome
  <2>2. QED
    BY <1>4, <2>1
<1>9. CASE FlowOffEvent
  <2>1. CASE highSpeed
    <3>1. /\ UNCHANGED <<pending, done, urbCxl>>
          /\ thread' = [thread EXCEPT !.stopped = TRUE, !.flowOn = FALSE,
                                     !.pc = "top"]
      BY <1>9, <2>1 DEF FlowOffEvent
    <3>2. thread'.state = thread.state
      BY <1>1, <3>1 DEF Threads
    <3>3. QED
      BY <1>4, <3>1, <3>2
  <2>2. CASE ~highSpeed
    <3>1. thread' = [[thread EXCEPT !.stopped = TRUE, !.flowOn = FALSE,
                                    !.pc = "top"]
                        EXCEPT !.state = "FLOW_OFF"]
      BY <1>9, <2>2 DEF FlowOffEvent
    <3>2. thread'.state = "FLOW_OFF"
      BY <1>1, <3>1 DEF Threads
    <3>3. QED
      BY <1>2, <3>2 DEF Drains
  <2>3. QED
    BY <2>1, <2>2
<1>10. CASE FinishCompletion
  <2>1. pending' = pending
    BY <1>10 DEF FinishCompletion
  <2>2. pending # << >> /\ Head(pending) \in urbCxl'
    BY <1>2, <1>10, FinishOutcome DEF Drains
  <2>3. QED
    BY <2>1, <2>2
<1>11. CASE ~Thread
  <2>1. thread' = thread /\ UNCHANGED <<idle, sent>>
    BY <1>11, OthersStay
  <2>2. At("finish")' => At("finish")
    BY <2>1 DEF At
  <2>3. CASE BusComplete
    <3>1. PICK s : Returned(1, s)
      BY <2>3 DEF BusComplete
    <3>2. 1 \in 0..Len(pending)
      BY <1>1, <2>3, EmptySeq, LenProperties DEF BusComplete
    <3>3. done' # << >>
      BY <2>1, <2>2, <3>1, <3>2, TransfersReturn
    <3>4. QED
      BY <3>3
  <2>4. CASE CleanupAbort
    <3>1. AbortOutput
      BY <2>4 DEF CleanupAbort
    <3>2. done' # << >>
      BY <1>2, <1>3, <2>1, <2>2, <3>1, AbortReturns
    <3>3. QED
      BY <3>2
  <2>5. CASE UNCHANGED <<pending, done, urbCxl>>
    BY <1>4, <2>1, <2>5
  <2>6. QED
    BY <1>11, <2>3, <2>4, <2>5, OthersStay
<1>12. QED
  BY <1>5, <1>6, <1>7, <1>8, <1>9, <1>10, <1>11 DEF Thread

LEMMA InitInvariant ==
    ASSUME Init
    PROVE  Invariant
<1>. USE DEF Init
<1>1. /\ idle \in Seq(Bufs) /\ IsInjective(idle) /\ idle # << >>
  <2>1. Cardinality(Bufs) > 0
    <3>1. Cardinality(Bufs) \in Nat /\ Cardinality(Bufs) # 0
      BY BufferAssumption, FS_CardinalityType, FS_EmptySet
    <3>2. QED
      BY <3>1
  <2>2. /\ idle \in Seq(Bufs) /\ IsInjective(idle)
        /\ Len(idle) = Cardinality(Bufs)
    BY IdleAtFirst
  <2>3. QED
    BY <2>1, <2>2, EmptySeq
<1>2. /\ pending \in Seq(Bufs) /\ ToSet(pending) = {} /\ IsInjective(pending)
      /\ done \in Seq(Bufs) /\ ToSet(done) = {} /\ IsInjective(done)
      /\ sent \in Seq({}) /\ ToSet(sent) = {} /\ DOMAIN sent = {}
  BY ListEmpty
<1>3. Types
  <2>1. SentRecords(sent)
    BY <1>2 DEF SentRecords
  <2>2. thread \in Threads
    BY DEF Threads
  <2>3. QED
    BY <1>1, <1>2, <2>1, <2>2 DEF Types
<1>4. BufferInOnePlace
  BY <1>1, <1>2 DEF BufferInOnePlace, At
<1>5. TransfersRecorded
  BY <1>2 DEF TransfersRecorded, Held
<1>6. CloseKnown /\ StopsKnown /\ FlowKnown /\ AckOwed /\ LooksAgain
  BY DEF CloseKnown, StopsKnown, FlowKnown, AckOwed, LooksAgain, At
<1>7. DrainGoesOn
  BY DEF DrainGoesOn
<1>8. QED
  BY <1>3, <1>4, <1>5, <1>6, <1>7 DEF Invariant

LEMMA InvariantKept ==
    ASSUME Invariant, Next
    PROVE  Invariant'
<1>1. /\ Types /\ BufferInOnePlace /\ TransfersRecorded
      /\ CloseKnown /\ StopsKnown /\ FlowKnown /\ AckOwed /\ LooksAgain
      /\ DrainGoesOn
  BY DEF Invariant
<1>2. Types' /\ BufferInOnePlace' /\ TransfersRecorded'
  BY <1>1, TypesKept, BuffersKept
<1>3. CloseKnown' /\ StopsKnown' /\ FlowKnown'
  BY <1>1, CloseKept, StopsKept, FlowKept
<1>4. AckOwed' /\ LooksAgain' /\ DrainGoesOn'
  BY <1>1, AckKept, LooksKept, DrainKept
<1>5. QED
  BY <1>2, <1>3, <1>4 DEF Invariant

LEMMA InvariantStays ==
    ASSUME Invariant, UNCHANGED vars
    PROVE  Invariant'
BY DEF Invariant, Types, SentRecords, BufferInOnePlace, TransfersRecorded, Held,
       Recorded, CloseKnown, StopsKnown, FlowKnown, AckOwed, LooksAgain,
       DrainGoesOn, Excused, LetGo, present, At, vars, queues, outside, history

-----------------------------------------------------------------------------
(* Every buffer is in one place and every transfer recorded, and what keeps *)
(* the thread from its work is known to somebody who will let it go on, in *)
(* whatever order writers, bus, power, modem, resets and the close meet.   *)
THEOREM InvariantHolds == Spec => []Invariant
<1>1. Invariant /\ [Next]_vars => Invariant'
  BY InvariantKept, InvariantStays
<1>2. QED
  BY <1>1, InitInvariant, PTL DEF Spec

(* USBWT_Enqueue kicks the thread only for the first write of its queue     *)
(* (USBWT.c:654): no write, and no zero-length packet, is left with a      *)
(* thread that waits for nothing.                                          *)
THEOREM WriterAwakeAlways == Spec => []WriterAwake
<1>1. Invariant => WriterAwake
  <2>1. SUFFICES ASSUME Invariant, At("wait"), ev = {}, done = << >>, LetGo,
                        ~stale, pending = << >>
                 PROVE  queue = << >> /\ ~thread.zlp
    BY DEF WriterAwake
  <2>2. ~Excused /\ "kick" \notin ev
    BY <2>1 DEF Excused
  <2>3. QED
    BY <2>1, <2>2 DEF Invariant, LooksAgain
<1>2. QED
  BY <1>1, InvariantHolds, PTL

(* The interrupt thread that asked for a flow-off, and the close that asked *)
(* the thread to end, are not forgotten.                                   *)
THEOREM RequestsRememberedAlways == Spec => []RequestsRemembered
<1>1. Invariant => RequestsRemembered
  BY DEF Invariant, CloseKnown, AckOwed, RequestsRemembered
<1>2. QED
  BY <1>1, InvariantHolds, PTL

(* A cancel, purge or stop that finds transfers in flight has each of them  *)
(* cancelled in its turn.                                                  *)
THEOREM DrainGoesOnAlways == Spec => []DrainGoesOn
<1>1. Invariant => DrainGoesOn
  BY DEF Invariant
<1>2. QED
  BY <1>1, InvariantHolds, PTL

(***************************************************************************)
(* The writes.                                                             *)
(***************************************************************************)

(* Irps keeps the entries that are IRPs, and their order: the n-th of them *)
(* is the one at position f[n].                                            *)
LEMMA IrpsInOrder ==
    ASSUME NEW s \in Seq(Nat \cup {NONE})
    PROVE  LET t == Irps(s)
               I == {k \in DOMAIN s : s[k] # NONE}
           IN  /\ t \in Seq(Nat)
               /\ \E f \in [1..Len(t) -> I] :
                     /\ \A n \in 1..Len(t) : t[n] = s[f[n]]
                     /\ \A m, n \in 1..Len(t) : m < n => f[m] < f[n]
                     /\ \A k \in I : \E n \in 1..Len(t) : f[n] = k
<1>. DEFINE t == Irps(s)
            I == {k \in DOMAIN s : s[k] # NONE}
            Upto(k) == {j \in I : j <= k}
            c == Cardinality(I)
<1>1. /\ DOMAIN s = 1..Len(s) /\ Len(s) \in Nat /\ I \subseteq 1..Len(s)
      /\ \A k \in I : s[k] \in Nat
  BY LenProperties, ElementOfSeq
<1>2. IsFiniteSet(I) /\ c \in Nat
  <2>1. IsFiniteSet(1..Len(s))
    BY <1>1, FS_Interval
  <2>2. QED
    BY <1>1, <2>1, FS_Subset, FS_CardinalityType
<1>. DEFINE rank == [k \in I |-> Cardinality(Upto(k))]
<1>3. ASSUME NEW k \in I
      PROVE  /\ IsFiniteSet(Upto(k)) /\ rank[k] \in 1..c
  <2>1. /\ IsFiniteSet(Upto(k)) /\ Cardinality(Upto(k)) <= c
        /\ Cardinality(Upto(k)) \in Nat
    BY <1>2, FS_Subset, FS_CardinalityType
  <2>2. k \in Upto(k)
    BY <1>1
  <2>3. Cardinality(Upto(k)) # 0
    BY <2>1, <2>2, FS_EmptySet
  <2>4. QED
    BY <1>2, <2>1, <2>3
<1>. HIDE DEF c
<1>15. \A k \in I : rank[k] \in Nat /\ rank[k] = Cardinality(Upto(k))
  <2>1. 1..c \subseteq Nat
    BY <1>2
  <2>2. \A k \in I : rank[k] \in 1..c
    BY <1>3
  <2>3. \A k \in I : rank[k] = Cardinality(Upto(k))
    OBVIOUS
  <2>. HIDE DEF rank
  <2>4. QED
    BY <2>1, <2>2, <2>3
<1>4. ASSUME NEW j \in I, NEW k \in I, j < k
      PROVE  rank[j] < rank[k]
  <2>1. Upto(j) \subseteq Upto(k) /\ k \in Upto(k) /\ k \notin Upto(j)
    BY <1>1, <1>4
  <2>2. /\ Cardinality(Upto(j)) <= Cardinality(Upto(k))
        /\ Cardinality(Upto(j)) # Cardinality(Upto(k))
    BY <1>3, <2>1, FS_Subset
  <2>. HIDE DEF rank, Upto
  <2>3. QED
    BY <1>15, <2>2
<1>5. ASSUME NEW n \in 1..c
      PROVE  \E k \in I : rank[k] = n
  <2>1. SUFFICES ASSUME \A k \in I : rank[k] # n
                 PROVE  FALSE
    OBVIOUS
  <2>. DEFINE T == (1..c) \ {n}
  <2>2. rank \in [I -> T]
    BY <1>3, <2>1
  <2>3. IsFiniteSet(T) /\ Cardinality(T) = c - 1
    <3>1. IsFiniteSet(1..c) /\ Cardinality(1..c) = c
      <4>1. 1 \in Int /\ c \in Int /\ (1 > c => c = 0)
        BY <1>2
      <4>2. QED
        BY <4>1, FS_Interval
    <3>2. QED
      BY <3>1, FS_RemoveElement
  <2>4. \E x, y \in I : x # y /\ rank[x] = rank[y]
    <3>. HIDE DEF rank
    <3>1. Cardinality(T) < Cardinality(I)
      BY <1>2, <2>3 DEF c
    <3>. HIDE DEF T, I
    <3>2. QED
      BY <1>2, <2>2, <2>3, <3>1, FS_PigeonHole
  <2>. HIDE DEF rank, T
  <2>5. \A x, y \in I : x < y \/ y < x \/ x = y
    BY <1>1
  <2>. HIDE DEF I, Upto
  <2>6. PICK x \in I, y \in I : x # y /\ rank[x] = rank[y]
    BY <2>4
  <2>7. rank[x] \in Nat /\ ~(rank[x] < rank[y]) /\ ~(rank[y] < rank[x])
    BY <1>15, <2>6
  <2>8. ~(x < y) /\ ~(y < x)
    BY <1>4, <2>7
  <2>9. QED
    BY <2>5, <2>6, <2>8
<1>. DEFINE Nth(n) == CHOOSE k \in I : Cardinality(Upto(k)) = n
            f == [n \in 1..c |-> Nth(n)]
<1>6. ASSUME NEW n \in 1..c
      PROVE  f[n] \in I /\ rank[f[n]] = n
  <2>1. \E k \in I : Cardinality(Upto(k)) = n
    BY <1>5
  <2>2. Nth(n) \in I /\ Cardinality(Upto(Nth(n))) = n
    BY <2>1
  <2>3. QED
    BY <2>2
<1>7. t = [n \in 1..c |-> s[f[n]]]
  BY DEF Irps, c
<1>. HIDE DEF f, rank, t, Upto
<1>8. \A n \in 1..c : s[f[n]] \in Nat
  BY <1>1, <1>6
<1>9. t \in Seq(Nat) /\ Len(t) = c
  <2>1. t \in [1..c -> Nat]
    BY <1>7, <1>8
  <2>2. QED
    BY <1>2, <2>1, IsASeq, LenProperties
<1>10. \A n \in 1..Len(t) : t[n] = s[f[n]]
  BY <1>7, <1>9
<1>11. \A m, n \in 1..Len(t) : m < n => f[m] < f[n]
  <2>1. \A m, n \in 1..c : f[m] \in I /\ f[n] \in I /\ rank[f[m]] = m /\ rank[f[n]] = n
    BY <1>6
  <2>2. ASSUME NEW m \in 1..c, NEW n \in 1..c, m < n PROVE f[m] < f[n]
    <3>1. f[m] \in Nat /\ f[n] \in Nat
      BY <1>1, <2>1
    <3>2. f[m] # f[n]
      BY <2>1, <2>2
    <3>3. ~(f[n] < f[m])
      BY <1>4, <2>1, <2>2
    <3>4. QED
      BY <3>1, <3>2, <3>3
  <2>3. QED
    BY <1>9, <2>2
<1>12. \A k \in I : \E n \in 1..Len(t) : f[n] = k
  <2>1. ASSUME NEW k \in I PROVE f[rank[k]] = k /\ rank[k] \in 1..c
    <3>1. rank[k] \in 1..c
      BY <1>3
    <3>2. f[rank[k]] \in I /\ rank[f[rank[k]]] = rank[k]
      BY <1>6, <3>1
    <3>3. \A x \in I : x < k \/ k < x => rank[x] # rank[k]
      BY <1>4, <1>15
    <3>4. QED
      BY <1>1, <3>1, <3>2, <3>3
  <2>2. QED
    BY <1>9, <2>1
<1>13. f \in [1..Len(t) -> I]
  BY <1>6, <1>9 DEF f
<1>14. QED
  BY <1>9, <1>10, <1>11, <1>12, <1>13 DEF t

(* So the entries are those that are IRPs, and stay distinct.              *)
LEMMA IrpsEntries ==
    ASSUME NEW s \in Seq(Nat \cup {NONE})
    PROVE  LET t == Irps(s)
           IN  /\ t \in Seq(Nat)
               /\ ToSet(t) = ToSet(s) \ {NONE}
               /\ (\A j, k \in DOMAIN s : s[j] = s[k] /\ s[j] # NONE => j = k)
                     => IsInjective(t)
<1>. DEFINE t == Irps(s)
            I == {k \in DOMAIN s : s[k] # NONE}
<1>1. t \in Seq(Nat)
  BY IrpsInOrder
<1>2. PICK f \in [1..Len(t) -> I] :
          /\ \A n \in 1..Len(t) : t[n] = s[f[n]]
          /\ \A m, n \in 1..Len(t) : m < n => f[m] < f[n]
          /\ \A k \in I : \E n \in 1..Len(t) : f[n] = k
  BY IrpsInOrder
<1>. HIDE DEF t
<1>3. /\ DOMAIN t = 1..Len(t) /\ Len(t) \in Nat
      /\ DOMAIN s = 1..Len(s) /\ Len(s) \in Nat
  BY <1>1, LenProperties
<1>4. ToSet(t) = ToSet(s) \ {NONE}
  <2>1. \A n \in 1..Len(t) : t[n] \in {s[k] : k \in DOMAIN s} \ {NONE}
    BY <1>2
  <2>2. \A k \in I : \E n \in 1..Len(t) : t[n] = s[k]
    BY <1>2
  <2>3. \A x : x \in {s[k] : k \in DOMAIN s} \ {NONE} => x \in {t[n] : n \in 1..Len(t)}
    <3>1. ASSUME NEW k \in DOMAIN s, s[k] # NONE
          PROVE  s[k] \in {t[n] : n \in 1..Len(t)}
      <4>1. k \in I
        BY <3>1
      <4>. HIDE DEF I
      <4>2. QED
        BY <2>2, <4>1
    <3>2. QED
      BY <3>1
  <2>. HIDE DEF I
  <2>4. QED
    BY <1>3, <2>1, <2>3 DEF ToSet
<1>5. ASSUME \A j, k \in DOMAIN s : s[j] = s[k] /\ s[j] # NONE => j = k
      PROVE  IsInjective(t)
  <2>1. ASSUME NEW m \in DOMAIN t, NEW n \in DOMAIN t, t[m] = t[n]
        PROVE  m = n
    <3>1. f[m] = f[n] /\ f[m] \in Nat /\ f[n] \in Nat
      BY <1>2, <1>3, <1>5, <2>1
    <3>2. ~(m < n) /\ ~(n < m)
      BY <1>2, <1>3, <3>1
    <3>3. QED
      BY <1>3, <3>2
  <2>2. QED
    BY <2>1 DEF IsInjective
<1>6. QED
  BY <1>1, <1>4, <1>5 DEF t

(* The writes that wait in the transfers, and those that records of s keep *)
(* after their transfer came back: s is MWTSentIrpQueue, now or next.      *)
Carried == {calling[b] : b \in {c \in Bufs : Held(c)}} \ {NONE}
Kept(s) == {s[k].irp : k \in {j \in DOMAIN s : s[j].returned}} \ {NONE}

CarriedOnce ==
    \A b, c \in Bufs :
        Held(b) /\ Held(c) /\ calling[b] = calling[c] => b = c \/ calling[b] = NONE

KeptOnce(s) ==
    \A j, k \in DOMAIN s :
        s[j].returned /\ s[k].returned /\ s[j].irp = s[k].irp
            => j = k \/ s[j].irp = NONE

Apart(Q, T, K, O, A) ==
    /\ Q \cap (T \cup K \cup O \cup A) = {}
    /\ T \cap (K \cup O \cup A) = {}
    /\ K \cap (O \cup A) = {}
    /\ O \cap A = {}

WriteTypes ==
    /\ accepted \in Nat
    /\ queue \in Seq(Nat) /\ outq \in Seq(Nat)
    /\ calling \in [Bufs -> Nat \cup {NONE}]
    /\ \A k \in DOMAIN sent : sent[k].irp \in Nat \cup {NONE}

(* A transfer that is not back has one record, of the write it carries.    *)
Records(s, call) ==
    /\ \A k \in DOMAIN s : ~s[k].returned => s[k].irp = call[s[k].buf]
    /\ \A j, k \in DOMAIN s :
          ~s[j].returned /\ ~s[k].returned /\ s[j].buf = s[k].buf => j = k

WritesKept ==
    /\ IsInjective(queue) /\ IsInjective(outq)
    /\ CarriedOnce /\ KeptOnce(sent)
    /\ Apart(ToSet(queue), Carried, Kept(sent), ToSet(outq), answered)
    /\ ToSet(queue) \cup Carried \cup Kept(sent) \cup ToSet(outq) \cup answered
         = 1..accepted

WriteInvariant == WriteTypes /\ Records(sent, calling) /\ WritesKept

(* The removal of an entry moves those behind it up by one place.          *)
Skip(i, j) == IF j < i THEN j ELSE j + 1

LEMMA RemovedFrom ==
    ASSUME NEW m, SentRecords(m), NEW i \in DOMAIN m
    PROVE  LET t == RemoveAt(m, i)
           IN  /\ \A j \in DOMAIN t : /\ Skip(i, j) \in DOMAIN m \ {i}
                                      /\ t[j] = m[Skip(i, j)]
               /\ \A j, k \in DOMAIN t : Skip(i, j) = Skip(i, k) => j = k
               /\ \A k \in DOMAIN m \ {i} :
                     \E j \in DOMAIN t : Skip(i, j) = k
<1>. DEFINE t == RemoveAt(m, i)
            S == ToSet(m)
<1>1. m \in Seq(S) /\ DOMAIN m = 1..Len(m) /\ Len(m) \in Nat
  BY LenProperties DEF SentRecords
<1>2. /\ t \in Seq(S) /\ Len(t) = Len(m) - 1
      /\ \A j \in 1..(Len(m) - 1) : t[j] = IF j < i THEN m[j] ELSE m[j + 1]
  BY <1>1, RemovedAt
<1>3. DOMAIN t = 1..(Len(m) - 1) /\ i \in 1..Len(m)
  BY <1>1, <1>2, LenProperties
<1>. HIDE DEF t, S
<1>4. \A j \in DOMAIN t : Skip(i, j) \in DOMAIN m \ {i} /\ t[j] = m[Skip(i, j)]
  BY <1>1, <1>2, <1>3 DEF Skip
<1>5. \A j, k \in DOMAIN t : Skip(i, j) = Skip(i, k) => j = k
  BY <1>3 DEF Skip
<1>6. ASSUME NEW k \in DOMAIN m \ {i}
      PROVE  \E j \in DOMAIN t : Skip(i, j) = k
  <2>1. CASE k < i
    BY <1>1, <1>3, <2>1 DEF Skip
  <2>2. CASE k > i
    <3>1. k - 1 \in DOMAIN t /\ Skip(i, k - 1) = k
      BY <1>1, <1>3, <2>2 DEF Skip
    <3>2. QED
      BY <3>1
  <2>3. QED
    BY <1>1, <1>3, <2>1, <2>2
<1>7. QED
  BY <1>4, <1>5, <1>6 DEF t

(* USBMWT_MarkAndCheckReturnedIrp keeps the write of the transfer that came *)
(* back in its record.                                                     *)
LEMMA MarkedKeeps ==
    ASSUME SentRecords(sent), TransfersRecorded, Records(sent, calling),
           NEW b \in Bufs, Held(b)
    PROVE  LET m == Marked(b)
           IN  /\ DOMAIN m = DOMAIN sent
               /\ \A k \in DOMAIN sent : m[k].irp = sent[k].irp /\ m[k].buf = sent[k].buf
               /\ \A k \in DOMAIN sent :
                     m[k].returned <=> sent[k].returned \/ k = LastOf(b)
               /\ LastOf(b) \in DOMAIN sent
               /\ ~sent[LastOf(b)].returned /\ sent[LastOf(b)].irp = calling[b]
               /\ sent[LastOf(b)].buf = b
<1>. DEFINE m == Marked(b)
            l == LastOf(b)
<1>1. PICK i \in DOMAIN sent :
          /\ sent[i].buf = b /\ ~sent[i].returned
          /\ \A j \in DOMAIN sent : sent[j].buf = b => j <= i
  BY DEF TransfersRecorded, Recorded
<1>2. l \in DOMAIN sent /\ sent[l].buf = b
      /\ \A j \in DOMAIN sent : sent[j].buf = b => j <= l
  BY <1>1 DEF LastOf
<1>3. DOMAIN sent \subseteq Nat
  BY LenProperties DEF SentRecords
<1>4. l = i
  <2>1. l <= i /\ i <= l
    BY <1>1, <1>2
  <2>2. QED
    BY <1>1, <1>2, <1>3, <2>1
<1>5. /\ SentRecords(m) /\ DOMAIN m = DOMAIN sent
      /\ \A k \in DOMAIN sent :
            /\ m[k].buf = sent[k].buf
            /\ sent[k].buf = b => m[k].returned
            /\ sent[k].buf # b => m[k] = sent[k]
  BY RecordsMarked
<1>6. \A k \in DOMAIN sent : m[k].irp = sent[k].irp
  <2>1. ASSUME NEW k \in DOMAIN sent PROVE m[k].irp = sent[k].irp
    <3>1. sent[k] = [irp |-> sent[k].irp, buf |-> sent[k].buf,
                     returned |-> sent[k].returned]
      BY DEF SentRecords, ToSet
    <3>2. m[k] = IF sent[k].buf = b THEN [sent[k] EXCEPT !.returned = TRUE]
                                    ELSE sent[k]
      BY DEF Marked
    <3>. HIDE DEF m
    <3>3. QED
      BY <3>1, <3>2
  <2>2. QED
    BY <2>1
<1>7. \A k \in DOMAIN sent : sent[k].buf = b /\ k # l => sent[k].returned
  BY <1>1, <1>2, <1>4 DEF Records
<1>8. \A k \in DOMAIN sent : m[k].returned <=> sent[k].returned \/ k = l
  <2>. HIDE DEF m, l
  <2>1. QED
    BY <1>2, <1>5, <1>7
<1>9. sent[l].irp = calling[b]
  BY <1>1, <1>4 DEF Records
<1>10. QED
  BY <1>1, <1>2, <1>4, <1>5, <1>6, <1>8, <1>9

(* What the records keep after a mark, and after the removal of the record *)
(* of the transfer.                                                        *)
LEMMA MarkedKept ==
    ASSUME SentRecords(sent), TransfersRecorded, Records(sent, calling),
           KeptOnce(sent), NEW b \in Bufs, Held(b), calling[b] \notin Kept(sent),
           NEW call, \A c \in Bufs : c # b => call[c] = calling[c],
           \A k \in DOMAIN sent : sent[k].returned \/ sent[k].buf \in Bufs
    PROVE  LET m == Marked(b)
           IN  /\ Kept(m) = Kept(sent) \cup ({calling[b]} \ {NONE})
               /\ KeptOnce(m) /\ Records(m, call)
<1>. DEFINE l == LastOf(b)
<1>. PICK m : m = Marked(b)
  OBVIOUS
<1>1. /\ DOMAIN m = DOMAIN sent
      /\ \A k \in DOMAIN sent : m[k].irp = sent[k].irp /\ m[k].buf = sent[k].buf
      /\ \A k \in DOMAIN sent : m[k].returned <=> sent[k].returned \/ k = l
      /\ l \in DOMAIN sent /\ ~sent[l].returned
      /\ sent[l].irp = calling[b] /\ sent[l].buf = b
  BY MarkedKeeps
<1>. HIDE DEF l
<1>2. Kept(m) = Kept(sent) \cup ({calling[b]} \ {NONE})
  <2>1. {k \in DOMAIN m : m[k].returned} = {k \in DOMAIN sent : sent[k].returned} \cup {l}
    BY <1>1
  <2>2. {m[k].irp : k \in {j \in DOMAIN m : m[j].returned}}
          = {sent[k].irp : k \in {j \in DOMAIN sent : sent[j].returned}} \cup {calling[b]}
    BY <1>1, <2>1
  <2>3. QED
    BY <2>2 DEF Kept
<1>3. KeptOnce(m)
  <2>1. \A k \in DOMAIN sent :
            sent[k].returned => sent[k].irp # calling[b] \/ sent[k].irp = NONE
    BY DEF Kept
  <2>2. QED
    BY <1>1, <2>1 DEF KeptOnce
<1>4. Records(m, call)
  <2>1. ASSUME NEW k \in DOMAIN m, ~m[k].returned
        PROVE  /\ ~sent[k].returned /\ m[k].buf = sent[k].buf
               /\ m[k].irp = call[m[k].buf]
    <3>1. ~sent[k].returned /\ k # l /\ k \in DOMAIN sent
      BY <1>1, <2>1
    <3>2. sent[k].irp = calling[sent[k].buf] /\ sent[k].buf # b
      BY <1>1, <3>1 DEF Records
    <3>3. QED
      BY <1>1, <3>1, <3>2
  <2>2. \A j, k \in DOMAIN m :
            ~m[j].returned /\ ~m[k].returned /\ m[j].buf = m[k].buf => j = k
    BY <1>1, <2>1 DEF Records
  <2>3. QED
    BY <2>1, <2>2 DEF Records
<1>5. QED
  BY <1>2, <1>3, <1>4

LEMMA RemovedKept ==
    ASSUME SentRecords(sent), TransfersRecorded, Records(sent, calling),
           KeptOnce(sent), NEW b \in Bufs, Held(b),
           NEW call, \A c \in Bufs : c # b => call[c] = calling[c],
           \A k \in DOMAIN sent : sent[k].returned \/ sent[k].buf \in Bufs
    PROVE  LET t == RemoveAt(Marked(b), LastOf(b))
           IN  /\ Kept(t) = Kept(sent) /\ KeptOnce(t) /\ Records(t, call)
               /\ \A j \in DOMAIN t : \E k \in DOMAIN sent : t[j].irp = sent[k].irp
<1>. PICK l : l = LastOf(b)
  OBVIOUS
<1>. PICK m : m = Marked(b)
  OBVIOUS
<1>. PICK t : t = RemoveAt(m, l)
  OBVIOUS
<1>1. /\ DOMAIN m = DOMAIN sent
      /\ \A k \in DOMAIN sent : m[k].irp = sent[k].irp /\ m[k].buf = sent[k].buf
      /\ \A k \in DOMAIN sent : m[k].returned <=> sent[k].returned \/ k = l
      /\ l \in DOMAIN sent /\ ~sent[l].returned /\ sent[l].buf = b
  BY MarkedKeeps
<1>2. SentRecords(m)
  BY RecordsMarked
<1>3. /\ \A j \in DOMAIN t : /\ Skip(l, j) \in DOMAIN m \ {l}
                             /\ t[j] = m[Skip(l, j)]
      /\ \A j, k \in DOMAIN t : Skip(l, j) = Skip(l, k) => j = k
      /\ \A k \in DOMAIN m \ {l} : \E j \in DOMAIN t : Skip(l, j) = k
  BY <1>1, <1>2, RemovedFrom
<1>4. \A j \in DOMAIN t : LET k == Skip(l, j) IN
          /\ k \in DOMAIN sent /\ k # l
          /\ t[j].irp = sent[k].irp /\ t[j].buf = sent[k].buf
          /\ t[j].returned <=> sent[k].returned
  BY <1>1, <1>3
<1>5. Kept(t) = Kept(sent)
  <2>1. ASSUME NEW j \in DOMAIN t, t[j].returned
        PROVE  \E k \in DOMAIN sent : sent[k].returned /\ sent[k].irp = t[j].irp
    BY <1>4, <2>1
  <2>2. ASSUME NEW k \in DOMAIN sent, sent[k].returned
        PROVE  \E j \in DOMAIN t : t[j].returned /\ t[j].irp = sent[k].irp
    <3>1. k \in DOMAIN m \ {l}
      BY <1>1, <2>2
    <3>2. PICK j \in DOMAIN t : Skip(l, j) = k
      BY <1>3, <3>1
    <3>3. QED
      BY <1>4, <2>2, <3>2
  <2>3. {t[k].irp : k \in {j \in DOMAIN t : t[j].returned}}
          \subseteq {sent[k].irp : k \in {j \in DOMAIN sent : sent[j].returned}}
    BY <2>1
  <2>4. {sent[k].irp : k \in {j \in DOMAIN sent : sent[j].returned}}
          \subseteq {t[k].irp : k \in {j \in DOMAIN t : t[j].returned}}
    BY <2>2
  <2>5. QED
    BY <2>3, <2>4 DEF Kept
<1>6. KeptOnce(t)
  BY <1>3, <1>4 DEF KeptOnce
<1>7. Records(t, call)
  <2>1. ASSUME NEW j \in DOMAIN t, ~t[j].returned
        PROVE  t[j].irp = call[t[j].buf]
    <3>. PICK k : k = Skip(l, j)
      OBVIOUS
    <3>1. /\ k \in DOMAIN sent /\ k # l /\ ~sent[k].returned
          /\ t[j].irp = sent[k].irp /\ t[j].buf = sent[k].buf
      BY <1>4, <2>1
    <3>2. sent[k].irp = calling[sent[k].buf] /\ sent[k].buf # b
      BY <1>1, <3>1 DEF Records
    <3>3. QED
      BY <3>1, <3>2
  <2>2. ASSUME NEW i \in DOMAIN t, NEW j \in DOMAIN t, ~t[i].returned,
               ~t[j].returned, t[i].buf = t[j].buf
        PROVE  i = j
    <3>1. Skip(l, i) = Skip(l, j)
      BY <1>4, <2>2 DEF Records
    <3>2. QED
      BY <1>3, <3>1
  <2>3. QED
    BY <2>1, <2>2 DEF Records
<1>8. QED
  BY <1>4, <1>5, <1>6, <1>7

-----------------------------------------------------------------------------
(* The steps.                                                              *)
LEMMA WritesStay ==
    ASSUME WriteInvariant,
           UNCHANGED <<queue, outq, sent, calling, answered, accepted>>,
           \A b \in Bufs : Held(b)' <=> Held(b)
    PROVE  WriteInvariant'
<1>1. Carried' = Carried /\ CarriedOnce' <=> CarriedOnce
  BY DEF Carried, CarriedOnce
<1>2. Carried' = Carried
  BY DEF Carried
<1>3. /\ Kept(sent)' = Kept(sent) /\ (KeptOnce(sent)' <=> KeptOnce(sent))
      /\ (CarriedOnce' <=> CarriedOnce)
  BY DEF Kept, KeptOnce, CarriedOnce
<1>4. QED
  BY <1>2, <1>3 DEF WriteInvariant, WriteTypes, Records, WritesKept

(* USBUTL_PurgeQueue hands all that waits to the interrupt thread.         *)
LEMMA WritesPurged ==
    ASSUME WriteInvariant, PurgeQueue,
           UNCHANGED <<pending, done, calling, sent, answered, accepted>>
    PROVE  WriteInvariant'
<1>1. /\ Carried' = Carried /\ Kept(sent)' = Kept(sent)
      /\ (CarriedOnce' <=> CarriedOnce) /\ (KeptOnce(sent)' <=> KeptOnce(sent))
  BY DEF Carried, CarriedOnce, Kept, KeptOnce, Held
<1>2. /\ queue \in Seq(Nat) /\ outq \in Seq(Nat)
      /\ IsInjective(queue) /\ IsInjective(outq)
      /\ ToSet(outq) \cap ToSet(queue) = {}
  BY DEF WriteInvariant, WriteTypes, WritesKept, Apart
<1>3. /\ outq' \in Seq(Nat) /\ ToSet(outq') = ToSet(outq) \cup ToSet(queue)
      /\ IsInjective(outq')
  BY <1>2, ListConcat DEF PurgeQueue
<1>4. /\ queue' \in Seq(Nat) /\ ToSet(queue') = {} /\ IsInjective(queue')
  BY ListEmpty DEF PurgeQueue
<1>5. WriteTypes' /\ Records(sent, calling)'
  BY <1>3, <1>4 DEF WriteInvariant, WriteTypes, Records
<1>6. Apart(ToSet(queue), Carried, Kept(sent), ToSet(outq), answered)'
  BY <1>1, <1>3, <1>4 DEF WriteInvariant, WritesKept, Apart
<1>7. QED
  BY <1>1, <1>3, <1>4, <1>5, <1>6 DEF WriteInvariant, WritesKept

LEMMA WriteEnqueued ==
    ASSUME WriteInvariant, Enqueue
    PROVE  WriteInvariant'
<1>1. /\ queue' = Append(queue, accepted + 1) /\ accepted' = accepted + 1
      /\ UNCHANGED <<outq, pending, done, calling, sent, answered>>
  BY DEF Enqueue
<1>2. /\ Carried' = Carried /\ Kept(sent)' = Kept(sent)
      /\ (CarriedOnce' <=> CarriedOnce) /\ (KeptOnce(sent)' <=> KeptOnce(sent))
  BY <1>1 DEF Carried, CarriedOnce, Kept, KeptOnce, Held
<1>3. /\ queue \in Seq(Nat) /\ accepted \in Nat /\ accepted + 1 \in Nat
      /\ accepted + 1 \notin 1..accepted
      /\ 1..(accepted + 1) = (1..accepted) \cup {accepted + 1}
  BY DEF WriteInvariant, WriteTypes
<1>4. accepted + 1 \notin ToSet(queue) \cup Carried \cup Kept(sent)
                            \cup ToSet(outq) \cup answered
  BY <1>3 DEF WriteInvariant, WritesKept
<1>5. /\ queue' \in Seq(Nat) /\ ToSet(queue') = ToSet(queue) \cup {accepted + 1}
      /\ IsInjective(queue')
  BY <1>1, <1>3, <1>4, ListAppend DEF WriteInvariant, WritesKept
<1>6. WriteTypes' /\ Records(sent, calling)'
  BY <1>1, <1>3, <1>5 DEF WriteInvariant, WriteTypes, Records
<1>7. Apart(ToSet(queue), Carried, Kept(sent), ToSet(outq), answered)'
  BY <1>1, <1>2, <1>4, <1>5 DEF WriteInvariant, WritesKept, Apart
<1>8. QED
  BY <1>1, <1>2, <1>3, <1>5, <1>6, <1>7 DEF WriteInvariant, WritesKept

LEMMA WriteAnswered ==
    ASSUME WriteInvariant, EmptyCompletionQueue
    PROVE  WriteInvariant'
<1>1. /\ outq # << >> /\ outq' = Tail(outq)
      /\ answered' = answered \cup {Head(outq)}
      /\ UNCHANGED <<queue, pending, done, calling, sent, accepted>>
  BY DEF EmptyCompletionQueue
<1>2. /\ Carried' = Carried /\ Kept(sent)' = Kept(sent)
      /\ (CarriedOnce' <=> CarriedOnce) /\ (KeptOnce(sent)' <=> KeptOnce(sent))
  BY <1>1 DEF Carried, CarriedOnce, Kept, KeptOnce, Held
<1>3. /\ outq' \in Seq(Nat) /\ ToSet(outq) = ToSet(outq') \cup {Head(outq)}
      /\ IsInjective(outq') /\ Head(outq) \notin ToSet(outq')
  BY <1>1, ListTail DEF WriteInvariant, WriteTypes, WritesKept
<1>4. WriteTypes' /\ Records(sent, calling)'
  BY <1>1, <1>3 DEF WriteInvariant, WriteTypes, Records
<1>5. Apart(ToSet(queue), Carried, Kept(sent), ToSet(outq), answered)'
  BY <1>1, <1>2, <1>3 DEF WriteInvariant, WritesKept, Apart
<1>6. ToSet(outq') \cup answered' = ToSet(outq) \cup answered
  BY <1>1, <1>3
<1>7. QED
  BY <1>1, <1>2, <1>3, <1>4, <1>5, <1>6 DEF WriteInvariant, WritesKept

(* A transfer is recorded, and the write goes with it.                     *)
LEMMA WriteSubmitted ==
    ASSUME Types, BufferInOnePlace, TransfersRecorded, WriteInvariant,
           Submit, HasWork, UNCHANGED <<done, answered, accepted>>
    PROVE  WriteInvariant'
<1>. PICK b : b = Head(idle)
  OBVIOUS
<1>. PICK i : i = IF thread.zlp THEN NONE ELSE Head(queue)
  OBVIOUS
<1>1. /\ idle # << >> /\ (thread.zlp \/ queue # << >>) /\ thread.zlp \in BOOLEAN
  BY DEF HasWork, Types, Threads
<1>2. /\ pending' = Append(pending, b) /\ calling' = [calling EXCEPT ![b] = i]
      /\ sent' = Append(sent, [irp |-> i, buf |-> b, returned |-> FALSE])
      /\ queue' = IF thread.zlp THEN queue ELSE Tail(queue)
      /\ UNCHANGED <<outq, done, answered, accepted>>
  BY DEF Submit
<1>3. /\ b \in Bufs /\ b \in ToSet(idle) /\ ~Held(b)
  BY <1>1, ListTail DEF Types, BufferInOnePlace, Held
<1>4. ToSet(pending') = ToSet(pending) \cup {b}
  BY <1>2, <1>3, ListAppend DEF Types
<1>5. \A c \in Bufs : Held(c)' <=> Held(c) \/ c = b
  BY <1>2, <1>4 DEF Held
<1>6. queue \in Seq(Nat) /\ IsInjective(queue) /\ NONE \notin Nat
  BY WriteAssumption DEF WriteInvariant, WriteTypes, WritesKept
<1>7. /\ queue' \in Seq(Nat) /\ IsInjective(queue') /\ i \in Nat \cup {NONE}
      /\ ToSet(queue) = ToSet(queue') \cup ({i} \ {NONE}) /\ i \notin ToSet(queue')
  <2>1. CASE thread.zlp
    <3>1. NONE \notin ToSet(queue)
      BY <1>6, ElementOfSeq, LenProperties DEF ToSet
    <3>2. QED
      BY <1>2, <1>6, <2>1, <3>1
  <2>2. CASE ~thread.zlp
    BY <1>1, <1>2, <1>6, <2>2, ListTail
  <2>3. QED
    BY <2>1, <2>2
<1>8. /\ calling' \in [Bufs -> Nat \cup {NONE}] /\ calling'[b] = i
      /\ \A c \in Bufs : c # b => calling'[c] = calling[c]
  BY <1>2, <1>3, <1>7 DEF WriteInvariant, WriteTypes
<1>9. /\ DOMAIN sent = 1..Len(sent) /\ DOMAIN sent' = 1..(Len(sent) + 1)
      /\ Len(sent) \in Nat /\ \A k \in DOMAIN sent : sent'[k] = sent[k]
      /\ sent'[Len(sent) + 1] = [irp |-> i, buf |-> b, returned |-> FALSE]
  BY <1>2, SentAppend DEF Types
<1>10. PICK n : n = Len(sent) + 1
  OBVIOUS
<1>11. /\ DOMAIN sent' = DOMAIN sent \cup {n} /\ n \notin DOMAIN sent
       /\ \A k \in DOMAIN sent : sent'[k] = sent[k]
       /\ sent'[n].irp = i /\ sent'[n].buf = b /\ ~sent'[n].returned
  BY <1>9, <1>10
<1>12. Kept(sent)' = Kept(sent) /\ KeptOnce(sent)'
  <2>1. {k \in DOMAIN sent' : sent'[k].returned} = {k \in DOMAIN sent : sent[k].returned}
    BY <1>11
  <2>2. Kept(sent)' = Kept(sent)
    BY <1>11, <2>1 DEF Kept
  <2>3. QED
    BY <1>11, <2>2 DEF WriteInvariant, WritesKept, KeptOnce
<1>13. Records(sent, calling)'
  <2>1. \A k \in DOMAIN sent : ~sent[k].returned => Held(sent[k].buf)
    BY DEF TransfersRecorded
  <2>2. \A k \in DOMAIN sent : ~sent[k].returned => sent[k].buf \in Bufs
    BY <2>1, BufferTypes DEF Held
  <2>3. \A k \in DOMAIN sent : ~sent[k].returned => sent[k].buf # b
    BY <1>3, <2>1
  <2>4. QED
    BY <1>8, <1>11, <2>2, <2>3 DEF WriteInvariant, Records
<1>14. Carried' = Carried \cup ({i} \ {NONE}) /\ CarriedOnce'
  <2>1. i \in Nat => i \notin Carried
    BY <1>6, <1>7 DEF WriteInvariant, WritesKept, Apart
  <2>2. {c \in Bufs : Held(c)'} = {c \in Bufs : Held(c)} \cup {b}
    BY <1>3, <1>5
  <2>3. {calling'[c] : c \in {d \in Bufs : Held(d)'}}
          = {calling[c] : c \in {d \in Bufs : Held(d)}} \cup {i}
    <3>1. \A c \in Bufs : Held(c) => calling'[c] = calling[c]
      BY <1>3, <1>8
    <3>2. QED
      BY <1>8, <2>2, <3>1
  <2>4. Carried' = Carried \cup ({i} \ {NONE})
    BY <2>3 DEF Carried
  <2>5. CarriedOnce'
    <3>1. \A c \in Bufs : Held(c) => c # b /\ (calling[c] # i \/ i = NONE)
      BY <1>3, <1>7, <2>1 DEF Carried
    <3>2. CarriedOnce
      BY DEF WriteInvariant, WritesKept
    <3>3. QED
      BY <1>3, <1>5, <1>8, <3>1, <3>2 DEF CarriedOnce
  <2>6. QED
    BY <2>4, <2>5
<1>15. WriteTypes'
  BY <1>2, <1>7, <1>8, <1>11 DEF WriteInvariant, WriteTypes
<1>16. Apart(ToSet(queue), Carried, Kept(sent), ToSet(outq), answered)'
  <2>. PICK J : J = {i} \ {NONE}
    OBVIOUS
  <2>1. /\ ToSet(queue) = ToSet(queue') \cup J /\ J \cap ToSet(queue') = {}
        /\ Carried' = Carried \cup J /\ Kept(sent)' = Kept(sent)
        /\ outq' = outq /\ answered' = answered
    BY <1>2, <1>7, <1>12, <1>14
  <2>2. Apart(ToSet(queue), Carried, Kept(sent), ToSet(outq), answered)
    BY DEF WriteInvariant, WritesKept
  <2>3. QED
    BY <2>1, <2>2 DEF Apart
<1>17. QED
  BY <1>2, <1>7, <1>12, <1>13, <1>14, <1>15, <1>16 DEF WriteInvariant, WritesKept

(* The writes of the records go back to the queue, each once.              *)
LEMMA Requeued ==
    ASSUME NEW r, SentRecords(r), KeptOnce(r),
           \A k \in DOMAIN r : r[k].returned /\ r[k].irp \in Nat \cup {NONE}
    PROVE  /\ Requeue(r) \in Seq(Nat) /\ ToSet(Requeue(r)) = Kept(r)
           /\ IsInjective(Requeue(r))
<1>. DEFINE s == [k \in DOMAIN r |-> r[k].irp]
<1>1. DOMAIN r = 1..Len(r) /\ Len(r) \in Nat
  BY LenProperties DEF SentRecords
<1>2. s \in [1..Len(r) -> Nat \cup {NONE}]
  BY <1>1
<1>3. s \in Seq(Nat \cup {NONE}) /\ DOMAIN s = DOMAIN r
  BY <1>1, <1>2, IsASeq
<1>4. ToSet(s) \ {NONE} = Kept(r)
  BY <1>3 DEF ToSet, Kept
<1>5. \A j, k \in DOMAIN s : s[j] = s[k] /\ s[j] # NONE => j = k
  BY <1>3 DEF KeptOnce
<1>6. Requeue(r) = Irps(s)
  BY DEF Requeue
<1>. HIDE DEF s
<1>7. QED
  BY <1>3, <1>4, <1>5, <1>6, IrpsEntries

(* What becomes of the write of a transfer that came back.                 *)
LEMMA FinishMoves ==
    ASSUME FinishCompletion
    PROVE  LET b == Head(done)
               kept == RemoveAt(Marked(b), LastOf(b))
               out == IF calling[b] = NONE THEN outq ELSE Append(outq, calling[b])
           IN  /\ calling' = [calling EXCEPT ![b] = NONE]
               /\ done' = Tail(done) /\ UNCHANGED <<pending, answered, accepted>>
               /\ \/ outq' = out /\ sent' = kept /\ queue' = queue
                  \/ /\ outq' = out /\ AllReturned(b)
                     /\ sent' = << >> /\ queue' = Requeue(kept) \o queue
                  \/ outq' = outq /\ sent' = Marked(b) /\ queue' = queue
                  \/ /\ outq' = outq /\ AllReturned(b)
                     /\ sent' = << >> /\ queue' = Requeue(Marked(b)) \o queue
<1>. PICK b : b = Head(done)
  OBVIOUS
<1>. PICK status : status = IF present THEN result[b] ELSE "cxl"
  OBVIOUS
<1>. DEFINE kept == RemoveAt(Marked(b), LastOf(b))
            out == IF calling[b] = NONE THEN outq ELSE Append(outq, calling[b])
<1>1. /\ calling' = [calling EXCEPT ![b] = NONE]
      /\ done' = Tail(done) /\ UNCHANGED <<pending, answered, accepted>>
  BY DEF FinishCompletion
<1>2. CASE FinishWorking(b, status)
  <2>1. outq' = out /\ sent' = kept /\ queue' = queue
    BY <1>2 DEF FinishWorking, Answer
  <2>2. QED
    BY <1>1, <2>1
<1>3. CASE FinishFlowOff(b, status)
  <2>1. CASE status = "ok"
    <3>1. /\ outq' = out
          /\ queue' = IF AllReturned(b) THEN Requeue(kept) \o queue ELSE queue
          /\ sent' = IF AllReturned(b) THEN << >> ELSE kept
      BY <1>3, <2>1 DEF FinishFlowOff, Answer
    <3>2. QED
      BY <1>1, <3>1
  <2>2. CASE status # "ok"
    <3>1. /\ outq' = outq
          /\ queue' = IF AllReturned(b) THEN Requeue(Marked(b)) \o queue ELSE queue
          /\ sent' = IF AllReturned(b) THEN << >> ELSE Marked(b)
      BY <1>3, <2>2 DEF FinishFlowOff
    <3>2. QED
      BY <1>1, <3>1
  <2>3. QED
    BY <2>1, <2>2
<1>4. FinishWorking(b, status) \/ FinishFlowOff(b, status)
  BY DEF FinishCompletion
<1>5. QED
  BY <1>2, <1>3, <1>4

(* The sets of the places, when write w of a transfer goes elsewhere.      *)
LEMMA WriteMoves ==
    ASSUME NEW Q, NEW T, NEW K, NEW O, NEW A, Apart(Q, T, K, O, A),
           NEW W, W \subseteq T
    PROVE  /\ Apart(Q, T \ W, K, O \cup W, A) /\ Apart(Q \cup K, T \ W, {}, O \cup W, A)
           /\ Apart(Q, T \ W, K \cup W, O, A)
           /\ Apart(Q \cup K \cup W, T \ W, {}, O, A)
           /\ T = (T \ W) \cup W
BY DEF Apart

LEMMA WriteFinished ==
    ASSUME Types, BufferInOnePlace, TransfersRecorded, WriteInvariant,
           FinishCompletion
    PROVE  WriteInvariant'
<1>. PICK b : b = Head(done)
  OBVIOUS
<1>. PICK W : W = {calling[b]} \ {NONE}
  OBVIOUS
<1>. DEFINE kept == RemoveAt(Marked(b), LastOf(b))
            out == IF calling[b] = NONE THEN outq ELSE Append(outq, calling[b])
<1>1. done # << >>
  BY DEF FinishCompletion, BufferInOnePlace
<1>2. /\ calling' = [calling EXCEPT ![b] = NONE] /\ done' = Tail(done)
      /\ UNCHANGED <<pending, answered, accepted>>
      /\ \/ outq' = out /\ sent' = kept /\ queue' = queue
         \/ /\ outq' = out /\ AllReturned(b)
            /\ sent' = << >> /\ queue' = Requeue(kept) \o queue
         \/ outq' = outq /\ sent' = Marked(b) /\ queue' = queue
         \/ /\ outq' = outq /\ AllReturned(b)
            /\ sent' = << >> /\ queue' = Requeue(Marked(b)) \o queue
  BY FinishMoves
<1>3. /\ b \in Bufs /\ b \in ToSet(done) /\ ToSet(done) = ToSet(done') \cup {b}
      /\ b \notin ToSet(done') /\ b \notin ToSet(pending)
  BY <1>1, <1>2, ListTail DEF Types, BufferInOnePlace
<1>4. Held(b) /\ \A c \in Bufs : Held(c)' <=> Held(c) /\ c # b
  BY <1>2, <1>3 DEF Held
<1>5. /\ calling' \in [Bufs -> Nat \cup {NONE}]
      /\ \A c \in Bufs : c # b => calling'[c] = calling[c]
      /\ calling[b] \in Nat \cup {NONE} /\ NONE \notin Nat
  BY <1>2, <1>3, WriteAssumption DEF WriteInvariant, WriteTypes
<1>6. /\ Apart(ToSet(queue), Carried, Kept(sent), ToSet(outq), answered)
      /\ ToSet(queue) \cup Carried \cup Kept(sent) \cup ToSet(outq) \cup answered
           = 1..accepted
      /\ CarriedOnce /\ KeptOnce(sent) /\ Records(sent, calling)
      /\ IsInjective(queue) /\ IsInjective(outq)
      /\ queue \in Seq(Nat) /\ outq \in Seq(Nat)
      /\ \A k \in DOMAIN sent : sent[k].irp \in Nat \cup {NONE}
  BY DEF WriteInvariant, WritesKept, WriteTypes
<1>7. W \subseteq Carried
  BY <1>3, <1>4 DEF Carried
<1>8. Carried' = Carried \ W /\ CarriedOnce'
  <2>1. \A c \in Bufs : Held(c) /\ calling[c] = calling[b] => c = b \/ calling[b] = NONE
    BY <1>3, <1>4, <1>6 DEF CarriedOnce
  <2>2. \A c \in Bufs : Held(c)' => calling'[c] = calling[c] /\ Held(c) /\ c # b
    BY <1>4, <1>5
  <2>3. ASSUME NEW x, x \in Carried' PROVE x \in Carried \ W
    <3>1. PICK c \in Bufs : Held(c)' /\ x = calling'[c] /\ x # NONE
      BY <2>3 DEF Carried
    <3>2. Held(c) /\ c # b /\ x = calling[c]
      BY <2>2, <3>1
    <3>3. x \in Carried
      BY <3>1, <3>2 DEF Carried
    <3>4. QED
      BY <2>1, <3>1, <3>2, <3>3
  <2>4. ASSUME NEW x, x \in Carried \ W PROVE x \in Carried'
    <3>1. PICK c \in Bufs : Held(c) /\ x = calling[c] /\ x # NONE
      BY <2>4 DEF Carried
    <3>2. c # b
      BY <2>4, <3>1
    <3>3. Held(c)' /\ x = calling'[c]
      BY <1>4, <1>5, <3>1, <3>2
    <3>4. QED
      BY <3>1, <3>3 DEF Carried
  <2>5. CarriedOnce'
    BY <1>6, <2>2 DEF CarriedOnce
  <2>6. QED
    BY <2>3, <2>4, <2>5
<1>9. SentRecords(sent) /\ \A k \in DOMAIN sent : sent[k].returned \/ sent[k].buf \in Bufs
  BY BufferTypes DEF Types, TransfersRecorded, Held
<1>10. calling[b] \notin Kept(sent)
  BY <1>6, <1>7 DEF Apart, Kept
<1>11. /\ Kept(Marked(b)) = Kept(sent) \cup W
       /\ KeptOnce(Marked(b)) /\ Records(Marked(b), calling')
  BY <1>3, <1>4, <1>5, <1>6, <1>9, <1>10, MarkedKept
<1>12. /\ Kept(kept) = Kept(sent) /\ KeptOnce(kept) /\ Records(kept, calling')
       /\ \A j \in DOMAIN kept : \E k \in DOMAIN sent : kept[j].irp = sent[k].irp
  BY <1>3, <1>4, <1>5, <1>6, <1>9, RemovedKept
<1>13. /\ DOMAIN Marked(b) = DOMAIN sent /\ SentRecords(Marked(b))
       /\ \A k \in DOMAIN sent : Marked(b)[k].irp = sent[k].irp
       /\ \A k \in DOMAIN sent :
             Marked(b)[k].returned <=> sent[k].returned \/ k = LastOf(b)
       /\ LastOf(b) \in DOMAIN sent
       /\ AllReturned(b) => \A k \in DOMAIN sent : Marked(b)[k].returned
  <2>1. /\ DOMAIN Marked(b) = DOMAIN sent /\ SentRecords(Marked(b))
        /\ \A k \in DOMAIN sent : sent[k].buf = b => Marked(b)[k].returned
    BY <1>9, RecordsMarked
  <2>2. /\ \A k \in DOMAIN sent : Marked(b)[k].irp = sent[k].irp
        /\ \A k \in DOMAIN sent :
              Marked(b)[k].returned <=> sent[k].returned \/ k = LastOf(b)
        /\ LastOf(b) \in DOMAIN sent
    BY <1>3, <1>4, <1>6, <1>9, MarkedKeeps
  <2>3. AllReturned(b) => \A k \in DOMAIN sent : Marked(b)[k].returned
    BY <2>1, <2>2 DEF AllReturned
  <2>4. QED
    BY <2>1, <2>2, <2>3
<1>14. /\ SentRecords(kept)
       /\ \A j \in DOMAIN kept : \E k \in DOMAIN sent : kept[j] = Marked(b)[k]
  BY <1>13, RecordRemoved
<1>15. /\ out \in Seq(Nat) /\ ToSet(out) = ToSet(outq) \cup W /\ IsInjective(out)
  <2>1. CASE calling[b] = NONE
    BY <1>6, <2>1
  <2>2. CASE calling[b] # NONE
    <3>1. calling[b] \in Nat /\ calling[b] \in Carried /\ calling[b] \notin ToSet(outq)
      BY <1>5, <1>6, <1>7, <2>2 DEF Apart
    <3>2. QED
      BY <1>6, <2>2, <3>1, ListAppend
  <2>3. QED
    BY <2>1, <2>2
<1>16. /\ Records(<< >>, calling') /\ KeptOnce(<< >>) /\ Kept(<< >>) = {}
  BY DEF Records, KeptOnce, Kept
<1>17. ASSUME NEW r, SentRecords(r), KeptOnce(r), Kept(r) \cap ToSet(queue) = {},
              \A k \in DOMAIN r : r[k].returned /\ r[k].irp \in Nat \cup {NONE}
       PROVE  LET q == Requeue(r) \o queue IN
              q \in Seq(Nat) /\ ToSet(q) = ToSet(queue) \cup Kept(r) /\ IsInjective(q)
  <2>1. /\ Requeue(r) \in Seq(Nat) /\ ToSet(Requeue(r)) = Kept(r)
        /\ IsInjective(Requeue(r))
    BY <1>17, Requeued
  <2>2. QED
    BY <1>6, <1>17, <2>1, ListConcat
<1>19. ASSUME /\ queue' \in Seq(Nat) /\ IsInjective(queue')
              /\ outq' \in Seq(Nat) /\ IsInjective(outq')
              /\ KeptOnce(sent') /\ Records(sent', calling')
              /\ \A k \in DOMAIN sent' : sent'[k].irp \in Nat \cup {NONE},
              Apart(ToSet(queue'), Carried \ W, Kept(sent'), ToSet(outq'), answered),
              ToSet(queue') \cup (Carried \ W) \cup Kept(sent') \cup ToSet(outq')
                \cup answered = 1..accepted
       PROVE  WriteInvariant'
  <2>1. WriteTypes'
    BY <1>2, <1>5, <1>19 DEF WriteTypes, WriteInvariant
  <2>2. WritesKept'
    <3>1. Kept(sent)' = Kept(sent') /\ (KeptOnce(sent)' <=> KeptOnce(sent'))
      BY DEF Kept, KeptOnce
    <3>2. QED
      BY <1>2, <1>8, <1>19, <3>1 DEF WritesKept
  <2>3. Records(sent, calling)'
    BY <1>19 DEF Records
  <2>4. QED
    BY <2>1, <2>2, <2>3 DEF WriteInvariant
<1>. PICK Q : Q = ToSet(queue)
  OBVIOUS
<1>. PICK K : K = Kept(sent)
  OBVIOUS
<1>. PICK O : O = ToSet(outq)
  OBVIOUS
<1>20. /\ Apart(Q, Carried \ W, K, O \cup W, answered)
       /\ Apart(Q \cup K, Carried \ W, {}, O \cup W, answered)
       /\ Apart(Q, Carried \ W, K \cup W, O, answered)
       /\ Apart(Q \cup K \cup W, Carried \ W, {}, O, answered)
       /\ Carried = (Carried \ W) \cup W
       /\ Q \cup Carried \cup K \cup O \cup answered = 1..accepted
       /\ K \cap Q = {} /\ (K \cup W) \cap Q = {}
  <2>1. Apart(Q, Carried, K, O, answered)
    BY <1>6
  <2>2. K \cap Q = {} /\ (K \cup W) \cap Q = {}
    BY <1>7, <2>1 DEF Apart
  <2>3. QED
    BY <1>6, <1>7, <2>1, <2>2, WriteMoves
<1>21. \A k \in DOMAIN kept : kept[k].irp \in Nat \cup {NONE}
  BY <1>6, <1>12
<1>22. \A k \in DOMAIN Marked(b) : Marked(b)[k].irp \in Nat \cup {NONE}
  BY <1>6, <1>13
<1>. HIDE DEF kept, out
<1>25. CASE outq' = out /\ sent' = kept /\ queue' = queue
  <2>1. Kept(sent') = K /\ ToSet(outq') = O \cup W /\ ToSet(queue') = Q
    BY <1>12, <1>15, <1>25
  <2>2. Q \cup (Carried \ W) \cup K \cup (O \cup W) \cup answered = 1..accepted
    BY <1>20
  <2>3. QED
    BY <1>6, <1>12, <1>15, <1>19, <1>20, <1>21, <1>25, <2>1, <2>2
<1>26. CASE /\ outq' = out /\ AllReturned(b)
            /\ sent' = << >> /\ queue' = Requeue(kept) \o queue
  <2>1. \A k \in DOMAIN kept : kept[k].returned
    BY <1>13, <1>14, <1>26
  <2>2. /\ queue' \in Seq(Nat) /\ ToSet(queue') = Q \cup K /\ IsInjective(queue')
    BY <1>12, <1>14, <1>17, <1>20, <1>21, <1>26, <2>1
  <2>3. Kept(sent') = {} /\ ToSet(outq') = O \cup W
    BY <1>15, <1>16, <1>26
  <2>4. (Q \cup K) \cup (Carried \ W) \cup {} \cup (O \cup W) \cup answered = 1..accepted
    BY <1>20
  <2>5. /\ KeptOnce(sent') /\ Records(sent', calling') /\ DOMAIN sent' = {}
        /\ outq' \in Seq(Nat) /\ IsInjective(outq')
    BY <1>15, <1>16, <1>26
  <2>6. QED
    BY <1>19, <1>20, <2>2, <2>3, <2>4, <2>5
<1>27. CASE outq' = outq /\ sent' = Marked(b) /\ queue' = queue
  <2>1. Kept(sent') = K \cup W /\ ToSet(outq') = O /\ ToSet(queue') = Q
    BY <1>11, <1>27
  <2>2. Q \cup (Carried \ W) \cup (K \cup W) \cup O \cup answered = 1..accepted
    BY <1>20
  <2>3. QED
    BY <1>6, <1>11, <1>19, <1>20, <1>22, <1>27, <2>1, <2>2
<1>28. CASE /\ outq' = outq /\ AllReturned(b)
            /\ sent' = << >> /\ queue' = Requeue(Marked(b)) \o queue
  <2>1. \A k \in DOMAIN Marked(b) : Marked(b)[k].returned
    BY <1>13, <1>28
  <2>2. /\ queue' \in Seq(Nat) /\ ToSet(queue') = Q \cup K \cup W
        /\ IsInjective(queue')
    BY <1>11, <1>13, <1>17, <1>20, <1>22, <1>28, <2>1
  <2>3. Kept(sent') = {} /\ ToSet(outq') = O
    BY <1>16, <1>28
  <2>4. (Q \cup K \cup W) \cup (Carried \ W) \cup {} \cup O \cup answered = 1..accepted
    BY <1>20
  <2>5. /\ KeptOnce(sent') /\ Records(sent', calling') /\ DOMAIN sent' = {}
        /\ outq' \in Seq(Nat) /\ IsInjective(outq')
    BY <1>6, <1>16, <1>28
  <2>6. QED
    BY <1>19, <1>20, <2>2, <2>3, <2>4, <2>5
<1>29. QED
  BY <1>2, <1>25, <1>26, <1>27, <1>28

(* Every step keeps each write in one place.                               *)
LEMMA WritesStep ==
    ASSUME Types, BufferInOnePlace, TransfersRecorded, WriteInvariant, Next
    PROVE  WriteInvariant'
<1>1. CASE /\ UNCHANGED <<queue, outq, sent, calling, answered, accepted>>
           /\ UNCHANGED <<pending, done>>
  BY <1>1, WritesStay DEF Held
<1>2. ASSUME NEW n \in 0..Len(pending), NEW s, Returned(n, s),
             UNCHANGED <<queue, outq, sent, calling, answered, accepted>>
      PROVE  WriteInvariant'
  <2>. DEFINE part == SubSeq(pending, 1, n)
              rest == SubSeq(pending, n + 1, Len(pending))
  <2>1. /\ part \in Seq(Bufs) /\ done \in Seq(Bufs)
        /\ ToSet(pending) = ToSet(part) \cup ToSet(rest)
    BY ListSplit DEF Types
  <2>2. pending' = rest /\ done' = done \o part
    BY <1>2 DEF Returned
  <2>. HIDE DEF part, rest
  <2>3. ToSet(done') = ToSet(done) \cup ToSet(part)
    BY <2>1, <2>2, ListConcat
  <2>4. \A b \in Bufs : Held(b)' <=> Held(b)
    BY <2>1, <2>2, <2>3 DEF Held
  <2>5. QED
    BY <1>2, <2>4, WritesStay
<1>3. CASE BusComplete
  <2>1. 1 \in 0..Len(pending)
    BY <1>3, EmptySeq, LenProperties DEF BusComplete, Types
  <2>2. \E s : Returned(1, s)
    BY <1>3 DEF BusComplete
  <2>3. UNCHANGED <<queue, outq, sent, calling, answered, accepted>>
    BY <1>3 DEF BusComplete
  <2>4. QED
    BY <1>2, <2>1, <2>2, <2>3
<1>4. ASSUME AbortOutput,
             UNCHANGED <<queue, outq, sent, calling, answered, accepted>>
      PROVE  WriteInvariant'
  <2>1. Len(pending) \in 0..Len(pending)
    BY LenProperties DEF Types
  <2>2. \E s : Returned(Len(pending), s)
    BY <1>4 DEF AbortOutput
  <2>3. QED
    BY <1>2, <1>4, <2>1, <2>2
<1>5. CASE CleanupAbort
  BY <1>4, <1>5 DEF CleanupAbort
<1>6. CASE FlowOffEvent
  <2>1. UNCHANGED <<queue, outq, sent, calling, answered, accepted>>
    BY <1>6 DEF FlowOffEvent
  <2>2. AbortOutput \/ UNCHANGED <<pending, done>>
    BY <1>6 DEF FlowOffEvent
  <2>3. QED
    BY <1>1, <1>4, <2>1, <2>2
<1>7. CASE ThreadTop
  <2>1. UNCHANGED <<pending, done, calling, sent, answered, accepted>>
    BY <1>7 DEF ThreadTop
  <2>2. PurgeQueue \/ UNCHANGED <<queue, outq>>
    BY <1>7 DEF ThreadTop
  <2>3. QED
    BY <1>1, <2>1, <2>2, WritesPurged
<1>8. CASE ThreadSend
  <2>1. UNCHANGED <<done, answered, accepted>>
    BY <1>8 DEF ThreadSend
  <2>2. CASE HasWork /\ Submit
    BY <2>1, <2>2, WriteSubmitted
  <2>3. CASE PurgeQueue /\ UNCHANGED <<pending, calling, sent>>
    BY <2>1, <2>3, WritesPurged
  <2>4. CASE UNCHANGED <<queue, pending, calling, sent, outq>>
    BY <1>1, <2>1, <2>4
  <2>5. QED
    BY <1>8, <2>2, <2>3, <2>4 DEF ThreadSend
<1>9. CASE FinishCompletion
  BY <1>9, WriteFinished
<1>10. CASE Enqueue
  BY <1>10, WriteEnqueued
<1>11. CASE EmptyCompletionQueue
  BY <1>11, WriteAnswered
<1>12. CASE CloseDone
  BY <1>12, WritesPurged DEF CloseDone
<1>13. CASE \/ ThreadExit \/ CancelEvent \/ PurgeEvent \/ StopEvent
            \/ KickEvent \/ ResumeEvent \/ FlowOnEvent \/ PeekCompletion
  BY <1>1, <1>13 DEF ThreadExit, CancelEvent, PurgeEvent, StopEvent,
                KickEvent, ResumeEvent, FlowOnEvent, PeekCompletion, Quiet, queues
<1>14. CASE \/ StartWrite \/ Standby \/ StandbyStop \/ Wakeup
            \/ WakeupResume \/ FlowOff \/ FlowOffTimeout
            \/ FlowOn \/ CleanupPurge \/ SurpriseRemoval \/ Close
  BY <1>1, <1>14
  DEF StartWrite, Standby, StandbyStop, Wakeup, WakeupResume, FlowOff,
      FlowOffTimeout, FlowOn, CleanupPurge, SurpriseRemoval, Close,
      Announces, Others, queues
<1>15. QED
  BY <1>3, <1>5, <1>6, <1>7, <1>8, <1>9, <1>10, <1>11, <1>12, <1>13, <1>14
  DEF Next, Thread

LEMMA WritesInit ==
    ASSUME Init
    PROVE  WriteInvariant
<1>1. /\ queue = << >> /\ outq = << >> /\ sent = << >> /\ pending = << >>
      /\ done = << >> /\ answered = {} /\ accepted = 0
      /\ calling = [b \in Bufs |-> NONE]
  BY DEF Init
<1>2. /\ << >> \in Seq(Nat) /\ ToSet(<< >>) = {} /\ IsInjective(<< >>)
      /\ DOMAIN << >> = {}
  BY ListEmpty
<1>3. \A b : ~Held(b)
  BY <1>1, <1>2 DEF Held
<1>4. Carried = {} /\ CarriedOnce /\ Kept(sent) = {} /\ KeptOnce(sent)
  BY <1>1, <1>3 DEF Carried, CarriedOnce, Kept, KeptOnce
<1>5. WriteTypes /\ Records(sent, calling)
  BY <1>1, <1>2 DEF WriteTypes, Records
<1>6. 1..0 = {}
  OBVIOUS
<1>7. QED
  BY <1>1, <1>2, <1>4, <1>5, <1>6 DEF WriteInvariant, WritesKept, Apart

(* A write that is in one of the places, once, is counted once.            *)
LEMMA CountedOnce ==
    ASSUME NEW P, \A j, k \in P : j = k
    PROVE  IF P = {} THEN Cardinality(P) = 0 ELSE Cardinality(P) = 1
<1>1. CASE P = {}
  BY <1>1, FS_EmptySet
<1>2. CASE P # {}
  <2>1. PICK x : P = {x}
    BY <1>2
  <2>2. Cardinality({x}) = 1
    BY FS_Singleton
  <2>3. QED
    BY <1>2, <2>1, <2>2
<1>3. QED
  BY <1>1, <1>2

LEMMA WritesInOnePlace ==
    ASSUME WriteInvariant
    PROVE  WriteInOnePlace
<1>. SUFFICES ASSUME NEW i \in 1..accepted
              PROVE  Places(i) = 1
  BY DEF WriteInOnePlace
<1>. DEFINE Q == {k \in DOMAIN queue : queue[k] = i}
            T == {b \in Bufs : Held(b) /\ calling[b] = i}
            K == {k \in DOMAIN sent : sent[k].irp = i /\ sent[k].returned}
            O == {k \in DOMAIN outq : outq[k] = i}
            A == {j \in answered : j = i}
            Size(P) == IF P = {} THEN 0 ELSE 1
<1>1. i \in Nat /\ i # NONE
  BY WriteAssumption DEF WriteInvariant, WriteTypes
<1>2. /\ Q # {} <=> i \in ToSet(queue)
      /\ T # {} <=> i \in Carried
      /\ K # {} <=> i \in Kept(sent)
      /\ O # {} <=> i \in ToSet(outq)
      /\ A # {} <=> i \in answered
  BY <1>1 DEF ToSet, Carried, Kept
<1>3. /\ \A j, k \in Q : j = k
      /\ \A j, k \in T : j = k
      /\ \A j, k \in K : j = k
      /\ \A j, k \in O : j = k
      /\ \A j, k \in A : j = k
  BY <1>1 DEF WriteInvariant, WritesKept, IsInjective, CarriedOnce, KeptOnce
<1>4. /\ Cardinality(Q) = Size(Q) /\ Cardinality(T) = Size(T)
      /\ Cardinality(K) = Size(K) /\ Cardinality(O) = Size(O)
      /\ Cardinality(A) = Size(A)
  <2>. HIDE DEF Q, T, K, O, A
  <2>1. \A P : (\A j, k \in P : j = k) => Cardinality(P) = Size(P)
    BY CountedOnce
  <2>2. QED
    BY <1>3, <2>1
<1>5. Places(i) = Size(Q) + Size(T) + Size(K) + Size(O) + Size(A)
  BY <1>4 DEF Places
<1>6. /\ Apart(ToSet(queue), Carried, Kept(sent), ToSet(outq), answered)
      /\ i \in ToSet(queue) \cup Carried \cup Kept(sent) \cup ToSet(outq) \cup answered
  BY DEF WriteInvariant, WritesKept
<1>. HIDE DEF Q, T, K, O, A
<1>7. QED
  BY <1>2, <1>5, <1>6 DEF Apart

(* What waits, is carried, is kept, goes back and was answered never       *)
(* overlaps, and makes up all that was accepted.                           *)
THEOREM WriteInvariantHolds == Spec => []WriteInvariant
<1>1. WriteInvariant /\ Invariant /\ [Next]_vars => WriteInvariant'
  <2>1. ASSUME WriteInvariant, UNCHANGED vars PROVE WriteInvariant'
    BY <2>1, WritesStay DEF vars, queues, Held
  <2>2. QED
    BY <2>1, WritesStep DEF Invariant
<1>2. QED
  BY <1>1, WritesInit, InvariantHolds, PTL DEF Spec

(* Every write the transport accepted is in one place, and answered once,  *)
(* in every order of stops, flow-offs, purges, cancellations, failures and *)
(* removals, and for any number of buffers and writes.                     *)
THEOREM WriteInOnePlaceAlways == Spec => []WriteInOnePlace
BY WriteInvariantHolds, WritesInOnePlace, PTL

-----------------------------------------------------------------------------
(* The order of the writes.                                                *)
Earlier(i, j) == i = NONE \/ j = NONE \/ i < j

InOrder(s)  == \A j, k \in DOMAIN s : j < k => Earlier(s[j].irp, s[k].irp)
Rising(q)   == \A j, k \in DOMAIN q : j < k => q[j] < q[k]
Precedes(s, q) == \A j \in DOMAIN s, k \in DOMAIN q : Earlier(s[j].irp, q[k])

(* What was sent and what waits are in the order of acceptance, whatever   *)
(* happens: a flow-off puts what it sends back in front.                   *)
Ascending ==
    /\ InOrder(sent) /\ Rising(queue) /\ Precedes(sent, queue)
    /\ \A j, k \in DOMAIN pending :
          j < k => Earlier(calling[pending[j]], calling[pending[k]])

(* A flow-off leaves nothing with the bus and lets nothing go there; only  *)
(* after one does a record outlive its transfer.                           *)
FlowOffQuiet ==
    ~stale =>
        IF thread.state = "FLOW_OFF"
        THEN pending = << >> /\ ~thread.flowOn /\ "flowOn" \notin ev /\ ~At("send")
        ELSE \A k \in DOMAIN sent : ~sent[k].returned

(* What a flow-off will send back was not delivered.                       *)
Unserved(d) ==
    /\ \A b \in ToSet(done) : result[b] # "ok" => Earlier(d, calling[b])
    /\ \A k \in DOMAIN sent : sent[k].returned => Earlier(d, sent[k].irp)

(* What is delivered is older than all that may yet be.                    *)
Served ==
    ~stale /\ ~resent =>
        /\ Rising(delivered)
        /\ \A d \in ToSet(delivered) :
              /\ \A b \in ToSet(pending) : Earlier(d, calling[b])
              /\ present => \A i \in ToSet(queue) : d < i
              /\ present /\ thread.state = "FLOW_OFF" => Unserved(d)

OrderInvariant ==
    /\ delivered \in Seq(Nat) /\ ToSet(delivered) \subseteq 1..accepted
    /\ Ascending /\ FlowOffQuiet /\ Served

LEMMA JoinRises ==
    ASSUME NEW p \in Seq(Nat), NEW q \in Seq(Nat), Rising(p), Rising(q),
           \A j \in DOMAIN p, k \in DOMAIN q : p[j] < q[k]
    PROVE  Rising(p \o q)
<1>1. /\ Len(p) \in Nat /\ DOMAIN p = 1..Len(p)
      /\ Len(q) \in Nat /\ DOMAIN q = 1..Len(q)
  BY LenProperties
<1>. PICK r : r = p \o q
  OBVIOUS
<1>2. /\ DOMAIN r = 1..(Len(p) + Len(q))
      /\ \A i \in 1..(Len(p) + Len(q)) :
            r[i] = IF i <= Len(p) THEN p[i] ELSE q[i - Len(p)]
  BY ConcatProperties, LenProperties
<1>3. ASSUME NEW j \in DOMAIN r, NEW k \in DOMAIN r, j < k
      PROVE  r[j] < r[k]
  <2>1. CASE k <= Len(p)
    BY <1>1, <1>2, <1>3, <2>1 DEF Rising
  <2>2. CASE j <= Len(p) /\ ~(k <= Len(p))
    <3>1. j \in DOMAIN p /\ k - Len(p) \in DOMAIN q
      BY <1>1, <1>2, <2>2
    <3>2. QED
      BY <1>2, <2>2, <3>1
  <2>3. CASE ~(j <= Len(p))
    <3>1. /\ j - Len(p) \in DOMAIN q /\ k - Len(p) \in DOMAIN q
          /\ j - Len(p) < k - Len(p) /\ ~(k <= Len(p))
      BY <1>1, <1>2, <1>3, <2>3
    <3>2. QED
      BY <1>2, <2>3, <3>1 DEF Rising
  <2>4. QED
    BY <1>1, <1>2, <1>3, <2>1, <2>2, <2>3
<1>4. QED
  BY <1>3 DEF Rising

LEMMA IrpsRise ==
    ASSUME NEW s \in Seq(Nat \cup {NONE}),
           \A j, k \in DOMAIN s : j < k => Earlier(s[j], s[k])
    PROVE  LET t == Irps(s)
           IN  /\ t \in Seq(Nat) /\ Rising(t) /\ DOMAIN t \subseteq Nat
               /\ \A n \in DOMAIN t :
                     t[n] # NONE /\ \E k \in DOMAIN s : t[n] = s[k]
<1>. DEFINE t == Irps(s)
            I == {k \in DOMAIN s : s[k] # NONE}
<1>1. t \in Seq(Nat)
      /\ \E f \in [1..Len(t) -> I] :
            /\ \A n \in 1..Len(t) : t[n] = s[f[n]]
            /\ \A m, n \in 1..Len(t) : m < n => f[m] < f[n]
            /\ \A k \in I : \E n \in 1..Len(t) : f[n] = k
  BY IrpsInOrder, Zenon
<1>. HIDE DEF t
<1>2. PICK f \in [1..Len(t) -> I] :
            /\ \A n \in 1..Len(t) : t[n] = s[f[n]]
            /\ \A m, n \in 1..Len(t) : m < n => f[m] < f[n]
  BY <1>1
<1>3. Len(t) \in Nat /\ DOMAIN t = 1..Len(t)
  BY <1>1, LenProperties
<1>4. \A n \in DOMAIN t : f[n] \in DOMAIN s /\ t[n] = s[f[n]] /\ t[n] # NONE
  BY <1>2, <1>3
<1>5. Rising(t)
  BY <1>2, <1>3, <1>4 DEF Rising, Earlier
<1>6. QED
  BY <1>1, <1>3, <1>4, <1>5 DEF t

LEMMA RequeuedInOrder ==
    ASSUME NEW r, SentRecords(r), InOrder(r), Precedes(r, queue),
           \A k \in DOMAIN r : r[k].irp \in Nat \cup {NONE},
           queue \in Seq(Nat), Rising(queue)
    PROVE  Rising(Requeue(r) \o queue)
<1>. PICK s : s = [k \in DOMAIN r |-> r[k].irp]
  OBVIOUS
<1>1. DOMAIN r = 1..Len(r) /\ Len(r) \in Nat
  BY LenProperties DEF SentRecords
<1>2. s \in [1..Len(r) -> Nat \cup {NONE}]
  BY <1>1
<1>3. /\ s \in Seq(Nat \cup {NONE}) /\ DOMAIN s = DOMAIN r
      /\ \A k \in DOMAIN s : s[k] = r[k].irp
  BY <1>1, <1>2, IsASeq
<1>. PICK t : t = Irps(s)
  OBVIOUS
<1>4. t = Requeue(r)
  BY DEF Requeue
<1>5. /\ t \in Seq(Nat) /\ Rising(t)
      /\ \A n \in DOMAIN t : t[n] # NONE /\ \E k \in DOMAIN s : t[n] = s[k]
  <2>1. \A j, k \in DOMAIN s : j < k => Earlier(s[j], s[k])
    BY <1>3 DEF InOrder
  <2>2. /\ Irps(s) \in Seq(Nat) /\ Rising(Irps(s))
        /\ \A n \in DOMAIN Irps(s) :
              Irps(s)[n] # NONE /\ \E k \in DOMAIN s : Irps(s)[n] = s[k]
    BY <1>3, <2>1, IrpsRise, Zenon
  <2>3. QED
    BY <2>2, Zenon
<1>6. NONE \notin Nat /\ \A k \in DOMAIN queue : queue[k] \in Nat
  BY WriteAssumption, ElementOfSeq, LenProperties
<1>7. ASSUME NEW n \in DOMAIN t, NEW j \in DOMAIN queue PROVE t[n] < queue[j]
  <2>1. PICK k \in DOMAIN r : t[n] = r[k].irp
    BY <1>3, <1>5
  <2>2. t[n] # NONE /\ queue[j] # NONE
    BY <1>5, <1>6
  <2>3. Earlier(r[k].irp, queue[j])
    BY DEF Precedes
  <2>4. QED
    BY <2>1, <2>2, <2>3 DEF Earlier
<1>8. Rising(t \o queue)
  BY <1>5, <1>7, JoinRises
<1>9. QED
  BY <1>4, <1>8, Zenon

LEMMA RemovedInOrder ==
    ASSUME SentRecords(sent), NEW m, SentRecords(m), DOMAIN m = DOMAIN sent,
           \A k \in DOMAIN sent : m[k].irp = sent[k].irp,
           NEW l \in DOMAIN m, InOrder(sent), Precedes(sent, queue)
    PROVE  /\ InOrder(RemoveAt(m, l)) /\ Precedes(RemoveAt(m, l), queue)
           /\ InOrder(m) /\ Precedes(m, queue)
<1>. PICK t : t = RemoveAt(m, l)
  OBVIOUS
<1>1. /\ \A j \in DOMAIN t : Skip(l, j) \in DOMAIN m \ {l} /\ t[j] = m[Skip(l, j)]
  BY RemovedFrom
<1>2. DOMAIN m \subseteq Nat /\ SentRecords(t)
  BY RecordRemoved, LenProperties DEF SentRecords
<1>3. DOMAIN t \subseteq Nat
  BY <1>2, LenProperties DEF SentRecords
<1>4. \A j, k \in DOMAIN t : j < k => Skip(l, j) < Skip(l, k)
  BY <1>2, <1>3 DEF Skip
<1>5. InOrder(t) /\ Precedes(t, queue)
  BY <1>1, <1>4 DEF InOrder, Precedes
<1>6. QED
  BY <1>5 DEF InOrder, Precedes

LEMMA QueueRises ==
    ASSUME NEW q \in Seq(Nat), Rising(q)
    PROVE  /\ q # << >> => Rising(Tail(q)) /\ \A k \in DOMAIN Tail(q) : Head(q) < Tail(q)[k]
           /\ \A n \in Nat : (\A k \in DOMAIN q : q[k] < n) => Rising(Append(q, n))
           /\ q # << >> => /\ 1 \in DOMAIN q /\ Head(q) = q[1]
                           /\ \A k \in DOMAIN Tail(q) : k + 1 \in DOMAIN q /\ Tail(q)[k] = q[k + 1]
<1>1. DOMAIN q = 1..Len(q) /\ Len(q) \in Nat
  BY LenProperties
<1>2. ASSUME q # << >>
      PROVE  /\ Rising(Tail(q)) /\ \A k \in DOMAIN Tail(q) : Head(q) < Tail(q)[k]
             /\ 1 \in DOMAIN q /\ Head(q) = q[1]
             /\ \A k \in DOMAIN Tail(q) : k + 1 \in DOMAIN q /\ Tail(q)[k] = q[k + 1]
  <2>. PICK t : t = Tail(q)
    OBVIOUS
  <2>1. /\ t \in Seq(Nat) /\ Len(t) = Len(q) - 1
        /\ \A i \in 1..Len(t) : t[i] = q[i + 1]
    BY <1>2, HeadTailProperties
  <2>2. DOMAIN t = 1..(Len(q) - 1)
    BY <2>1, LenProperties
  <2>3. 1 \in DOMAIN q /\ Head(q) = q[1]
    BY <1>1, <1>2, EmptySeq
  <2>4. \A k \in DOMAIN t : k + 1 \in DOMAIN q /\ t[k] = q[k + 1] /\ 1 < k + 1 /\ k \in Nat
    BY <1>1, <2>1, <2>2
  <2>5. Rising(t) /\ \A k \in DOMAIN t : Head(q) < t[k]
    BY <2>3, <2>4 DEF Rising
  <2>6. QED
    BY <2>3, <2>4, <2>5
<1>3. ASSUME NEW n \in Nat, \A k \in DOMAIN q : q[k] < n
      PROVE  Rising(Append(q, n))
  <2>. PICK t : t = Append(q, n)
    OBVIOUS
  <2>1. /\ DOMAIN t = 1..(Len(q) + 1) /\ t[Len(q) + 1] = n
        /\ \A i \in 1..Len(q) : t[i] = q[i]
    BY AppendProperties, LenProperties
  <2>2. QED
    BY <1>1, <1>3, <2>1 DEF Rising
<1>4. QED
  BY <1>2, <1>3

(* A write that is recorded, waits or is carried was accepted, and what a  *)
(* transfer carries is in a record.                                        *)
LEMMA WritesAccepted ==
    ASSUME Types, TransfersRecorded, WriteInvariant
    PROVE  /\ \A k \in DOMAIN sent : sent[k].irp \in (1..accepted) \cup {NONE}
           /\ \A k \in DOMAIN queue : queue[k] \in 1..accepted
           /\ \A b \in Bufs : Held(b) =>
                 /\ calling[b] \in (1..accepted) \cup {NONE}
                 /\ \E k \in DOMAIN sent : sent[k].irp = calling[b]
<1>1. /\ ToSet(queue) \cup Carried \cup Kept(sent) \cup ToSet(outq) \cup answered
           = 1..accepted
      /\ Records(sent, calling)
  BY DEF WriteInvariant, WritesKept
<1>2. \A k \in DOMAIN queue : queue[k] \in 1..accepted
  BY <1>1 DEF ToSet
<1>3. \A b \in Bufs : Held(b) => calling[b] \in (1..accepted) \cup {NONE}
  BY <1>1 DEF Carried
<1>4. ASSUME NEW k \in DOMAIN sent
      PROVE  sent[k].irp \in (1..accepted) \cup {NONE}
  <2>1. CASE sent[k].returned
    BY <1>1, <2>1 DEF Kept
  <2>2. CASE ~sent[k].returned
    <3>1. Held(sent[k].buf) /\ sent[k].irp = calling[sent[k].buf]
      BY <1>1, <2>2 DEF TransfersRecorded, Records
    <3>2. sent[k].buf \in Bufs
      BY <3>1, BufferTypes DEF Held
    <3>3. QED
      BY <1>3, <3>1, <3>2
  <2>3. QED
    BY <2>1, <2>2
<1>5. \A b \in Bufs : Held(b) => \E k \in DOMAIN sent : sent[k].irp = calling[b]
  BY <1>1 DEF TransfersRecorded, Recorded, Records
<1>6. QED
  BY <1>2, <1>3, <1>4, <1>5

(* The n oldest transfers come back.                                       *)
LEMMA ReturnedParts ==
    ASSUME Types, BufferInOnePlace, NEW n \in 0..Len(pending), NEW s, Returned(n, s)
    PROVE  /\ DOMAIN pending = 1..Len(pending) /\ Len(pending) \in Nat
           /\ DOMAIN pending' = 1..(Len(pending) - n)
           /\ \A k \in DOMAIN pending' : pending'[k] = pending[k + n]
           /\ \A k \in DOMAIN pending : pending[k] \in Bufs /\ Held(pending[k])
           /\ \A b \in ToSet(done') :
                 \/ b \in ToSet(done) /\ result'[b] = result[b]
                 \/ \E k \in 1..n : b = pending[k] /\ result'[b] = s[b]
<1>. DEFINE part == SubSeq(pending, 1, n)
            rest == SubSeq(pending, n + 1, Len(pending))
<1>1. /\ pending' = rest /\ done' = done \o part
      /\ result' = [b \in Bufs |-> IF b \in ToSet(part) THEN s[b] ELSE result[b]]
  BY DEF Returned
<1>2. /\ pending \in Seq(Bufs) /\ done \in Seq(Bufs) /\ IsInjective(pending)
      /\ ToSet(pending) \cap ToSet(done) = {}
      /\ DOMAIN pending = 1..Len(pending) /\ Len(pending) \in Nat /\ n \in Nat
  BY LenProperties DEF Types, BufferInOnePlace
<1>3. /\ part \in Seq(Bufs) /\ rest \in Seq(Bufs)
      /\ Len(part) = n /\ Len(rest) = Len(pending) - n
  <2>1. pending \in Seq(Bufs)
    BY <1>2
  <2>2. QED
    BY <2>1, ListSplit
<1>4. /\ \A k \in 1..n : part[k] = pending[k]
      /\ \A k \in 1..(Len(pending) - n) : rest[k] = pending[k + n]
  BY <1>2, ListCut
<1>. HIDE DEF part, rest
<1>5. ToSet(done') = ToSet(done) \cup ToSet(part)
  <2>1. ToSet(done \o part) = ToSet(done) \cup ToSet(part)
    BY <1>2, <1>3, ListConcat
  <2>2. QED
    BY <1>1, <2>1
<1>6. \A k \in DOMAIN pending : pending[k] \in Bufs /\ Held(pending[k])
  BY <1>2, ElementOfSeq DEF Held, ToSet
<1>7. DOMAIN part = 1..n /\ DOMAIN pending' = 1..(Len(pending) - n)
  BY <1>1, <1>3, LenProperties
<1>8. ToSet(done) \subseteq Bufs
  BY BufferTypes
<1>9. ASSUME NEW b \in ToSet(done'), b \notin ToSet(part)
      PROVE  b \in ToSet(done) /\ result'[b] = result[b]
  BY <1>1, <1>5, <1>8, <1>9
<1>10. ASSUME NEW b \in ToSet(part)
       PROVE  \E k \in 1..n : b = pending[k] /\ result'[b] = s[b]
  <2>1. PICK k \in 1..n : b = part[k]
    BY <1>7 DEF ToSet
  <2>2. b = pending[k] /\ b \in Bufs
    BY <1>2, <1>4, <1>6, <2>1
  <2>3. QED
    BY <1>1, <2>2
<1>11. QED
  BY <1>1, <1>2, <1>4, <1>6, <1>7, <1>9, <1>10

LEMMA AscendingReturned ==
    ASSUME Types, BufferInOnePlace, Ascending,
           NEW n \in 0..Len(pending), NEW s, Returned(n, s),
           UNCHANGED <<queue, sent, calling>>
    PROVE  Ascending'
<1>1. /\ DOMAIN pending = 1..Len(pending) /\ Len(pending) \in Nat /\ n \in Nat
      /\ DOMAIN pending' = 1..(Len(pending) - n)
      /\ \A k \in DOMAIN pending' : pending'[k] = pending[k + n]
  BY ReturnedParts
<1>2. \A k \in DOMAIN pending' : k + n \in DOMAIN pending /\ k \in Nat
  BY <1>1
<1>3. ASSUME NEW j \in DOMAIN pending', NEW k \in DOMAIN pending', j < k
      PROVE  Earlier(calling[pending'[j]], calling[pending'[k]])
  <2>1. j + n < k + n
    BY <1>1, <1>2, <1>3
  <2>2. QED
    BY <1>1, <1>2, <2>1 DEF Ascending
<1>4. QED
  BY <1>3 DEF Ascending, InOrder, Rising, Precedes

LEMMA AscendingPurged ==
    ASSUME Ascending, PurgeQueue, UNCHANGED <<pending, sent, calling>>
    PROVE  Ascending'
BY DEF PurgeQueue, Ascending, InOrder, Rising, Precedes

LEMMA AscendingStays ==
    ASSUME Ascending, UNCHANGED <<queue, pending, sent, calling>>
    PROVE  Ascending'
BY DEF Ascending, InOrder, Rising, Precedes

LEMMA AscendingEnqueued ==
    ASSUME Types, TransfersRecorded, WriteInvariant, Ascending, Enqueue
    PROVE  Ascending'
<1>1. /\ queue' = Append(queue, accepted + 1)
      /\ UNCHANGED <<pending, sent, calling>>
  BY DEF Enqueue
<1>2. queue \in Seq(Nat) /\ accepted \in Nat /\ NONE \notin Nat
  BY WriteAssumption DEF WriteInvariant, WriteTypes
<1>3. /\ \A k \in DOMAIN sent : Earlier(sent[k].irp, accepted + 1)
      /\ \A k \in DOMAIN queue : queue[k] < accepted + 1
  BY <1>2, WritesAccepted DEF Earlier
<1>4. Rising(queue')
  BY <1>1, <1>2, <1>3, QueueRises DEF Ascending
<1>5. Precedes(sent, queue')
  <2>1. /\ DOMAIN queue = 1..Len(queue) /\ Len(queue) \in Nat
        /\ DOMAIN queue' = 1..(Len(queue) + 1)
        /\ queue'[Len(queue) + 1] = accepted + 1
        /\ \A i \in 1..Len(queue) : queue'[i] = queue[i]
    BY <1>1, <1>2, AppendProperties, LenProperties
  <2>2. \A k \in DOMAIN queue' :
            \/ k \in DOMAIN queue /\ queue'[k] = queue[k]
            \/ queue'[k] = accepted + 1
    BY <2>1
  <2>3. QED
    BY <1>3, <2>2 DEF Ascending, Precedes
<1>6. QED
  BY <1>1, <1>4, <1>5 DEF Ascending, InOrder, Rising, Precedes

LEMMA AscendingSubmitted ==
    ASSUME Types, BufferInOnePlace, TransfersRecorded, WriteInvariant, Ascending,
           HasWork, Submit
    PROVE  Ascending'
<1>. PICK b : b = Head(idle)
  OBVIOUS
<1>. PICK i : i = IF thread.zlp THEN NONE ELSE Head(queue)
  OBVIOUS
<1>1. /\ pending' = Append(pending, b) /\ calling' = [calling EXCEPT ![b] = i]
      /\ sent' = Append(sent, [irp |-> i, buf |-> b, returned |-> FALSE])
      /\ queue' = IF thread.zlp THEN queue ELSE Tail(queue)
      /\ idle # << >> /\ (thread.zlp \/ queue # << >>)
  BY DEF Submit, HasWork
<1>2. /\ b \in Bufs /\ ~Held(b) /\ queue \in Seq(Nat) /\ pending \in Seq(Bufs)
      /\ calling \in [Bufs -> Nat \cup {NONE}]
  BY <1>1, ListTail DEF Types, BufferInOnePlace, Held, WriteInvariant, WriteTypes
<1>3. /\ calling'[b] = i
      /\ \A c \in Bufs : c # b => calling'[c] = calling[c]
  BY <1>1, <1>2
<1>4. /\ DOMAIN queue = 1..Len(queue) /\ Len(queue) \in Nat
      /\ queue # << >> =>
            /\ Rising(Tail(queue)) /\ 1 \in DOMAIN queue /\ Head(queue) = queue[1]
            /\ \A k \in DOMAIN Tail(queue) :
                  /\ Head(queue) < Tail(queue)[k]
                  /\ k + 1 \in DOMAIN queue /\ Tail(queue)[k] = queue[k + 1]
  BY <1>2, QueueRises, LenProperties DEF Ascending
<1>5. /\ Rising(queue') /\ Precedes(sent, queue')
      /\ \A k \in DOMAIN queue' : Earlier(i, queue'[k])
      /\ \A k \in DOMAIN sent : Earlier(sent[k].irp, i)
  <2>1. CASE thread.zlp
    BY <1>1, <2>1 DEF Earlier, Ascending
  <2>2. CASE ~thread.zlp
    BY <1>1, <1>4, <2>2 DEF Earlier, Ascending, Precedes
  <2>3. QED
    BY <2>1, <2>2
<1>6. /\ DOMAIN sent = 1..Len(sent) /\ DOMAIN sent' = 1..(Len(sent) + 1)
      /\ Len(sent) \in Nat /\ \A k \in DOMAIN sent : sent'[k] = sent[k]
      /\ sent'[Len(sent) + 1] = [irp |-> i, buf |-> b, returned |-> FALSE]
  BY <1>1, SentAppend DEF Types
<1>7. InOrder(sent') /\ Precedes(sent', queue')
  <2>1. /\ sent'[Len(sent) + 1].irp = i
        /\ \A k \in DOMAIN sent' : k \in DOMAIN sent \/ k = Len(sent) + 1
        /\ \A k \in DOMAIN sent : ~(Len(sent) + 1 < k)
    BY <1>6
  <2>2. InOrder(sent')
    BY <1>5, <1>6, <2>1 DEF Ascending, InOrder
  <2>3. Precedes(sent', queue')
    BY <1>5, <1>6, <2>1 DEF Precedes
  <2>4. QED
    BY <2>2, <2>3
<1>8. /\ DOMAIN pending = 1..Len(pending) /\ Len(pending) \in Nat
      /\ DOMAIN pending' = 1..(Len(pending) + 1)
      /\ pending'[Len(pending) + 1] = b
      /\ \A k \in 1..Len(pending) : pending'[k] = pending[k]
  BY <1>1, <1>2, AppendProperties, LenProperties
<1>9. \A k \in DOMAIN pending : /\ calling'[pending[k]] = calling[pending[k]]
                                /\ Earlier(calling[pending[k]], i)
  <2>1. ASSUME NEW k \in DOMAIN pending
        PROVE  pending[k] \in Bufs /\ Held(pending[k])
    BY <1>2, <1>8, ElementOfSeq DEF Held, ToSet
  <2>2. QED
    BY <1>2, <1>3, <1>5, <2>1, WritesAccepted
<1>10. ASSUME NEW j \in DOMAIN pending', NEW k \in DOMAIN pending', j < k
       PROVE  Earlier(calling'[pending'[j]], calling'[pending'[k]])
  <2>1. j \in DOMAIN pending /\ (k \in DOMAIN pending \/ k = Len(pending) + 1)
    BY <1>8, <1>10
  <2>2. QED
    BY <1>3, <1>8, <1>9, <1>10, <2>1 DEF Ascending
<1>11. QED
  BY <1>5, <1>7, <1>10 DEF Ascending, InOrder, Rising, Precedes

(* What a completion does to the writes, by the state of the thread: in a  *)
(* flow-off the record of a transfer that failed is kept, and all that is  *)
(* kept goes back once every transfer is back.                             *)
LEMMA FinishParts ==
    ASSUME Types, FinishCompletion
    PROVE  LET b == Head(done)
               kept == RemoveAt(Marked(b), LastOf(b))
           IN  /\ calling' = [calling EXCEPT ![b] = NONE] /\ done' = Tail(done)
               /\ UNCHANGED <<pending, result, history, answered, accepted>>
               /\ \/ /\ thread.state # "FLOW_OFF" /\ thread'.state # "FLOW_OFF"
                     /\ sent' = kept /\ queue' = queue
                  \/ /\ thread.state = "FLOW_OFF"
                     /\ thread'.state = "FLOW_OFF" \/ sent' = << >>
                     /\ \E r : /\ \/ r = kept
                                  \/ r = Marked(b) /\ (present => result[b] # "ok")
                               /\ \/ sent' = r /\ queue' = queue
                                  \/ /\ AllReturned(b) /\ sent' = << >>
                                     /\ queue' = Requeue(r) \o queue
<1>. PICK b : b = Head(done)
  OBVIOUS
<1>. PICK status : status = IF present THEN result[b] ELSE "cxl"
  OBVIOUS
<1>. PICK kept : kept = RemoveAt(Marked(b), LastOf(b))
  OBVIOUS
<1>1. /\ calling' = [calling EXCEPT ![b] = NONE] /\ done' = Tail(done)
      /\ UNCHANGED <<pending, result, history, answered, accepted>>
      /\ \/ thread.state = "FLOW_OFF" /\ FinishFlowOff(b, status)
         \/ thread.state # "FLOW_OFF" /\ FinishWorking(b, status)
  BY DEF FinishCompletion
<1>2. CASE thread.state # "FLOW_OFF" /\ FinishWorking(b, status)
  <2>1. sent' = kept /\ queue' = queue
    BY <1>2 DEF FinishWorking
  <2>2. thread'.state # "FLOW_OFF"
    BY <1>2, FinishOutcome DEF Drains
  <2>3. QED
    BY <1>1, <1>2, <2>1, <2>2
<1>3. CASE thread.state = "FLOW_OFF" /\ FinishFlowOff(b, status)
  <2>. PICK r : r = IF status = "ok" THEN kept ELSE Marked(b)
    OBVIOUS
  <2>. PICK back \in BOOLEAN : back <=> AllReturned(b)
    OBVIOUS
  <2>1. /\ \/ r = kept
           \/ r = Marked(b) /\ (present => result[b] # "ok")
    OBVIOUS
  <2>2. /\ queue' = IF back THEN Requeue(r) \o queue ELSE queue
        /\ sent' = IF back THEN << >> ELSE r
    BY <1>3 DEF FinishFlowOff
  <2>3. thread'.state = "FLOW_OFF" \/ back \/ r = << >>
    <3>. DEFINE z == IF back /\ r # << >> /\ Head(r).irp = NONE THEN TRUE
                     ELSE thread.zlp
                w == IF back \/ r = << >> THEN "WORKING" ELSE thread.state
                t == [thread EXCEPT !.pc = "top", !.zlp = z, !.state = w]
    <3>1. IF status = "ok" THEN Answer(calling[b], status, t) ELSE thread' = t
      BY <1>3 DEF FinishFlowOff
    <3>2. z \in BOOLEAN /\ w \in {"FLOW_OFF", "WORKING"} /\ thread \in Threads
      BY <1>3 DEF Types, Threads
    <3>3. ~back /\ r # << >> => w = "FLOW_OFF"
      BY <1>3
    <3>. HIDE DEF z, w
    <3>4. t \in Threads /\ t.state = w
      BY <3>2 DEF Threads
    <3>. HIDE DEF t
    <3>5. thread'.state = w
      BY <3>1, <3>4, Answered
    <3>6. QED
      BY <3>3, <3>5
  <2>4. QED
    BY <1>1, <1>3, <2>1, <2>2, <2>3
<1>4. QED
  BY <1>1, <1>2, <1>3

(* The records that stay after a completion, and those that go back.       *)
LEMMA RecordsStay ==
    ASSUME Types, BufferInOnePlace, TransfersRecorded, WriteInvariant,
           FinishCompletion
    PROVE  LET b == Head(done)
               kept == RemoveAt(Marked(b), LastOf(b))
               m == Marked(b)
           IN  /\ b \in Bufs /\ b \in ToSet(done) /\ b \notin ToSet(pending)
               /\ ToSet(done') \subseteq ToSet(done) \ {b}
               /\ SentRecords(m) /\ SentRecords(kept) /\ DOMAIN m = DOMAIN sent
               /\ LastOf(b) \in DOMAIN sent
               /\ \A k \in DOMAIN sent : m[k].irp = sent[k].irp
               /\ \A k \in DOMAIN m :
                     \/ m[k].returned <=> sent[k].returned
                     \/ m[k].irp = calling[b]
               /\ \A j \in DOMAIN kept : \E k \in DOMAIN sent :
                     /\ kept[j].irp = sent[k].irp
                     /\ kept[j].returned <=> sent[k].returned
               /\ AllReturned(b) =>
                     /\ \A k \in DOMAIN m : m[k].returned
                     /\ \A j \in DOMAIN kept : kept[j].returned
<1>. PICK b : b = Head(done)
  OBVIOUS
<1>. PICK m : m = Marked(b)
  OBVIOUS
<1>. PICK l : l = LastOf(b)
  OBVIOUS
<1>. PICK kept : kept = RemoveAt(m, l)
  OBVIOUS
<1>1. done # << >> /\ done' = Tail(done)
  BY DEF FinishCompletion, BufferInOnePlace
<1>2. /\ b \in Bufs /\ b \in ToSet(done) /\ b \notin ToSet(pending)
      /\ ToSet(done') \subseteq ToSet(done) \ {b} /\ Held(b)
  BY <1>1, ListTail DEF Types, BufferInOnePlace, Held
<1>3. /\ DOMAIN m = DOMAIN sent
      /\ \A k \in DOMAIN sent : m[k].irp = sent[k].irp
      /\ \A k \in DOMAIN sent : m[k].returned <=> sent[k].returned \/ k = l
      /\ l \in DOMAIN sent /\ ~sent[l].returned /\ sent[l].irp = calling[b]
  BY <1>2, MarkedKeeps DEF Types, WriteInvariant
<1>4. /\ SentRecords(m)
      /\ \A k \in DOMAIN sent : sent[k].buf = b => m[k].returned
  BY RecordsMarked DEF Types
<1>5. SentRecords(kept) /\ \A j \in DOMAIN kept : \E k \in DOMAIN m : kept[j] = m[k]
  BY <1>3, <1>4, RecordRemoved
<1>6. \A j \in DOMAIN kept : Skip(l, j) \in DOMAIN m \ {l} /\ kept[j] = m[Skip(l, j)]
  BY <1>3, <1>4, RemovedFrom
<1>7. \A j \in DOMAIN kept : \E k \in DOMAIN sent :
          /\ kept[j].irp = sent[k].irp
          /\ kept[j].returned <=> sent[k].returned
  BY <1>3, <1>6
<1>8. AllReturned(b) => \A k \in DOMAIN m : m[k].returned
  BY <1>3, <1>4 DEF AllReturned
<1>9. QED
  BY <1>2, <1>3, <1>4, <1>5, <1>7, <1>8

LEMMA AscendingFinished ==
    ASSUME Types, BufferInOnePlace, TransfersRecorded, WriteInvariant, Ascending,
           FinishCompletion
    PROVE  Ascending'
<1>. PICK b : b = Head(done)
  OBVIOUS
<1>. PICK m : m = Marked(b)
  OBVIOUS
<1>. PICK kept : kept = RemoveAt(m, LastOf(b))
  OBVIOUS
<1>1. /\ calling' = [calling EXCEPT ![b] = NONE] /\ UNCHANGED pending
      /\ \/ sent' = kept /\ queue' = queue
         \/ sent' = m /\ queue' = queue
         \/ sent' = << >> /\ queue' = Requeue(kept) \o queue
         \/ sent' = << >> /\ queue' = Requeue(m) \o queue
  BY FinishParts
<1>2. /\ b \in Bufs /\ b \notin ToSet(pending)
      /\ SentRecords(m) /\ SentRecords(kept) /\ DOMAIN m = DOMAIN sent
      /\ LastOf(b) \in DOMAIN sent
      /\ \A k \in DOMAIN sent : m[k].irp = sent[k].irp
      /\ \A j \in DOMAIN kept : \E k \in DOMAIN sent : kept[j].irp = sent[k].irp
  BY RecordsStay
<1>3. InOrder(sent) /\ Precedes(sent, queue) /\ Rising(queue)
  BY DEF Ascending
<1>4. /\ InOrder(kept) /\ Precedes(kept, queue)
      /\ InOrder(m) /\ Precedes(m, queue)
  BY <1>2, <1>3, RemovedInOrder DEF Types
<1>5. /\ queue \in Seq(Nat)
      /\ \A k \in DOMAIN sent : sent[k].irp \in Nat \cup {NONE}
      /\ calling \in [Bufs -> Nat \cup {NONE}]
  BY DEF WriteInvariant, WriteTypes
<1>6. Rising(Requeue(kept) \o queue) /\ Rising(Requeue(m) \o queue)
  <2>1. /\ \A k \in DOMAIN kept : kept[k].irp \in Nat \cup {NONE}
        /\ \A k \in DOMAIN m : m[k].irp \in Nat \cup {NONE}
    BY <1>2, <1>5
  <2>2. QED
    BY <1>2, <1>3, <1>4, <1>5, <2>1, RequeuedInOrder
<1>7. InOrder(<< >>) /\ \A q : Precedes(<< >>, q)
  BY DEF InOrder, Precedes
<1>8. InOrder(sent') /\ Rising(queue') /\ Precedes(sent', queue')
  BY <1>1, <1>3, <1>4, <1>6, <1>7
<1>9. ASSUME NEW j \in DOMAIN pending', NEW k \in DOMAIN pending', j < k
      PROVE  Earlier(calling'[pending'[j]], calling'[pending'[k]])
  <2>1. \A i \in DOMAIN pending : pending[i] \in Bufs /\ pending[i] # b
    BY <1>2, ElementOfSeq, LenProperties DEF ToSet, Types
  <2>2. \A i \in DOMAIN pending : calling'[pending[i]] = calling[pending[i]]
    BY <1>1, <1>5, <2>1
  <2>3. QED
    BY <1>1, <1>9, <2>2 DEF Ascending
<1>10. QED
  BY <1>8, <1>9 DEF Ascending, InOrder, Rising, Precedes

LEMMA AscendingStep ==
    ASSUME Types, BufferInOnePlace, TransfersRecorded, WriteInvariant, Ascending,
           Next
    PROVE  Ascending'
<1>1. ASSUME AbortOutput, UNCHANGED <<queue, sent, calling>>
      PROVE  Ascending'
  <2>1. Len(pending) \in 0..Len(pending)
    BY LenProperties DEF Types
  <2>2. \E s : Returned(Len(pending), s)
    BY <1>1 DEF AbortOutput
  <2>3. QED
    BY <1>1, <2>1, <2>2, AscendingReturned
<1>2. CASE BusComplete
  <2>1. 1 \in 0..Len(pending)
    BY <1>2, EmptySeq, LenProperties DEF BusComplete, Types
  <2>2. \E s : Returned(1, s)
    BY <1>2 DEF BusComplete
  <2>3. UNCHANGED <<queue, sent, calling>>
    BY <1>2 DEF BusComplete
  <2>4. QED
    BY <2>1, <2>2, <2>3, AscendingReturned
<1>3. CASE CleanupAbort
  BY <1>1, <1>3 DEF CleanupAbort
<1>4. CASE FlowOffEvent
  <2>1. UNCHANGED <<queue, sent, calling>>
    BY <1>4 DEF FlowOffEvent
  <2>2. AbortOutput \/ UNCHANGED pending
    BY <1>4 DEF FlowOffEvent
  <2>3. QED
    BY <1>1, <2>1, <2>2, AscendingStays
<1>5. CASE ThreadTop
  <2>1. UNCHANGED <<pending, calling, sent>>
    BY <1>5 DEF ThreadTop
  <2>2. PurgeQueue \/ UNCHANGED queue
    BY <1>5 DEF ThreadTop
  <2>3. QED
    BY <2>1, <2>2, AscendingPurged, AscendingStays
<1>6. CASE ThreadSend
  <2>1. CASE HasWork /\ Submit
    BY <2>1, AscendingSubmitted
  <2>2. CASE PurgeQueue /\ UNCHANGED <<pending, calling, sent>>
    BY <2>2, AscendingPurged
  <2>3. CASE UNCHANGED <<queue, pending, calling, sent>>
    BY <2>3, AscendingStays
  <2>4. QED
    BY <1>6, <2>1, <2>2, <2>3 DEF ThreadSend
<1>7. CASE FinishCompletion
  BY <1>7, AscendingFinished
<1>8. CASE Enqueue
  BY <1>8, AscendingEnqueued
<1>9. CASE CloseDone
  BY <1>9, AscendingPurged DEF CloseDone
<1>10. CASE \/ ThreadExit \/ CancelEvent \/ PurgeEvent \/ StopEvent
            \/ KickEvent \/ ResumeEvent \/ FlowOnEvent \/ PeekCompletion
  BY <1>10, AscendingStays
  DEF ThreadExit, CancelEvent, PurgeEvent, StopEvent, KickEvent, ResumeEvent,
      FlowOnEvent, PeekCompletion, Quiet, queues
<1>11. CASE \/ StartWrite \/ Standby \/ StandbyStop \/ Wakeup \/ WakeupResume
            \/ FlowOff \/ FlowOffTimeout \/ FlowOn \/ CleanupPurge
            \/ SurpriseRemoval \/ Close \/ EmptyCompletionQueue
  BY <1>11, AscendingStays
  DEF StartWrite, Standby, StandbyStop, Wakeup, WakeupResume, FlowOff,
      FlowOffTimeout, FlowOn, CleanupPurge, SurpriseRemoval, Close,
      EmptyCompletionQueue, Announces, Others, queues
<1>12. QED
  BY <1>2, <1>3, <1>4, <1>5, <1>6, <1>7, <1>8, <1>9, <1>10, <1>11
  DEF Next, Thread

(* A flow-off keeps the bus free of transfers until its answer.            *)
LEMMA FlowOffQuietKept ==
    ASSUME Types, BufferInOnePlace, TransfersRecorded, WriteInvariant,
           FlowOffQuiet, Next
    PROVE  FlowOffQuiet'
<1>1. thread \in Threads /\ thread' \in Threads /\ stale \in BOOLEAN
  BY ThreadTyped DEF Types
<1>2. SUFFICES ASSUME ~stale'
               PROVE  IF thread'.state = "FLOW_OFF"
                      THEN /\ pending' = << >> /\ ~thread'.flowOn
                           /\ "flowOn" \notin ev' /\ ~At("send")'
                      ELSE \A k \in DOMAIN sent' : ~sent'[k].returned
  BY DEF FlowOffQuiet
<1>3. ~stale
  BY <1>2, ReasonsStay
<1>4. IF thread.state = "FLOW_OFF"
      THEN pending = << >> /\ ~thread.flowOn /\ "flowOn" \notin ev /\ ~At("send")
      ELSE \A k \in DOMAIN sent : ~sent[k].returned
  BY <1>3 DEF FlowOffQuiet
<1>5. ASSUME AbortOutput PROVE pending' = << >>
  <2>1. Len(pending) \in 0..Len(pending) /\ Len(pending) \in Nat
    BY LenProperties DEF Types
  <2>2. PICK s : Returned(Len(pending), s)
    BY <1>5 DEF AbortOutput
  <2>3. pending' = SubSeq(pending, Len(pending) + 1, Len(pending))
    BY <2>2 DEF Returned
  <2>4. QED
    BY <2>1, <2>3, SubSeqEmpty
<1>6. CASE /\ thread'.state = thread.state /\ thread'.flowOn = thread.flowOn
           /\ pending' = pending \/ pending # << >> \/ pending' = << >>
           /\ "flowOn" \in ev' => "flowOn" \in ev
           /\ At("send")' => At("send") \/ thread.flowOn
           /\ UNCHANGED sent
  BY <1>4, <1>6
<1>7. CASE FinishCompletion
  <2>. PICK b : b = Head(done)
    OBVIOUS
  <2>. PICK kept : kept = RemoveAt(Marked(b), LastOf(b))
    OBVIOUS
  <2>1. /\ UNCHANGED pending
        /\ \/ /\ thread.state # "FLOW_OFF" /\ thread'.state # "FLOW_OFF"
              /\ sent' = kept
           \/ /\ thread.state = "FLOW_OFF"
              /\ thread'.state = "FLOW_OFF" \/ sent' = << >>
    BY <1>7, FinishParts
  <2>2. /\ thread'.flowOn = thread.flowOn /\ thread'.pc # "send"
        /\ ev' = ev \/ ev' = ev \cup {"stop"}
    BY <1>7, FinishOutcome
  <2>3. \A j \in DOMAIN kept : \E k \in DOMAIN sent :
            kept[j].returned <=> sent[k].returned
    BY <1>7, RecordsStay
  <2>4. QED
    BY <1>4, <2>1, <2>2, <2>3 DEF At
<1>8. CASE FlowOffEvent
  <2>1. UNCHANGED sent
    BY <1>8 DEF FlowOffEvent
  <2>2. /\ thread'.pc = "top" /\ ~thread'.flowOn
        /\ thread'.state = thread.state \/ thread'.state = "FLOW_OFF"
    BY <1>1, <1>8 DEF FlowOffEvent, Threads
  <2>3. "flowOn" \notin ev'
    BY <1>8, WakesInOrder DEF FlowOffEvent, Wakes
  <2>4. thread'.state = "FLOW_OFF" => pending' = << >>
    <3>1. CASE highSpeed
      <4>1. UNCHANGED pending /\ thread'.state = thread.state
        BY <1>1, <1>8, <3>1 DEF FlowOffEvent, Threads
      <4>2. QED
        BY <1>4, <4>1
    <3>2. CASE ~highSpeed
      <4>1. \/ pending = << >> /\ UNCHANGED pending
            \/ AbortOutput
        BY <1>8, <3>2 DEF FlowOffEvent
      <4>2. QED
        BY <1>5, <4>1
    <3>3. QED
      BY <3>1, <3>2
  <2>5. QED
    BY <1>4, <2>1, <2>2, <2>3, <2>4 DEF At
<1>9. CASE CancelEvent \/ StopEvent \/ PurgeEvent
  <2>1. /\ thread'.flowOn = thread.flowOn
        /\ IF pending = << >>
           THEN thread'.pc = "top" /\ thread'.state = thread.state
           ELSE thread'.pc = "wait" /\ thread'.state \in Drains
        /\ UNCHANGED pending
    BY <1>9, EventOutcome DEF DrainOutcome, Drains
  <2>2. ("flowOn" \in ev' => "flowOn" \in ev) /\ UNCHANGED sent
    BY <1>9 DEF CancelEvent, StopEvent, PurgeEvent, Wakes, Quiet
  <2>3. QED
    BY <1>4, <2>1, <2>2 DEF At, Drains
<1>10. CASE FlowOnEvent
  <2>1. "flowOn" \in ev /\ UNCHANGED sent /\ thread'.state = thread.state
    BY <1>1, <1>10 DEF FlowOnEvent, Wakes, Quiet, Threads
  <2>2. QED
    BY <1>4, <2>1
<1>11. CASE ThreadTop
  <2>1. /\ thread'.state = thread.state /\ thread'.flowOn = thread.flowOn
        /\ thread'.pc = "send" => thread.flowOn
    BY <1>1, <1>11 DEF ThreadTop, Threads
  <2>2. UNCHANGED <<pending, sent, ev>>
    BY <1>11 DEF ThreadTop
  <2>3. QED
    BY <1>6, <2>1, <2>2 DEF At
<1>12. CASE ThreadSend
  <2>1. /\ thread.state # "FLOW_OFF" /\ \A k \in DOMAIN sent : ~sent[k].returned
    BY <1>4, <1>12 DEF ThreadSend
  <2>2. thread'.state = thread.state
    BY <1>1, <1>12 DEF ThreadSend, Submit, Threads
  <2>3. \A k \in DOMAIN sent' : ~sent'[k].returned
    <3>1. CASE UNCHANGED sent
      BY <2>1, <3>1
    <3>2. CASE Submit
      <4>1. PICK i, b : sent' = Append(sent, [irp |-> i, buf |-> b, returned |-> FALSE])
        BY <3>2 DEF Submit
      <4>2. /\ DOMAIN sent = 1..Len(sent) /\ DOMAIN sent' = 1..(Len(sent) + 1)
            /\ Len(sent) \in Nat /\ \A k \in DOMAIN sent : sent'[k] = sent[k]
            /\ sent'[Len(sent) + 1] = [irp |-> i, buf |-> b, returned |-> FALSE]
        BY <4>1, SentAppend DEF Types
      <4>3. QED
        BY <2>1, <4>2
    <3>3. QED
      BY <1>12, <3>1, <3>2, SubmitWhere
  <2>4. QED
    BY <2>1, <2>2, <2>3
<1>13. CASE ThreadExit \/ KickEvent \/ PeekCompletion \/ ResumeEvent
  <2>1. /\ thread'.state = thread.state /\ thread'.flowOn = thread.flowOn
        /\ thread'.pc # "send"
    BY <1>1, <1>13 DEF ThreadExit, KickEvent, PeekCompletion, ResumeEvent, Threads
  <2>2. UNCHANGED <<pending, sent>> /\ ("flowOn" \in ev' => "flowOn" \in ev)
    BY <1>13
    DEF ThreadExit, KickEvent, PeekCompletion, ResumeEvent, Wakes, Quiet, queues
  <2>3. QED
    BY <1>6, <2>1, <2>2 DEF At
<1>14. CASE ~Thread
  <2>1. thread' = thread /\ UNCHANGED sent
    BY <1>14, OthersStay
  <2>2. CASE FlowOn
    <3>1. thread.state # "FLOW_OFF"
      BY <1>2, <2>2 DEF FlowOn, Announces
    <3>2. QED
      BY <1>4, <2>1, <3>1
  <2>3. CASE BusComplete
    <3>1. pending # << >> /\ UNCHANGED ev
      BY <2>3 DEF BusComplete
    <3>2. QED
      BY <1>6, <2>1, <3>1 DEF At
  <2>4. CASE CleanupAbort
    <3>1. pending' = << >> /\ UNCHANGED ev
      BY <1>5, <2>4 DEF CleanupAbort
    <3>2. QED
      BY <1>6, <2>1, <3>1 DEF At
  <2>5. CASE \/ StartWrite \/ Enqueue \/ Standby \/ StandbyStop \/ Wakeup
             \/ WakeupResume \/ EmptyCompletionQueue \/ FlowOff
             \/ FlowOffTimeout \/ CleanupPurge \/ SurpriseRemoval \/ Close
             \/ CloseDone
    <3>1. UNCHANGED pending /\ ("flowOn" \in ev' => "flowOn" \in ev)
      BY <2>5
      DEF StartWrite, Enqueue, Standby, StandbyStop, Wakeup, WakeupResume,
          EmptyCompletionQueue, FlowOff, FlowOffTimeout, CleanupPurge,
          SurpriseRemoval, Close, CloseDone, SetStopState, Announces, Others,
          queues
    <3>2. QED
      BY <1>6, <2>1, <3>1 DEF At
  <2>6. QED
    BY <1>14, <2>2, <2>3, <2>4, <2>5 DEF Next
<1>15. QED
  BY <1>7, <1>8, <1>9, <1>10, <1>11, <1>12, <1>13, <1>14 DEF Thread

(* What the device receives when the n oldest transfers come back is what  *)
(* those that were served carry, in the order they were sent in.           *)
Serves(t, n, s) ==
    \A i \in DOMAIN t : t[i] # NONE /\ \E k \in 1..n :
        t[i] = calling[pending[k]] /\ s[pending[k]] = "ok"

LEMMA DeliveredMore ==
    ASSUME Types, BufferInOnePlace, TransfersRecorded, WriteInvariant, Ascending,
           NEW n \in 0..Len(pending), NEW s, Returned(n, s)
    PROVE  \E t \in Seq(Nat) :
              delivered' = delivered \o t /\ Rising(t) /\ Serves(t, n, s)
<1>. DEFINE part == SubSeq(pending, 1, n)
            u == [k \in 1..n |-> IF s[part[k]] = "ok" THEN calling[part[k]] ELSE NONE]
            t == Irps(u)
<1>1. delivered' = delivered \o t
  BY DEF Returned
<1>2. /\ DOMAIN pending = 1..Len(pending) /\ Len(pending) \in Nat /\ n \in Nat
      /\ \A k \in DOMAIN pending : pending[k] \in Bufs
  BY ReturnedParts
<1>3. \A k \in 1..n : part[k] = pending[k]
  BY ListCut DEF Types
<1>4. DOMAIN u = 1..n /\ \A k \in 1..n : u[k] = IF s[pending[k]] = "ok"
                                                THEN calling[pending[k]] ELSE NONE
  BY <1>3
<1>5. calling \in [Bufs -> Nat \cup {NONE}] /\ \A k \in 1..n : k \in DOMAIN pending
  BY <1>2 DEF WriteInvariant, WriteTypes
<1>6. u \in [1..n -> Nat \cup {NONE}]
  BY <1>2, <1>3, <1>5
<1>. HIDE DEF u
<1>7. u \in Seq(Nat \cup {NONE})
  BY <1>2, <1>6, IsASeq
<1>8. \A j, k \in DOMAIN u : j < k => Earlier(u[j], u[k])
  BY <1>4, <1>5 DEF Earlier, Ascending
<1>9. /\ t \in Seq(Nat) /\ Rising(t)
      /\ \A i \in DOMAIN t : t[i] # NONE /\ \E k \in DOMAIN u : t[i] = u[k]
  BY <1>7, <1>8, IrpsRise
<1>. HIDE DEF t
<1>10. ASSUME NEW k \in 1..n, u[k] # NONE
       PROVE  s[pending[k]] = "ok" /\ u[k] = calling[pending[k]]
  BY <1>4, <1>10
<1>11. Serves(t, n, s)
  BY <1>4, <1>9, <1>10 DEF Serves
<1>12. QED
  BY <1>1, <1>9, <1>11

LEMMA DeliveredReturned ==
    ASSUME Types, BufferInOnePlace, TransfersRecorded, WriteInvariant, Ascending,
           delivered \in Seq(Nat), ToSet(delivered) \subseteq 1..accepted,
           NEW n \in 0..Len(pending), NEW s, Returned(n, s), UNCHANGED calling
    PROVE  /\ delivered' \in Seq(Nat) /\ ToSet(delivered') \subseteq 1..accepted
           /\ \A d \in ToSet(delivered') :
                 \/ d \in ToSet(delivered)
                 \/ d # NONE /\ \E k \in 1..n :
                       d = calling[pending[k]] /\ s[pending[k]] = "ok"
           /\ Rising(delivered)
              /\ (\A d \in ToSet(delivered), b \in ToSet(pending) : Earlier(d, calling[b]))
                 => /\ Rising(delivered')
                    /\ \A d \in ToSet(delivered'), b \in ToSet(pending') :
                          Earlier(d, calling'[b])
<1>0. PICK t \in Seq(Nat) :
          delivered' = delivered \o t /\ Rising(t) /\ Serves(t, n, s)
  BY DeliveredMore
<1>1. /\ delivered' = delivered \o t /\ Rising(t)
      /\ \A i \in DOMAIN t : t[i] # NONE /\ \E k \in 1..n :
            t[i] = calling[pending[k]] /\ s[pending[k]] = "ok"
  BY <1>0 DEF Serves
<1>2. /\ DOMAIN pending = 1..Len(pending) /\ Len(pending) \in Nat /\ n \in Nat
      /\ DOMAIN pending' = 1..(Len(pending) - n)
      /\ \A k \in DOMAIN pending' : pending'[k] = pending[k + n]
      /\ \A k \in DOMAIN pending : pending[k] \in Bufs /\ Held(pending[k])
  BY ReturnedParts
<1>3. \A k \in 1..n : k \in DOMAIN pending
  BY <1>2
<1>4. ASSUME NEW i \in DOMAIN t PROVE t[i] \in 1..accepted
  <2>1. PICK k \in 1..n : t[i] = calling[pending[k]]
    BY <1>1
  <2>2. pending[k] \in Bufs /\ Held(pending[k]) /\ t[i] # NONE
    BY <1>1, <1>2, <1>3
  <2>3. calling[pending[k]] \in (1..accepted) \cup {NONE}
    BY <2>2, WritesAccepted, Zenon
  <2>4. QED
    BY <2>1, <2>2, <2>3
<1>5. delivered' \in Seq(Nat) /\ ToSet(delivered') = ToSet(delivered) \cup ToSet(t)
  <2>1. delivered \in Seq(Nat) /\ t \in Seq(Nat)
    OBVIOUS
  <2>2. /\ delivered \o t \in Seq(Nat)
        /\ ToSet(delivered \o t) = ToSet(delivered) \cup ToSet(t)
    BY <2>1, ListConcat
  <2>3. QED
    BY <1>1, <2>2, Zenon
<1>6. ToSet(t) \subseteq 1..accepted
  BY <1>4 DEF ToSet
<1>7. \A d \in ToSet(t) : d # NONE /\ \E k \in 1..n :
          d = calling[pending[k]] /\ s[pending[k]] = "ok"
  <2>1. ASSUME NEW d \in ToSet(t)
        PROVE  d # NONE /\ \E k \in 1..n :
                   d = calling[pending[k]] /\ s[pending[k]] = "ok"
    <3>1. PICK i \in DOMAIN t : d = t[i]
      BY DEF ToSet
    <3>2. PICK k \in 1..n : t[i] = calling[pending[k]] /\ s[pending[k]] = "ok"
      BY <1>1
    <3>3. t[i] # NONE
      BY <1>1
    <3>4. QED
      BY <3>1, <3>2, <3>3
  <2>2. QED
    BY <2>1
<1>8. ASSUME Rising(delivered),
             \A d \in ToSet(delivered), b \in ToSet(pending) : Earlier(d, calling[b])
      PROVE  /\ Rising(delivered')
             /\ \A d \in ToSet(delivered'), b \in ToSet(pending') :
                   Earlier(d, calling'[b])
  <2>1. \A k \in DOMAIN pending : pending[k] \in ToSet(pending)
    BY DEF ToSet
  <2>2. NONE \notin Nat /\ \A j \in DOMAIN delivered : delivered[j] \in Nat
                                                       /\ delivered[j] \in ToSet(delivered)
    BY WriteAssumption, ElementOfSeq, LenProperties DEF ToSet
  <2>3. \A j \in DOMAIN delivered, i \in DOMAIN t : delivered[j] < t[i]
    BY <1>1, <1>3, <1>8, <2>1, <2>2 DEF Earlier
  <2>4. Rising(delivered')
    BY <1>1, <1>8, <2>3, JoinRises
  <2>5. ASSUME NEW d \in ToSet(delivered'), NEW j \in DOMAIN pending'
        PROVE  Earlier(d, calling[pending'[j]])
    <3>1. j + n \in DOMAIN pending /\ pending'[j] = pending[j + n] /\ j \in Nat /\ j > 0
      BY <1>2
    <3>2. CASE d \in ToSet(delivered)
      BY <1>8, <2>1, <3>1, <3>2
    <3>3. CASE d \in ToSet(t)
      <4>1. PICK k \in 1..n : d = calling[pending[k]]
        BY <1>7, <3>3
      <4>2. k < j + n /\ k \in DOMAIN pending
        BY <1>2, <1>3, <3>1
      <4>3. QED
        BY <3>1, <4>1, <4>2 DEF Ascending
    <3>4. QED
      BY <1>5, <3>2, <3>3
  <2>6. QED
    BY <2>4, <2>5 DEF ToSet
<1>9. QED
  BY <1>5, <1>6, <1>7, <1>8

(* The device has received nothing newer than what is left, when transfers *)
(* come back.                                                              *)
LEMMA ServedReturned ==
    ASSUME Types, BufferInOnePlace, TransfersRecorded, WriteInvariant, Ascending,
           Served, delivered \in Seq(Nat), ToSet(delivered) \subseteq 1..accepted,
           NEW n \in 0..Len(pending), NEW s, Returned(n, s),
           UNCHANGED <<calling, queue>>,
           ~stale' => ~stale, ~resent' => ~resent, present' => present,
           ~stale' /\ ~resent' /\ present' /\ thread'.state = "FLOW_OFF"
              => \A d \in ToSet(delivered') : Unserved(d)'
    PROVE  Served'
<1>. SUFFICES ASSUME ~stale', ~resent' PROVE Served'
  BY DEF Served
<1>1. /\ Rising(delivered)
      /\ \A d \in ToSet(delivered) :
            /\ \A b \in ToSet(pending) : Earlier(d, calling[b])
            /\ present => \A i \in ToSet(queue) : d < i
  BY DEF Served
<1>2. /\ Rising(delivered')
      /\ \A d \in ToSet(delivered'), b \in ToSet(pending') : Earlier(d, calling'[b])
  BY <1>1, DeliveredReturned
<1>3. ASSUME NEW d \in ToSet(delivered'), present', NEW i \in ToSet(queue)
      PROVE  d < i
  <2>1. CASE d \in ToSet(delivered)
    BY <1>1, <1>3, <2>1
  <2>2. CASE d \notin ToSet(delivered)
    <3>1. PICK k \in 1..n : d # NONE /\ d = calling[pending[k]]
      BY <2>2, DeliveredReturned
    <3>2. pending[k] \in Bufs /\ Held(pending[k])
      BY ReturnedParts
    <3>3. PICK j \in DOMAIN sent : sent[j].irp = d
      BY <3>1, <3>2, WritesAccepted
    <3>4. PICK m \in DOMAIN queue : queue[m] = i
      BY DEF ToSet
    <3>5. Earlier(d, i)
      BY <3>3, <3>4 DEF Ascending, Precedes
    <3>6. i # NONE
      BY <3>4, WritesAccepted, WriteAssumption DEF WriteInvariant, WriteTypes
    <3>7. QED
      BY <3>1, <3>5, <3>6 DEF Earlier
  <2>3. QED
    BY <2>1, <2>2
<1>4. QED
  BY <1>2, <1>3 DEF Served, Rising

LEMMA FlowOffEntered ==
    ASSUME Types, Next, thread'.state = "FLOW_OFF", ~FlowOffEvent
    PROVE  thread.state = "FLOW_OFF"
<1>1. thread \in Threads
  BY DEF Types
<1>2. CASE ThreadTop \/ ThreadSend \/ ThreadExit \/ KickEvent \/ ResumeEvent
           \/ FlowOnEvent \/ PeekCompletion
  BY <1>1, <1>2
  DEF ThreadTop, ThreadSend, Submit, ThreadExit, KickEvent, ResumeEvent,
      FlowOnEvent, PeekCompletion, Threads
<1>3. CASE CancelEvent \/ StopEvent \/ PurgeEvent
  BY <1>3, EventOutcome DEF DrainOutcome
<1>4. CASE FinishCompletion
  BY <1>4, FinishParts
<1>5. CASE ~Thread
  BY <1>5, OthersStay
<1>6. QED
  BY <1>2, <1>3, <1>4, <1>5 DEF Thread

LEMMA ServedStays ==
    ASSUME Served, UNCHANGED <<delivered, pending, done, calling, result, sent>>,
           ToSet(queue') \subseteq ToSet(queue),
           ~stale' => ~stale, ~resent' => ~resent, present' => present,
           thread'.state = "FLOW_OFF" => thread.state = "FLOW_OFF"
    PROVE  Served'
<1>. SUFFICES ASSUME ~stale', ~resent' PROVE Served'
  BY DEF Served
<1>1. /\ Rising(delivered)
      /\ \A d \in ToSet(delivered) :
            /\ \A b \in ToSet(pending) : Earlier(d, calling[b])
            /\ present => \A i \in ToSet(queue) : d < i
            /\ present /\ thread.state = "FLOW_OFF" => Unserved(d)
  BY DEF Served
<1>2. \A d : Unserved(d)' <=> Unserved(d)
  BY DEF Unserved
<1>3. QED
  BY <1>1, <1>2 DEF Served, Rising

(* The transfers an abort cancels are those behind the ones it lets end.   *)
LEMMA AbortOrdered ==
    ASSUME Types, BufferInOnePlace, AbortOutput
    PROVE  \E s : /\ Returned(Len(pending), s)
                  /\ \E n \in 0..Len(pending) : \A k \in 1..Len(pending) :
                        s[pending[k]] = "ok" <=> k <= n
<1>1. PICK n \in 0..Len(pending) :
          Returned(Len(pending),
              [b \in Bufs |-> IF b \in ToSet(SubSeq(pending, 1, n)) THEN "ok" ELSE "cxl"])
  BY DEF AbortOutput
<1>. DEFINE part == SubSeq(pending, 1, n)
            s == [b \in Bufs |-> IF b \in ToSet(part) THEN "ok" ELSE "cxl"]
<1>2. /\ DOMAIN pending = 1..Len(pending) /\ Len(pending) \in Nat /\ n \in Nat
      /\ \A k \in DOMAIN pending : pending[k] \in Bufs
  BY ElementOfSeq, LenProperties DEF Types
<1>3. part \in Seq(Bufs) /\ Len(part) = n /\ \A k \in 1..n : part[k] = pending[k]
  BY ListCut DEF Types
<1>4. DOMAIN part = 1..n
  BY <1>3, LenProperties
<1>. HIDE DEF part
<1>5. ASSUME NEW k \in 1..Len(pending)
      PROVE  s[pending[k]] = "ok" <=> k <= n
  <2>1. s[pending[k]] = "ok" <=> pending[k] \in ToSet(part)
    BY <1>2
  <2>2. k <= n => pending[k] \in ToSet(part)
    BY <1>2, <1>3, <1>4 DEF ToSet
  <2>3. ASSUME pending[k] \in ToSet(part) PROVE k <= n
    <3>1. PICK j \in 1..n : pending[k] = part[j]
      BY <1>4, <2>3 DEF ToSet
    <3>2. j \in DOMAIN pending /\ pending[k] = pending[j]
      BY <1>2, <1>3, <3>1
    <3>3. k = j
      BY <1>2, <3>2 DEF BufferInOnePlace, IsInjective
    <3>4. QED
      BY <1>2, <3>3
  <2>4. QED
    BY <2>1, <2>2, <2>3
<1>6. Returned(Len(pending), s)
  BY <1>1 DEF part
<1>. HIDE DEF s
<1>7. QED
  BY <1>5, <1>6

(* A flow-off that aborts the pipe: what it cancels is newer than all that *)
(* was served.                                                             *)
LEMMA ServedAborted ==
    ASSUME Types, BufferInOnePlace, TransfersRecorded, WriteInvariant, Ascending,
           FlowOffQuiet, Served, delivered \in Seq(Nat),
           ToSet(delivered) \subseteq 1..accepted, thread.state # "FLOW_OFF",
           FlowOffEvent, AbortOutput, ~highSpeed
    PROVE  Served'
<1>1. PICK s : /\ Returned(Len(pending), s)
               /\ \E n \in 0..Len(pending) : \A k \in 1..Len(pending) :
                     s[pending[k]] = "ok" <=> k <= n
  BY AbortOrdered
<1>2. PICK n \in 0..Len(pending) : \A k \in 1..Len(pending) :
          s[pending[k]] = "ok" <=> k <= n
  BY <1>1
<1>3. Len(pending) \in 0..Len(pending)
  BY LenProperties DEF Types
<1>4. /\ UNCHANGED <<queue, calling, sent, stale, device>>
      /\ resent' = (resent \/ \E b \in ToSet(done) : result[b] # "ok")
  BY DEF FlowOffEvent
<1>5. ASSUME ~stale', ~resent', NEW d \in ToSet(delivered')
      PROVE  Unserved(d)'
  <2>1. /\ ~stale /\ ~resent /\ \A b \in ToSet(done) : result[b] = "ok"
    BY <1>4, <1>5
  <2>2. \A k \in DOMAIN sent' : ~sent'[k].returned
    BY <1>4, <2>1 DEF FlowOffQuiet
  <2>3. ASSUME NEW b \in ToSet(done'), result'[b] # "ok"
        PROVE  Earlier(d, calling[b])
    <3>1. PICK k \in 1..Len(pending) : b = pending[k] /\ result'[b] = s[b]
      BY <1>1, <1>3, <2>1, <2>3, ReturnedParts
    <3>2. DOMAIN pending = 1..Len(pending) /\ Len(pending) \in Nat
      BY LenProperties DEF Types
    <3>3. ~(k <= n)
      BY <1>2, <2>3, <3>1
    <3>4. CASE d \in ToSet(delivered)
      BY <2>1, <3>1, <3>2, <3>4 DEF Served, ToSet
    <3>5. CASE d \notin ToSet(delivered)
      <4>1. PICK j \in 1..Len(pending) : d = calling[pending[j]] /\ s[pending[j]] = "ok"
        BY <1>1, <1>3, <1>4, <3>5, DeliveredReturned
      <4>2. j < k
        BY <1>2, <3>2, <3>3, <4>1
      <4>3. QED
        BY <3>1, <3>2, <4>1, <4>2 DEF Ascending
    <3>6. QED
      BY <3>4, <3>5
  <2>4. QED
    BY <1>4, <2>2, <2>3 DEF Unserved
<1>6. QED
  BY <1>1, <1>3, <1>4, <1>5, ServedReturned DEF present

(* What a flow-off sends back is newer than all that was served.           *)
LEMMA RequeuedFrom ==
    ASSUME NEW r, SentRecords(r),
           \A k \in DOMAIN r : r[k].irp \in Nat \cup {NONE}
    PROVE  /\ Requeue(r) \in Seq(Nat)
           /\ \A i \in ToSet(Requeue(r)) :
                 i # NONE /\ \E k \in DOMAIN r : r[k].irp = i
<1>. DEFINE s == [k \in DOMAIN r |-> r[k].irp]
<1>1. DOMAIN r = 1..Len(r) /\ Len(r) \in Nat
  BY LenProperties DEF SentRecords
<1>2. s \in [1..Len(r) -> Nat \cup {NONE}]
  BY <1>1
<1>3. /\ s \in Seq(Nat \cup {NONE}) /\ DOMAIN s = DOMAIN r
      /\ \A k \in DOMAIN s : s[k] = r[k].irp
  BY <1>1, <1>2, IsASeq
<1>4. Requeue(r) = Irps(s)
  BY DEF Requeue
<1>. HIDE DEF s
<1>5. Irps(s) \in Seq(Nat) /\ ToSet(Irps(s)) = ToSet(s) \ {NONE}
  BY <1>3, IrpsEntries
<1>6. \A i \in ToSet(s) : \E k \in DOMAIN r : r[k].irp = i
  BY <1>3 DEF ToSet
<1>7. QED
  BY <1>4, <1>5, <1>6

LEMMA ServedFinished ==
    ASSUME Types, BufferInOnePlace, TransfersRecorded, WriteInvariant, Served,
           ToSet(delivered) \subseteq 1..accepted, FinishCompletion
    PROVE  Served'
<1>. PICK b : b = Head(done)
  OBVIOUS
<1>. PICK m : m = Marked(b)
  OBVIOUS
<1>. PICK kept : kept = RemoveAt(m, LastOf(b))
  OBVIOUS
<1>1. /\ calling' = [calling EXCEPT ![b] = NONE]
      /\ UNCHANGED <<pending, result, delivered, stale, resent>>
      /\ \/ /\ thread.state # "FLOW_OFF" /\ thread'.state # "FLOW_OFF"
            /\ queue' = queue
         \/ /\ thread.state = "FLOW_OFF"
            /\ \E r : /\ r = kept \/ (r = m /\ (present => result[b] # "ok"))
                      /\ \/ sent' = r /\ queue' = queue
                         \/ /\ AllReturned(b) /\ sent' = << >>
                            /\ queue' = Requeue(r) \o queue
  BY FinishParts DEF history
<1>2. /\ b \in Bufs /\ b \in ToSet(done) /\ b \notin ToSet(pending)
      /\ ToSet(done') \subseteq ToSet(done) \ {b}
      /\ SentRecords(m) /\ SentRecords(kept) /\ DOMAIN m = DOMAIN sent
      /\ \A k \in DOMAIN sent : m[k].irp = sent[k].irp
      /\ \A k \in DOMAIN m :
            \/ m[k].returned <=> sent[k].returned
            \/ m[k].irp = calling[b]
      /\ \A j \in DOMAIN kept : \E k \in DOMAIN sent :
            /\ kept[j].irp = sent[k].irp
            /\ kept[j].returned <=> sent[k].returned
      /\ AllReturned(b) =>
            /\ \A k \in DOMAIN m : m[k].returned
            /\ \A j \in DOMAIN kept : kept[j].returned
  BY RecordsStay
<1>3. present' => present
  BY FinishOutcome
<1>4. SUFFICES ASSUME ~stale', ~resent'
               PROVE  /\ Rising(delivered')
                      /\ \A d \in ToSet(delivered') :
                            /\ \A c \in ToSet(pending') : Earlier(d, calling'[c])
                            /\ present' => \A i \in ToSet(queue') : d < i
                            /\ present' /\ thread'.state = "FLOW_OFF" => Unserved(d)'
  BY DEF Served, Rising
<1>5. /\ Rising(delivered)
      /\ \A d \in ToSet(delivered) :
            /\ \A c \in ToSet(pending) : Earlier(d, calling[c])
            /\ present => \A i \in ToSet(queue) : d < i
            /\ present /\ thread.state = "FLOW_OFF" => Unserved(d)
  BY <1>1, <1>4 DEF Served
<1>6. \A c \in Bufs : c # b => calling'[c] = calling[c]
  BY <1>1 DEF WriteInvariant, WriteTypes
<1>7. ToSet(pending) \subseteq Bufs /\ ToSet(done) \subseteq Bufs
  BY BufferTypes
<1>8. ASSUME NEW d \in ToSet(delivered), present, thread.state = "FLOW_OFF",
             NEW r, r = kept \/ (r = m /\ result[b] # "ok")
      PROVE  \A k \in DOMAIN r : r[k].returned => Earlier(d, r[k].irp)
  <2>1. Unserved(d)
    BY <1>5, <1>8
  <2>2. CASE r = kept
    BY <1>2, <2>1, <2>2 DEF Unserved
  <2>3. CASE r = m /\ result[b] # "ok"
    BY <1>2, <2>1, <2>3 DEF Unserved
  <2>4. QED
    BY <1>8, <2>2, <2>3
<1>9. ASSUME NEW d \in ToSet(delivered), present', NEW i \in ToSet(queue')
      PROVE  d < i
  <2>1. CASE queue' = queue
    BY <1>3, <1>5, <1>9, <2>1
  <2>2. CASE queue' # queue
    <3>1. PICK r : /\ r = kept \/ (r = m /\ result[b] # "ok")
                   /\ AllReturned(b) /\ queue' = Requeue(r) \o queue
      BY <1>1, <1>3, <1>9, <2>2
    <3>2. \A k \in DOMAIN sent : sent[k].irp \in Nat \cup {NONE}
      BY DEF WriteInvariant, WriteTypes
    <3>3. /\ SentRecords(r) /\ \A k \in DOMAIN r : r[k].returned
          /\ \A k \in DOMAIN r : r[k].irp \in Nat \cup {NONE}
      BY <1>2, <3>1, <3>2
    <3>4. queue \in Seq(Nat)
      BY DEF WriteInvariant, WriteTypes
    <3>5. /\ Requeue(r) \in Seq(Nat)
          /\ \A j \in ToSet(Requeue(r)) :
                j # NONE /\ \E k \in DOMAIN r : r[k].irp = j
      BY <3>3, RequeuedFrom
    <3>6. ToSet(queue') = ToSet(Requeue(r)) \cup ToSet(queue)
      BY <3>1, <3>4, <3>5, ListConcat
    <3>7. CASE i \in ToSet(queue)
      BY <1>3, <1>5, <1>9, <3>7
    <3>8. CASE i \in ToSet(Requeue(r))
      <4>1. PICK k \in DOMAIN r : r[k].irp = i
        BY <3>5, <3>8
      <4>2. thread.state = "FLOW_OFF"
        BY <1>1, <2>2
      <4>3. Earlier(d, i)
        BY <1>3, <1>8, <1>9, <3>1, <3>3, <4>1, <4>2
      <4>4. d # NONE
        BY WriteAssumption DEF WriteInvariant, WriteTypes
      <4>5. QED
        BY <3>5, <3>8, <4>3, <4>4 DEF Earlier
    <3>9. QED
      BY <1>9, <3>6, <3>7, <3>8
  <2>3. QED
    BY <2>1, <2>2
<1>10. ASSUME NEW d \in ToSet(delivered), present', thread'.state = "FLOW_OFF"
       PROVE  Unserved(d)'
  <2>1. present /\ thread.state = "FLOW_OFF"
    BY <1>1, <1>3, <1>10
  <2>2. \A c \in ToSet(done') : result'[c] # "ok" => Earlier(d, calling'[c])
    BY <1>1, <1>2, <1>5, <1>6, <1>7, <2>1 DEF Unserved
  <2>3. \A k \in DOMAIN sent' : sent'[k].returned => Earlier(d, sent'[k].irp)
    <3>1. CASE sent' = << >>
      BY <3>1
    <3>2. CASE sent' # << >>
      <4>1. PICK r : /\ r = kept \/ (r = m /\ result[b] # "ok")
                     /\ sent' = r
        BY <1>1, <2>1, <3>2
      <4>2. QED
        BY <1>8, <2>1, <4>1
    <3>3. QED
      BY <3>1, <3>2
  <2>4. QED
    BY <2>2, <2>3 DEF Unserved
<1>11. \A d \in ToSet(delivered), c \in ToSet(pending) : Earlier(d, calling'[c])
  BY <1>2, <1>5, <1>6, <1>7
<1>12. QED
  BY <1>1, <1>5, <1>9, <1>10, <1>11

LEMMA ServedSubmitted ==
    ASSUME Types, BufferInOnePlace, WriteInvariant, Ascending, Served,
           thread.state # "FLOW_OFF", thread'.state = thread.state,
           HasWork, Submit, UNCHANGED <<delivered, device, stale, resent>>
    PROVE  Served'
<1>. PICK b : b = Head(idle)
  OBVIOUS
<1>. PICK i : i = IF thread.zlp THEN NONE ELSE Head(queue)
  OBVIOUS
<1>1. /\ pending' = Append(pending, b) /\ calling' = [calling EXCEPT ![b] = i]
      /\ queue' = IF thread.zlp THEN queue ELSE Tail(queue)
      /\ idle # << >> /\ (thread.zlp \/ queue # << >>) /\ present
  BY DEF Submit, HasWork
<1>2. /\ b \in Bufs /\ b \notin ToSet(pending)
      /\ ToSet(pending') = ToSet(pending) \cup {b}
  BY <1>1, ListTail, ListAppend DEF Types, BufferInOnePlace
<1>3. /\ ToSet(queue') \subseteq ToSet(queue) /\ (i # NONE => i \in ToSet(queue))
  BY <1>1, ListTail DEF WriteInvariant, WriteTypes
<1>4. /\ calling'[b] = i
      /\ \A c \in Bufs : c # b => calling'[c] = calling[c]
  BY <1>1, <1>2 DEF WriteInvariant, WriteTypes
<1>5. SUFFICES ASSUME ~stale', ~resent'
               PROVE  /\ Rising(delivered')
                      /\ \A d \in ToSet(delivered') :
                            /\ \A c \in ToSet(pending') : Earlier(d, calling'[c])
                            /\ present' => \A j \in ToSet(queue') : d < j
  BY DEF Served, Rising
<1>6. /\ Rising(delivered)
      /\ \A d \in ToSet(delivered) :
            /\ \A c \in ToSet(pending) : Earlier(d, calling[c])
            /\ \A j \in ToSet(queue) : d < j
  BY <1>1, <1>5 DEF Served
<1>7. ASSUME NEW d \in ToSet(delivered), NEW c \in ToSet(pending')
      PROVE  Earlier(d, calling'[c])
  <2>1. CASE c = b
    BY <1>3, <1>4, <1>6, <2>1 DEF Earlier
  <2>2. CASE c # b
    <3>1. c \in ToSet(pending) /\ c \in Bufs
      BY <1>2, <2>2, BufferTypes
    <3>2. QED
      BY <1>4, <1>6, <2>2, <3>1
  <2>3. QED
    BY <2>1, <2>2
<1>8. QED
  BY <1>3, <1>6, <1>7

LEMMA ServedEnqueued ==
    ASSUME Served, WriteInvariant, ToSet(delivered) \subseteq 1..accepted, Enqueue
    PROVE  Served'
<1>1. /\ queue' = Append(queue, accepted + 1)
      /\ UNCHANGED <<delivered, pending, done, calling, result, sent, stale, resent,
                     device, thread>>
  BY DEF Enqueue, history, outside
<1>2. queue \in Seq(Nat) /\ accepted \in Nat
  BY DEF WriteInvariant, WriteTypes
<1>3. ToSet(queue') = ToSet(queue) \cup {accepted + 1}
  BY <1>1, <1>2, ListAppend
<1>4. \A d \in ToSet(delivered) : d < accepted + 1
  BY <1>2
<1>5. SUFFICES ASSUME ~stale', ~resent' PROVE Served'
  BY DEF Served
<1>6. /\ Rising(delivered)
      /\ \A d \in ToSet(delivered) :
            /\ \A b \in ToSet(pending) : Earlier(d, calling[b])
            /\ present => \A i \in ToSet(queue) : d < i
            /\ present /\ thread.state = "FLOW_OFF" => Unserved(d)
  BY <1>1, <1>5 DEF Served
<1>7. \A d : Unserved(d)' <=> Unserved(d)
  BY <1>1 DEF Unserved
<1>8. QED
  BY <1>1, <1>3, <1>4, <1>6, <1>7 DEF Served, Rising, present

(* A flow-off with nothing for the bus to return.                          *)
LEMMA ServedFlowOff ==
    ASSUME Types, Served, FlowOffQuiet, thread.state # "FLOW_OFF",
           FlowOffEvent, UNCHANGED <<pending, done, result, delivered>>
    PROVE  Served'
<1>1. UNCHANGED <<queue, calling, sent, stale, device>>
  BY DEF FlowOffEvent, history
<1>2. \/ highSpeed /\ thread'.state = thread.state /\ resent' = resent
      \/ resent' = (resent \/ \E b \in ToSet(done) : result[b] # "ok")
  BY DEF FlowOffEvent, history, Types, Threads
<1>3. SUFFICES ASSUME ~stale', ~resent' PROVE Served'
  BY DEF Served
<1>4. /\ Rising(delivered)
      /\ \A d \in ToSet(delivered) :
            /\ \A b \in ToSet(pending) : Earlier(d, calling[b])
            /\ present => \A i \in ToSet(queue) : d < i
  BY <1>1, <1>2, <1>3 DEF Served
<1>5. ASSUME thread'.state = "FLOW_OFF", NEW d PROVE Unserved(d)'
  <2>1. \A b \in ToSet(done) : result[b] = "ok"
    BY <1>2, <1>3, <1>5
  <2>2. \A k \in DOMAIN sent : ~sent[k].returned
    BY <1>1, <1>3 DEF FlowOffQuiet
  <2>3. QED
    BY <1>1, <2>1, <2>2 DEF Unserved
<1>6. QED
  BY <1>1, <1>4, <1>5 DEF Served, Rising, present

LEMMA ServedStep ==
    ASSUME Types, BufferInOnePlace, TransfersRecorded, FlowKnown, WriteInvariant,
           OrderInvariant, Next
    PROVE  Served'
<1>1. /\ delivered \in Seq(Nat) /\ ToSet(delivered) \subseteq 1..accepted
      /\ Ascending /\ FlowOffQuiet /\ Served
  BY DEF OrderInvariant
<1>2. /\ stale \in BOOLEAN /\ (~stale' => ~stale) /\ (present' => present)
      /\ thread'.state = "FLOW_OFF" => thread.state = "FLOW_OFF" \/ FlowOffEvent
  BY ReasonsStay, FlowOffEntered DEF Types
<1>3. SUFFICES ASSUME ~stale' PROVE Served'
  BY DEF Served
<1>4. CASE BusComplete
  <2>1. 1 \in 0..Len(pending) /\ pending # << >>
    BY <1>4, EmptySeq, LenProperties DEF BusComplete, Types
  <2>2. PICK s : Returned(1, s)
    BY <1>4 DEF BusComplete
  <2>3. UNCHANGED <<calling, queue, resent, thread>>
    BY <1>4 DEF BusComplete
  <2>4. thread'.state # "FLOW_OFF"
    BY <1>1, <1>2, <1>3, <2>1, <2>3 DEF FlowOffQuiet
  <2>5. QED
    BY <1>1, <1>2, <2>1, <2>2, <2>3, <2>4, ServedReturned
<1>5. CASE CleanupAbort
  <2>1. Len(pending) \in 0..Len(pending)
    BY LenProperties DEF Types
  <2>2. PICK s : Returned(Len(pending), s)
    BY <1>5 DEF CleanupAbort, AbortOutput
  <2>3. UNCHANGED <<calling, queue, sent, resent, stale, thread>>
    BY <1>5 DEF CleanupAbort
  <2>4. ASSUME thread'.state = "FLOW_OFF", ~resent', present',
               NEW d \in ToSet(delivered')
        PROVE  Unserved(d)'
    <3>1. pending = << >> /\ ~stale /\ ~resent /\ present
      BY <1>1, <1>2, <1>3, <2>3, <2>4 DEF FlowOffQuiet
    <3>2. 1..Len(pending) = {}
      BY <3>1
    <3>3. d \in ToSet(delivered)
      BY <1>1, <2>1, <2>2, <2>3, <3>2, DeliveredReturned
    <3>4. Unserved(d)
      BY <1>1, <2>3, <2>4, <3>1, <3>3 DEF Served
    <3>5. \A b \in ToSet(done') : b \in ToSet(done) /\ result'[b] = result[b]
      BY <2>1, <2>2, <3>2, ReturnedParts
    <3>6. QED
      BY <2>3, <3>4, <3>5 DEF Unserved
  <2>5. QED
    BY <1>1, <1>2, <2>1, <2>2, <2>3, <2>4, ServedReturned
<1>6. CASE FlowOffEvent
  <2>1. thread.state # "FLOW_OFF"
    BY <1>2, <1>3, <1>6 DEF FlowKnown, FlowOffEvent, Wakes
  <2>2. \/ UNCHANGED <<pending, done, result, delivered>>
        \/ AbortOutput /\ ~highSpeed
    BY <1>6 DEF FlowOffEvent, history
  <2>3. QED
    BY <1>1, <1>6, <2>1, <2>2, ServedAborted, ServedFlowOff
<1>7. CASE FinishCompletion
  BY <1>1, <1>7, ServedFinished
<1>8. CASE Enqueue
  BY <1>1, <1>8, ServedEnqueued
<1>9. CASE /\ UNCHANGED <<delivered, pending, done, calling, result, sent, resent>>
           /\ PurgeQueue \/ UNCHANGED queue
           /\ ~FlowOffEvent
  <2>1. ToSet(queue') \subseteq ToSet(queue)
    BY <1>9, ListEmpty DEF PurgeQueue
  <2>2. QED
    BY <1>1, <1>2, <1>9, <2>1, ServedStays
<1>10. CASE ThreadSend /\ ~FlowOffEvent
  <2>1. CASE HasWork /\ Submit
    <3>1. thread.state # "FLOW_OFF" /\ thread'.state = thread.state
      BY <1>1, <1>2, <1>3, <1>10, <2>1
      DEF FlowOffQuiet, ThreadSend, Submit, Types, Threads
    <3>2. UNCHANGED <<delivered, device, stale, resent>>
      BY <1>10 DEF ThreadSend, outside, history
    <3>3. QED
      BY <1>1, <2>1, <3>1, <3>2, ServedSubmitted
  <2>2. CASE ~(HasWork /\ Submit)
    <3>1. UNCHANGED <<pending, calling, sent, done, result, delivered, resent>>
      BY <1>10, <2>2 DEF ThreadSend, history
    <3>2. PurgeQueue \/ UNCHANGED queue
      BY <1>10, <2>2 DEF ThreadSend
    <3>3. QED
      BY <1>9, <1>10, <3>1, <3>2
  <2>3. QED
    BY <2>1, <2>2
<1>11. CASE ThreadTop /\ ~FlowOffEvent
  <2>1. PurgeQueue \/ UNCHANGED queue
    BY <1>11 DEF ThreadTop
  <2>2. QED
    BY <1>9, <1>11, <2>1 DEF ThreadTop, history
<1>12. CASE CloseDone /\ ~FlowOffEvent
  BY <1>9, <1>12 DEF CloseDone, history
<1>13. CASE /\ \/ ThreadExit \/ CancelEvent \/ PurgeEvent \/ StopEvent
               \/ KickEvent \/ ResumeEvent \/ FlowOnEvent \/ PeekCompletion
            /\ ~FlowOffEvent
  BY <1>9, <1>13
  DEF ThreadExit, CancelEvent, PurgeEvent, StopEvent, KickEvent, ResumeEvent,
      FlowOnEvent, PeekCompletion, Quiet, queues, history
<1>14. CASE /\ \/ StartWrite \/ Standby \/ StandbyStop \/ Wakeup \/ WakeupResume
               \/ FlowOff \/ FlowOffTimeout \/ FlowOn \/ CleanupPurge
               \/ SurpriseRemoval \/ Close \/ EmptyCompletionQueue
            /\ ~FlowOffEvent
  BY <1>9, <1>14
  DEF StartWrite, Standby, StandbyStop, Wakeup, WakeupResume, FlowOff,
      FlowOffTimeout, FlowOn, CleanupPurge, SurpriseRemoval, Close,
      EmptyCompletionQueue, Announces, Others, queues, history
<1>15. QED
  BY <1>4, <1>5, <1>6, <1>7, <1>8, <1>10, <1>11, <1>12, <1>13, <1>14
  DEF Next, Thread

LEMMA DeliveredStep ==
    ASSUME Types, BufferInOnePlace, TransfersRecorded, WriteInvariant, Ascending,
           delivered \in Seq(Nat), ToSet(delivered) \subseteq 1..accepted, Next
    PROVE  delivered' \in Seq(Nat) /\ ToSet(delivered') \subseteq 1..accepted'
<1>1. CASE delivered' = delivered /\ accepted' \in {accepted, accepted + 1}
  <2>1. accepted \in Nat
    BY DEF WriteInvariant, WriteTypes
  <2>2. QED
    BY <1>1, <2>1
<1>2. ASSUME NEW n \in 0..Len(pending), NEW s, Returned(n, s),
             UNCHANGED <<calling, accepted>>
      PROVE  delivered' \in Seq(Nat) /\ ToSet(delivered') \subseteq 1..accepted'
  BY <1>2, DeliveredReturned
<1>3. CASE BusComplete
  <2>1. 1 \in 0..Len(pending)
    BY <1>3, EmptySeq, LenProperties DEF BusComplete, Types
  <2>2. \E s : Returned(1, s)
    BY <1>3 DEF BusComplete
  <2>3. UNCHANGED <<calling, accepted>>
    BY <1>3 DEF BusComplete
  <2>4. QED
    BY <1>2, <2>1, <2>2, <2>3
<1>4. CASE AbortOutput /\ UNCHANGED <<calling, accepted>>
  <2>1. Len(pending) \in 0..Len(pending)
    BY LenProperties DEF Types
  <2>2. \E s : Returned(Len(pending), s)
    BY <1>4 DEF AbortOutput
  <2>3. QED
    BY <1>2, <1>4, <2>1, <2>2
<1>5. CASE CleanupAbort
  BY <1>4, <1>5 DEF CleanupAbort
<1>6. CASE FlowOffEvent
  <2>1. UNCHANGED <<calling, accepted>>
    BY <1>6 DEF FlowOffEvent
  <2>2. AbortOutput \/ delivered' = delivered
    BY <1>6 DEF FlowOffEvent, history
  <2>3. QED
    BY <1>1, <1>4, <2>1, <2>2
<1>7. CASE \/ ThreadTop \/ ThreadSend \/ ThreadExit \/ CancelEvent \/ PurgeEvent
           \/ StopEvent \/ KickEvent \/ ResumeEvent \/ FlowOnEvent
           \/ PeekCompletion \/ FinishCompletion
  BY <1>1, <1>7
  DEF ThreadTop, ThreadSend, ThreadExit, CancelEvent, PurgeEvent, StopEvent,
      KickEvent, ResumeEvent, FlowOnEvent, PeekCompletion, FinishCompletion,
      Quiet, history
<1>8. CASE \/ StartWrite \/ Enqueue \/ Standby \/ StandbyStop \/ Wakeup
           \/ WakeupResume \/ FlowOff \/ FlowOffTimeout \/ FlowOn
           \/ CleanupPurge \/ SurpriseRemoval \/ Close \/ CloseDone
           \/ EmptyCompletionQueue
  BY <1>1, <1>8
  DEF StartWrite, Enqueue, Standby, StandbyStop, Wakeup, WakeupResume, FlowOff,
      FlowOffTimeout, FlowOn, CleanupPurge, SurpriseRemoval, Close, CloseDone,
      EmptyCompletionQueue, Announces, Others, history
<1>9. QED
  BY <1>3, <1>5, <1>6, <1>7, <1>8 DEF Next, Thread

LEMMA OrderInit ==
    ASSUME Init
    PROVE  OrderInvariant
<1>1. /\ delivered = << >> /\ sent = << >> /\ queue = << >> /\ pending = << >>
      /\ thread.state = "WORKING"
  BY DEF Init
<1>2. << >> \in Seq(Nat) /\ ToSet(<< >>) = {} /\ DOMAIN << >> = {}
  BY ListEmpty
<1>3. Ascending /\ FlowOffQuiet /\ Served
  BY <1>1, <1>2 DEF Ascending, InOrder, Rising, Precedes, FlowOffQuiet, Served
<1>4. QED
  BY <1>1, <1>2, <1>3 DEF OrderInvariant

(* The device receives the writes in the order the transport accepted them, *)
(* each once, in every order of failures, resets, power changes and        *)
(* flow-offs, as long as the modem waits for a flow-off to be over before  *)
(* it changes its mind, and no transfer has failed when one begins.        *)
THEOREM DeliveredInOrderAlways == Spec => []DeliveredInOrder
<1>1. Invariant /\ WriteInvariant /\ OrderInvariant /\ [Next]_vars
        => OrderInvariant'
  <2>1. ASSUME OrderInvariant, UNCHANGED vars PROVE OrderInvariant'
    BY <2>1
    DEF OrderInvariant, Ascending, InOrder, Rising, Precedes, FlowOffQuiet, At,
        Served, Unserved, present, vars, queues, outside, history
  <2>2. ASSUME Invariant, WriteInvariant, OrderInvariant, Next
        PROVE  OrderInvariant'
    <3>1. /\ Types /\ BufferInOnePlace /\ TransfersRecorded /\ FlowKnown
          /\ delivered \in Seq(Nat) /\ ToSet(delivered) \subseteq 1..accepted
          /\ Ascending /\ FlowOffQuiet
      BY <2>2 DEF Invariant, OrderInvariant
    <3>2. Ascending' /\ FlowOffQuiet'
      BY <2>2, <3>1, AscendingStep, FlowOffQuietKept
    <3>3. Served'
      BY <2>2, <3>1, ServedStep
    <3>4. delivered' \in Seq(Nat) /\ ToSet(delivered') \subseteq 1..accepted'
      BY <2>2, <3>1, DeliveredStep
    <3>5. QED
      BY <3>2, <3>3, <3>4 DEF OrderInvariant
  <2>3. QED
    BY <2>1, <2>2
<1>2. OrderInvariant => DeliveredInOrder
  BY DEF OrderInvariant, Served, Rising, DeliveredInOrder
<1>3. QED
  BY <1>1, <1>2, OrderInit, InvariantHolds, WriteInvariantHolds, PTL DEF Spec

============================================================================
