------------------------ MODULE WdfSerialReadProofs ------------------------
(***************************************************************************)
(* Theorems about WdfSerialRead, for any number of URBs, reads, bytes and  *)
(* requests, any sizes, and any classes of time-outs.                      *)
(***************************************************************************)
EXTENDS WdfSerialRead, SequenceTheorems, TLAPS

Bursts == [data : Seq(Nat), gone : BOOLEAN]

Threads == [pc : {"wait", "collect", "forward", "drain", "resend"},
            opened : BOOLEAN, awake : BOOLEAN, overflow : BOOLEAN,
            gone : BOOLEAN, failed : BOOLEAN, req : 1..MaxReads \cup {NONE}]

Types ==
    /\ ring \in Seq(Nat) /\ free \in Nat /\ pending \in Nat
    /\ done \in Seq(Bursts)
    /\ \A k \in DOMAIN done : Len(done[k].data) <= UrbSize
    /\ readq \in Seq(1..MaxReads) /\ waitq \in Seq(1..MaxReads)
    /\ timer \in BOOLEAN /\ dpc \in BOOLEAN
    /\ thread \in Threads
    /\ started \in 0..MaxReads /\ sent \in Nat /\ lost \subseteq 1..sent
    /\ got \in Seq(Nat) /\ served \in Seq(1..MaxReads)

(* Every URB is on the free list, with the device, or completed.           *)
URBsCounted == free + pending + Len(done) = Urbs

(* A port that is opened, or about to be, is in D0; the buffers are empty  *)
(* unless the thread knows the port to be open and the device to be in D0. *)
Asleep == ~(thread.opened /\ thread.awake)

PortKnown ==
    /\ power \in {"on", "starting"} => thread.awake
    /\ "create" \in ev => thread.awake
    /\ file # "closed" => thread.opened \/ "create" \in ev
    /\ "close" \in ev => file = "closing"
    /\ "clear" \in ev => purger = "clear" /\ file = "open" /\ power = "on"
    /\ Asleep => ring = <<>> /\ pending = 0 /\ done = <<>>
    /\ Asleep => thread.pc \in {"wait", "collect"}

(* The thread learns once that the port is open; before, no read waits.    *)
PortOpened ==
    /\ thread.opened => file # "closed" /\ "create" \notin ev
    /\ "create" \in ev => file # "closed"
    /\ ~thread.opened => waitq = <<>>

(* One read waits at a time; the thread holds it first.                    *)
OneWaits ==
    /\ Len(waitq) <= 1
    /\ At("forward") => waitq = <<>> /\ ring = <<>>
    /\ thread.req # NONE <=> At("forward")

(* The timer of the read that waits, and of the one about to.              *)
Expiring == timer \/ dpc \/ "timeout" \in ev

ReadTimed ==
    kind \in {"total", "any"} =>
        /\ At("forward") => Expiring
        /\ waitq # <<>> => Expiring \/ purger = "untimed"

(* A completed URB will be looked at: the event is set, or the ring had no *)
(* room for it and still holds data, of which a read makes room.           *)
Noticed ==
    ~At("collect") /\ done # <<>> /\ "completion" \notin ev =>
        thread.overflow /\ (kind # "interval" => ring # <<>>)

(* Data in the ring buffer will be looked at if a read can get it.         *)
RingSeen ==
    /\ kind # "interval" /\ ~At("collect") /\ ~At("drain")
    /\ ring # <<>> /\ "arrive" \notin ev
    => waitq = <<>> /\ ~Deliverable

(* While a read waits, the free list is empty, or will be: what a purge    *)
(* could not send had completed, so that the completion is still set.      *)
FreeSent ==
    /\ kind # "interval" /\ Idle /\ waitq # <<>> /\ ~thread.gone /\ ~thread.failed
    /\ "arrive" \notin ev /\ "completion" \notin ev
    => free = 0

(* The bytes, from the oldest to the newest: got, ring and the URBs.       *)
Stream ==
    /\ Increasing(got) /\ Increasing(ring)
    /\ Before(ToSet(got), ToSet(ring))
    /\ \A k \in DOMAIN done :
          /\ Increasing(done[k].data)
          /\ Before(ToSet(got) \cup ToSet(ring), ToSet(done[k].data))
          /\ \A j \in DOMAIN done :
                j < k => Before(ToSet(done[j].data), ToSet(done[k].data))
    /\ ToSet(got) \cup ToSet(ring) \cup Bytes(done) = (1..sent) \ lost

(* The reads, from the oldest to the newest: served, waiting and queued.   *)
Waiting == ToSet(waitq) \cup ({thread.req} \ {NONE})

Reads ==
    /\ kind # "interval" =>
          /\ Increasing(served)
          /\ Before(ToSet(served), Waiting \cup ToSet(readq))
          /\ Before(Waiting, ToSet(readq))
    /\ Increasing(readq)
    /\ ToSet(served) \cup Waiting \cup ToSet(readq) \subseteq 1..started

Invariant ==
    /\ Types /\ URBsCounted /\ PortKnown /\ PortOpened /\ OneWaits /\ ReadTimed
    /\ Noticed /\ RingSeen /\ FreeSent /\ Stream /\ Reads

----------------------------------------------------------------------------
(* Lists: what an append, the removal of the head, a concatenation and a   *)
(* cut do to the set of the entries and to their order.                    *)
LEMMA ListEmpty ==
    ASSUME NEW S
    PROVE  /\ <<>> \in Seq(S) /\ Len(<<>>) = 0 /\ ToSet(<<>>) = {}
           /\ DOMAIN <<>> = {} /\ Increasing(<<>>)
BY DEF ToSet, Increasing

LEMMA ListFilled ==
    ASSUME NEW S, NEW s \in Seq(S)
    PROVE  /\ Len(s) \in Nat /\ DOMAIN s = 1..Len(s)
           /\ s = <<>> <=> Len(s) = 0
           /\ \A i \in 1..Len(s) : s[i] \in S /\ s[i] \in ToSet(s)
           /\ ToSet(s) \subseteq S
<1>1. /\ Len(s) \in Nat /\ DOMAIN s = 1..Len(s)
      /\ \A i \in 1..Len(s) : s[i] \in S
  BY LenProperties, ElementOfSeq
<1>2. s = <<>> <=> Len(s) = 0
  BY EmptySeq
<1>3. QED
  BY <1>1, <1>2 DEF ToSet

LEMMA ListAppend ==
    ASSUME NEW S, NEW s \in Seq(S), NEW e \in S
    PROVE  /\ Append(s, e) \in Seq(S) /\ Append(s, e) # <<>>
           /\ Len(Append(s, e)) = Len(s) + 1
           /\ \A i \in 1..Len(s) : Append(s, e)[i] = s[i]
           /\ Append(s, e)[Len(s) + 1] = e
BY AppendProperties

LEMMA EntriesAppend ==
    ASSUME NEW S, NEW s \in Seq(S), NEW e \in S
    PROVE  ToSet(Append(s, e)) = ToSet(s) \cup {e}
<1>. DEFINE t == Append(s, e)
<1>1. /\ \A i \in 1..Len(s) : t[i] = s[i]
      /\ t[Len(s) + 1] = e /\ Len(s) \in Nat
      /\ DOMAIN t = 1..(Len(s) + 1) /\ DOMAIN s = 1..Len(s)
  BY AppendProperties, LenProperties
<1>. HIDE DEF t
<1>2. ToSet(t) = ToSet(s) \cup {e}
  BY <1>1 DEF ToSet
<1>3. QED
  BY <1>2 DEF t

LEMMA OrderAppend ==
    ASSUME NEW S, NEW s \in Seq(S), NEW e \in S,
           Increasing(s), Before(ToSet(s), {e})
    PROVE  Increasing(Append(s, e))
<1>. DEFINE t == Append(s, e)
<1>1. /\ \A i \in 1..Len(s) : t[i] = s[i]
      /\ t[Len(s) + 1] = e /\ Len(s) \in Nat
      /\ DOMAIN t = 1..(Len(s) + 1) /\ DOMAIN s = 1..Len(s)
  BY AppendProperties, LenProperties
<1>. HIDE DEF t
<1>2. ASSUME NEW j \in 1..(Len(s) + 1), NEW k \in 1..(Len(s) + 1), j < k
      PROVE  t[j] < t[k]
  <2>1. j \in 1..Len(s) /\ t[j] = s[j]
    BY <1>1, <1>2
  <2>2. CASE k \in 1..Len(s)
    BY <1>1, <1>2, <2>1, <2>2 DEF Increasing
  <2>3. CASE k = Len(s) + 1
    <3>1. s[j] \in ToSet(s)
      BY <1>1, <2>1 DEF ToSet
    <3>2. QED
      BY <1>1, <2>1, <2>3, <3>1 DEF Before
  <2>4. QED
    BY <1>1, <2>2, <2>3
<1>3. QED
  BY <1>1, <1>2 DEF t, Increasing

LEMMA ListTail ==
    ASSUME NEW S, NEW s \in Seq(S), s # <<>>
    PROVE  /\ Head(s) \in S /\ Head(s) \in ToSet(s)
           /\ Tail(s) \in Seq(S) /\ Len(Tail(s)) = Len(s) - 1
           /\ ToSet(s) = ToSet(Tail(s)) \cup {Head(s)}
           /\ Increasing(s) => /\ Increasing(Tail(s))
                               /\ Before({Head(s)}, ToSet(Tail(s)))
           /\ Head(s) = s[1] /\ 1 \in 1..Len(s)
           /\ \A i \in 1..Len(Tail(s)) :
                 i + 1 \in 1..Len(s) /\ Tail(s)[i] = s[i + 1]
<1>. DEFINE t == Tail(s)
<1>1. /\ t \in Seq(S) /\ Len(t) = Len(s) - 1
      /\ \A i \in 1..Len(t) : t[i] = s[i + 1]
      /\ Len(s) \in Nat /\ Len(s) > 0 /\ Head(s) = s[1] /\ Head(s) \in S
      /\ DOMAIN t = 1..Len(t) /\ DOMAIN s = 1..Len(s)
  BY HeadTailProperties, LenProperties, EmptySeq
<1>. HIDE DEF t
<1>2. \A i \in 1..Len(s) : i = 1 \/ (i - 1 \in 1..Len(t) /\ t[i - 1] = s[i])
  BY <1>1
<1>3. ASSUME NEW i \in 1..Len(s) PROVE s[i] \in ToSet(t) \cup {s[1]}
  BY <1>1, <1>2 DEF ToSet
<1>4. \A i \in 1..Len(t) : i + 1 \in 1..Len(s) /\ t[i] = s[i + 1]
  BY <1>1
<1>5. \A i \in 1..Len(t) : t[i] \in ToSet(s)
  BY <1>1, <1>4 DEF ToSet
<1>6. s[1] \in ToSet(s) /\ 1 \in 1..Len(s)
  BY <1>1 DEF ToSet
<1>7. ToSet(s) = ToSet(t) \cup {s[1]}
  <2>1. ToSet(s) \subseteq ToSet(t) \cup {s[1]}
    BY <1>1, <1>3 DEF ToSet
  <2>2. ToSet(t) \subseteq ToSet(s)
    BY <1>1, <1>5 DEF ToSet
  <2>3. QED
    BY <1>6, <2>1, <2>2
<1>8. ASSUME Increasing(s)
      PROVE  Increasing(t) /\ Before({s[1]}, ToSet(t))
  <2>1. \A j, k \in 1..Len(s) : j < k => s[j] < s[k]
    BY <1>1, <1>8 DEF Increasing
  <2>2. \A j, k \in 1..Len(t) : j < k => t[j] < t[k]
    BY <1>1, <1>4, <2>1
  <2>3. \A k \in 1..Len(t) : s[1] < t[k]
    BY <1>1, <1>4, <1>6, <2>1
  <2>4. QED
    BY <1>1, <2>2, <2>3 DEF Increasing, Before, ToSet
<1>9. QED
  BY <1>1, <1>4, <1>6, <1>7, <1>8 DEF t

LEMMA ListConcat ==
    ASSUME NEW S, NEW s \in Seq(S), NEW t \in Seq(S)
    PROVE  /\ s \o t \in Seq(S) /\ Len(s \o t) = Len(s) + Len(t)
           /\ ToSet(s \o t) = ToSet(s) \cup ToSet(t)
           /\ Increasing(s) /\ Increasing(t) /\ Before(ToSet(s), ToSet(t))
                 => Increasing(s \o t)
<1>. DEFINE u == s \o t
<1>1. /\ u \in Seq(S) /\ Len(u) = Len(s) + Len(t)
      /\ \A i \in 1..Len(u) : u[i] = IF i <= Len(s) THEN s[i] ELSE t[i - Len(s)]
      /\ Len(s) \in Nat /\ Len(t) \in Nat
      /\ DOMAIN u = 1..Len(u) /\ DOMAIN s = 1..Len(s) /\ DOMAIN t = 1..Len(t)
  BY ConcatProperties, LenProperties
<1>. HIDE DEF u
<1>2. \A i \in 1..Len(u) : \/ i \in 1..Len(s) /\ u[i] = s[i]
                           \/ /\ i > Len(s) /\ i - Len(s) \in 1..Len(t)
                              /\ u[i] = t[i - Len(s)]
  BY <1>1
<1>3. ToSet(u) \subseteq ToSet(s) \cup ToSet(t)
  BY <1>1, <1>2 DEF ToSet
<1>4. \A i \in 1..Len(s) : s[i] \in ToSet(u)
  BY <1>1 DEF ToSet
<1>5. ASSUME NEW i \in 1..Len(t) PROVE t[i] \in ToSet(u)
  <2>1. i + Len(s) \in 1..Len(u) /\ u[i + Len(s)] = t[i]
    BY <1>1
  <2>2. QED
    BY <1>1, <2>1 DEF ToSet
<1>6. ToSet(u) = ToSet(s) \cup ToSet(t)
  BY <1>1, <1>3, <1>4, <1>5 DEF ToSet
<1>7. ASSUME Increasing(s), Increasing(t), Before(ToSet(s), ToSet(t)),
             NEW j \in 1..Len(u), NEW k \in 1..Len(u), j < k
      PROVE  u[j] < u[k]
  <2>1. CASE j \in 1..Len(s) /\ k \in 1..Len(s)
    BY <1>1, <1>7, <2>1 DEF Increasing
  <2>2. CASE j > Len(s)
    <3>1. /\ j - Len(s) \in 1..Len(t) /\ k - Len(s) \in 1..Len(t)
          /\ u[j] = t[j - Len(s)] /\ u[k] = t[k - Len(s)]
          /\ j - Len(s) < k - Len(s)
      BY <1>1, <1>7, <2>2
    <3>2. QED
      BY <1>1, <1>7, <3>1 DEF Increasing
  <2>3. CASE j \in 1..Len(s) /\ k > Len(s)
    <3>1. k - Len(s) \in 1..Len(t) /\ u[k] = t[k - Len(s)] /\ u[j] = s[j]
      BY <1>1, <2>3
    <3>2. u[k] \in ToSet(t) /\ u[j] \in ToSet(s)
      BY <1>1, <2>3, <3>1 DEF ToSet
    <3>3. QED
      BY <1>7, <3>2 DEF Before
  <2>4. QED
    BY <1>1, <2>1, <2>2, <2>3
<1>8. QED
  BY <1>1, <1>6, <1>7 DEF u, Increasing

LEMMA ListSplit ==
    ASSUME NEW S, NEW s \in Seq(S), NEW n \in 0..Len(s)
    PROVE  LET l == SubSeq(s, 1, n)
               r == SubSeq(s, n + 1, Len(s))
           IN  /\ l \in Seq(S) /\ r \in Seq(S)
               /\ Len(l) = n /\ Len(r) = Len(s) - n
               /\ ToSet(s) = ToSet(l) \cup ToSet(r)
               /\ Increasing(s) => /\ Increasing(l) /\ Increasing(r)
                                   /\ Before(ToSet(l), ToSet(r))
<1>. DEFINE l == SubSeq(s, 1, n)
            r == SubSeq(s, n + 1, Len(s))
<1>1. Len(s) \in Nat /\ n \in Nat /\ n <= Len(s) /\ DOMAIN s = 1..Len(s)
  BY LenProperties
<1>2. \A i \in 1..Len(s) : s[i] \in S
  BY ElementOfSeq
<1>3. /\ l \in Seq(S) /\ Len(l) = n
      /\ \A i \in 1..n : l[i] = s[i]
  <2>1. \A i \in 1..n : s[i] \in S
    BY <1>1, <1>2
  <2>2. /\ l \in Seq(S) /\ Len(l) = n
        /\ \A i \in 1..n : l[i] = s[1 + i - 1]
    BY <1>1, <2>1, SubSeqProperties
  <2>3. \A i \in 1..n : 1 + i - 1 = i
    OBVIOUS
  <2>4. QED
    BY <2>2, <2>3
<1>4. /\ r \in Seq(S) /\ Len(r) = Len(s) - n
      /\ \A i \in 1..(Len(s) - n) : r[i] = s[i + n]
  <2>1. \A i \in (n + 1)..Len(s) : s[i] \in S
    BY <1>1, <1>2
  <2>2. /\ r \in Seq(S)
        /\ Len(r) = IF n + 1 <= Len(s) THEN Len(s) - (n + 1) + 1 ELSE 0
        /\ \A i \in 1..(Len(s) - (n + 1) + 1) : r[i] = s[(n + 1) + i - 1]
    BY <1>1, <2>1, SubSeqProperties
  <2>3. Len(s) - (n + 1) + 1 = Len(s) - n
    BY <1>1
  <2>4. \A i \in 1..(Len(s) - n) : (n + 1) + i - 1 = i + n
    BY <1>1
  <2>5. Len(r) = Len(s) - n
    <3>1. \A a, b \in Nat : b <= a /\ ~(b + 1 <= a) => a - b = 0
      OBVIOUS
    <3>2. CASE n + 1 <= Len(s)
      BY <2>2, <2>3, <3>2
    <3>3. CASE ~(n + 1 <= Len(s))
      BY <1>1, <2>2, <3>1, <3>3
    <3>4. QED
      BY <3>2, <3>3
  <2>6. QED
    BY <2>2, <2>3, <2>4, <2>5
<1>5. DOMAIN l = 1..n /\ DOMAIN r = 1..(Len(s) - n)
  BY <1>3, <1>4, LenProperties
<1>. HIDE DEF l, r
<1>6. \A i \in 1..Len(s) : \/ i \in 1..n /\ l[i] = s[i]
                           \/ /\ i - n \in 1..(Len(s) - n)
                              /\ r[i - n] = s[i]
  <2>1. ASSUME NEW i \in 1..Len(s), ~(i \in 1..n)
        PROVE  i - n \in 1..(Len(s) - n) /\ r[i - n] = s[i]
    <3>1. i - n \in 1..(Len(s) - n) /\ (i - n) + n = i
      BY <1>1, <2>1
    <3>2. r[i - n] = s[(i - n) + n]
      BY <1>4, <3>1
    <3>3. QED
      BY <3>1, <3>2
  <2>2. QED
    BY <1>3, <2>1
<1>7. \A i \in 1..(Len(s) - n) :
         i + n \in 1..Len(s) /\ i + n > n /\ r[i] = s[i + n]
  BY <1>1, <1>4
<1>8. \A i \in 1..n : i \in 1..Len(s) /\ l[i] = s[i]
  BY <1>1, <1>3
<1>9. ToSet(s) = ToSet(l) \cup ToSet(r)
  <2>1. ToSet(s) \subseteq ToSet(l) \cup ToSet(r)
    BY <1>1, <1>5, <1>6 DEF ToSet
  <2>2. ToSet(l) \subseteq ToSet(s) /\ ToSet(r) \subseteq ToSet(s)
    BY <1>1, <1>5, <1>7, <1>8 DEF ToSet
  <2>3. QED
    BY <2>1, <2>2
<1>10. ASSUME Increasing(s)
       PROVE  Increasing(l) /\ Increasing(r) /\ Before(ToSet(l), ToSet(r))
  <2>1. \A j, k \in 1..Len(s) : j < k => s[j] < s[k]
    BY <1>1, <1>10 DEF Increasing
  <2>2. \A j, k \in 1..n : j < k => l[j] < l[k]
    BY <1>8, <2>1
  <2>3. \A j, k \in 1..(Len(s) - n) : j < k => r[j] < r[k]
    <3>1. \A j, k \in 1..(Len(s) - n) : j < k => j + n < k + n
      BY <1>1
    <3>2. QED
      BY <1>7, <2>1, <3>1
  <2>4. \A j \in 1..n, k \in 1..(Len(s) - n) : l[j] < r[k]
    <3>1. \A j \in 1..n, k \in 1..(Len(s) - n) : j < k + n
      BY <1>1
    <3>2. QED
      BY <1>7, <1>8, <2>1, <3>1
  <2>5. QED
    BY <1>5, <2>2, <2>3, <2>4 DEF Increasing, Before, ToSet
<1>11. QED
  BY <1>3, <1>4, <1>9, <1>10 DEF l, r

----------------------------------------------------------------------------
(* What a step does to the sequences and to the thread.                    *)
LEMMA WakesInOrder ==
    /\ Wakes("create") => "arrive" \notin ev
    /\ Wakes("close") => ev \cap {"arrive", "create"} = {}
    /\ Wakes("clear") => ev \cap {"arrive", "create"} = {}
    /\ Wakes("d0exit") => ev \cap {"arrive", "create", "clear"} = {}
    /\ Wakes("d0entry") => ev \cap {"arrive", "create", "clear"} = {}
    /\ Wakes("timeout") => "arrive" \notin ev
<1>1. DOMAIN EventOrder = 1..8
  BY DEF EventOrder
<1>2. /\ EventOrder[1] = "arrive" /\ EventOrder[2] = "create"
      /\ EventOrder[3] = "close" /\ EventOrder[4] = "clear"
      /\ EventOrder[5] = "d0exit" /\ EventOrder[6] = "d0entry"
      /\ EventOrder[7] = "timeout"
  BY DEF EventOrder
<1>3. QED
  BY <1>1, <1>2 DEF Wakes

LEMMA Served ==
    ASSUME Types, NEW r \in 1..MaxReads, Serve(r)
    PROVE  \E n \in 0..Len(ring) :
              /\ got' = got \o SubSeq(ring, 1, n)
              /\ ring' = SubSeq(ring, n + 1, Len(ring))
              /\ served' = Append(served, r)
<1>1. ReadLength[r] \in Nat /\ Len(ring) \in Nat
  BY SerialAssumption, ListFilled DEF Types
<1>. DEFINE n == IF ReadLength[r] < Len(ring) THEN ReadLength[r] ELSE Len(ring)
<1>2. n \in 0..Len(ring)
  BY <1>1
<1>3. /\ got' = got \o SubSeq(ring, 1, n)
      /\ ring' = SubSeq(ring, n + 1, Len(ring))
      /\ served' = Append(served, r)
  BY DEF Serve
<1>. HIDE DEF n
<1>4. QED
  BY <1>2, <1>3

LEMMA ServedTypes ==
    ASSUME Types, NEW r \in 1..MaxReads, Serve(r)
    PROVE  ring' \in Seq(Nat) /\ got' \in Seq(Nat) /\ served' \in Seq(1..MaxReads)
<1>1. PICK n \in 0..Len(ring) : /\ got' = got \o SubSeq(ring, 1, n)
                               /\ ring' = SubSeq(ring, n + 1, Len(ring))
                               /\ served' = Append(served, r)
  BY Served
<1>2. /\ ring \in Seq(Nat) /\ got \in Seq(Nat) /\ served \in Seq(1..MaxReads)
  BY DEF Types
<1>3. SubSeq(ring, 1, n) \in Seq(Nat) /\ SubSeq(ring, n + 1, Len(ring)) \in Seq(Nat)
  BY <1>2, ListSplit
<1>4. got \o SubSeq(ring, 1, n) \in Seq(Nat)
  BY <1>2, <1>3, ListConcat
<1>5. Append(served, r) \in Seq(1..MaxReads)
  BY <1>2, ListAppend
<1>6. QED
  BY <1>1, <1>3, <1>4, <1>5

(* The buffers are emptied by a close, a power-down and a purge.           *)
Emptied == FileClose \/ ClearRequested \/ DeviceD0Exit

LEMMA EmptiedOutcome ==
    ASSUME Emptied
    PROVE  /\ ring' = <<>> /\ done' = <<>>
           /\ lost' = lost \cup ToSet(ring) \cup Bytes(done)
           /\ UNCHANGED <<readq, dpc, started, sent, got, served, kind>>
BY DEF Emptied, FileClose, ClearRequested, DeviceD0Exit, ClearBuffer, queues

(* A read gets what is in the ring buffer.                                 *)
Answer(r) ==
    /\ ring # <<>> /\ Serve(r)
    /\ UNCHANGED <<free, pending, done, dpc, started, sent, lost, kind>>
    /\ \/ waitq # <<>> /\ r = Head(waitq) /\ waitq' = Tail(waitq) /\ UNCHANGED readq
       \/ readq # <<>> /\ r = Head(readq) /\ readq' = Tail(readq) /\ UNCHANGED waitq

LEMMA AnswerOutcome ==
    ASSUME Types, DrainWaiting \/ DrainQueue \/ (TimeoutWithData /\ waitq # <<>>)
    PROVE  \E r \in 1..MaxReads : Answer(r)
<1>1. /\ waitq # <<>> => Head(waitq) \in 1..MaxReads
      /\ readq # <<>> => Head(readq) \in 1..MaxReads
  BY ListTail DEF Types
<1>2. CASE DrainWaiting
  <2>1. Answer(Head(waitq)) /\ waitq # <<>>
    BY <1>2 DEF DrainWaiting, Answer, others
  <2>2. QED
    BY <1>1, <2>1
<1>3. CASE DrainQueue
  <2>1. Answer(Head(readq)) /\ readq # <<>>
    BY <1>3 DEF DrainQueue, Deliverable, Answer, others
  <2>2. QED
    BY <1>1, <2>1
<1>4. CASE TimeoutWithData /\ waitq # <<>>
  <2>1. Answer(Head(waitq))
    BY <1>4 DEF TimeoutWithData, Answer, others
  <2>2. QED
    BY <1>1, <1>4, <2>1
<1>5. QED
  BY <1>2, <1>3, <1>4

LEMMA ThreadTyped ==
    ASSUME Types, OneWaits, Next
    PROVE  thread' \in Threads
<1>. USE DEF Types, Threads
<1>1. CASE UNCHANGED thread
  BY <1>1
<1>2. CASE FileCreate \/ FileClose \/ DeviceD0Exit \/ DeviceD0Entry
  BY <1>2 DEF FileCreate, FileClose, DeviceD0Exit, DeviceD0Entry
<1>3. CASE Completion \/ Collected \/ ArriveNow \/ ArriveNothing \/ ArriveData
  BY <1>3 DEF Completion, Collected, ArriveNow, ArriveNothing, ArriveData
<1>4. CASE Collect
  <2>1. Head(done) \in Bursts
    BY <1>4, ListTail DEF Collect
  <2>2. QED
    BY <1>4, <2>1 DEF Collect, Bursts
<1>5. CASE ArriveTake
  <2>1. Head(readq) \in 1..MaxReads
    BY <1>5, ListTail DEF ArriveTake, Deliverable
  <2>2. QED
    BY <1>5, <2>1 DEF ArriveTake
<1>6. CASE Forward \/ Drained \/ Resend
  <2>1. CASE Forward \/ Drained
    BY <2>1 DEF Forward, Drained
  <2>2. CASE Resend
    <3>1. \/ thread' = [thread EXCEPT !.pc = "wait", !.failed = @ \/ free' > 0]
          \/ thread' = [thread EXCEPT !.pc = "wait"]
      BY <2>2 DEF Resend, SendWhileRoom
    <3>2. PICK b \in BOOLEAN :
             \/ thread' = [thread EXCEPT !.pc = "wait", !.failed = @ \/ b]
             \/ thread' = [thread EXCEPT !.pc = "wait"]
      BY <3>1
    <3>3. QED
      BY <3>2
  <2>3. QED
    BY <1>6, <2>1, <2>2
<1>7. CASE DrainWaiting \/ DrainQueue
  BY <1>7 DEF DrainWaiting, DrainQueue, Resume
<1>8. QED
  BY <1>1, <1>2, <1>3, <1>4, <1>5, <1>6, <1>7
     DEF Next, StartRead, Open, Close, D0Exit, D0Entry, QueueStarted, AbortQueue,
         AbortTimer, AbortWaiting, AbortDone, Clear, BusComplete, Unplug,
         TimerExpires, ReadTimeoutDpc, ClearRequested, ArriveIgnored,
         TimeoutWithData, Timeout

LEMMA BurstSent ==
    ASSUME NEW s \in Nat, NEW n \in Nat
    PROVE  LET d == [k \in 1..n |-> s + k]
           IN  /\ d \in Seq(Nat) /\ Len(d) = n
               /\ ToSet(d) = (s + 1)..(s + n) /\ Increasing(d)
<1>. DEFINE d == [k \in 1..n |-> s + k]
<1>1. /\ DOMAIN d = 1..n /\ d \in [1..n -> Nat]
      /\ \A k \in 1..n : d[k] = s + k
  OBVIOUS
<1>. HIDE DEF d
<1>2. d \in Seq(Nat)
  BY <1>1, SeqDef
<1>3. Len(d) = n
  <2>1. Len(d) \in Nat /\ 1..Len(d) = 1..n
    BY <1>1, <1>2, LenProperties
  <2>2. QED
    BY <2>1
<1>4. ToSet(d) = (s + 1)..(s + n)
  <2>1. ASSUME NEW b \in (s + 1)..(s + n) PROVE b \in ToSet(d)
    <3>1. b - s \in 1..n /\ s + (b - s) = b
      BY <2>1
    <3>2. d[b - s] = b
      BY <1>1, <3>1
    <3>3. QED
      BY <1>1, <3>1, <3>2 DEF ToSet
  <2>2. \A k \in 1..n : d[k] \in (s + 1)..(s + n)
    BY <1>1
  <2>3. QED
    BY <1>1, <2>1, <2>2 DEF ToSet
<1>5. Increasing(d)
  BY <1>1 DEF Increasing
<1>6. QED
  BY <1>2, <1>3, <1>4, <1>5 DEF d

(* The URB that completes is the last of those completed.                  *)
Arrived(d) ==
    /\ done' = Append(done, d) /\ d \in Bursts
    /\ Len(d.data) <= UrbSize /\ Increasing(d.data)
    /\ ToSet(d.data) = (sent + 1)..sent' /\ sent' \in Nat /\ sent' >= sent

LEMMA BusOutcome ==
    ASSUME Types, BusComplete
    PROVE  \E d : Arrived(d)
<1>1. PICK n \in 0..UrbSize :
        /\ done' = Append(done, [data |-> [k \in 1..n |-> sent + k],
                                 gone |-> ~plugged])
        /\ sent' = sent + n
  BY DEF BusComplete
<1>2. UrbSize \in Nat /\ sent \in Nat /\ n \in Nat
  BY SerialAssumption DEF Types
<1>. DEFINE w == [k \in 1..n |-> sent + k]
            d == [data |-> w, gone |-> ~plugged]
<1>3. /\ w \in Seq(Nat) /\ Len(w) = n /\ Increasing(w)
      /\ ToSet(w) = (sent + 1)..(sent + n)
  BY <1>2, BurstSent
<1>4. done' = Append(done, d)
  BY <1>1
<1>. HIDE DEF w
<1>5. d \in Bursts /\ d.data = w
  BY <1>3 DEF Bursts
<1>6. n <= UrbSize /\ sent + n \in Nat /\ sent + n >= sent
  BY <1>2
<1>. HIDE DEF d
<1>7. Arrived(d)
  BY <1>1, <1>3, <1>4, <1>5, <1>6 DEF Arrived
<1>8. QED
  BY <1>7

LEMMA DoneTyped ==
    ASSUME Types, Next
    PROVE  /\ done' \in Seq(Bursts)
           /\ \A k \in DOMAIN done' : Len(done'[k].data) <= UrbSize
<1>1. /\ done \in Seq(Bursts) /\ DOMAIN done = 1..Len(done) /\ Len(done) \in Nat
      /\ \A k \in 1..Len(done) : Len(done[k].data) <= UrbSize
  BY ListFilled DEF Types
<1>2. CASE UNCHANGED done
  BY <1>1, <1>2
<1>3. CASE BusComplete
  <2>1. PICK d : Arrived(d)
    BY <1>3, BusOutcome
  <2>2. /\ done' \in Seq(Bursts) /\ DOMAIN done' = 1..(Len(done) + 1)
        /\ \A k \in 1..Len(done) : done'[k] = done[k]
        /\ done'[Len(done) + 1] = d
    BY <1>1, <2>1, ListAppend, ListFilled DEF Arrived
  <2>3. QED
    BY <1>1, <2>1, <2>2 DEF Arrived
<1>4. CASE Emptied
  BY <1>4, EmptiedOutcome, ListEmpty
<1>5. CASE Collect
  <2>1. done # <<>> /\ done' = Tail(done)
    BY <1>5 DEF Collect
  <2>2. /\ done' \in Seq(Bursts) /\ DOMAIN done' = 1..Len(done')
        /\ \A i \in 1..Len(done') :
              i + 1 \in 1..Len(done) /\ done'[i] = done[i + 1]
    BY <1>1, <2>1, ListTail, ListFilled
  <2>3. QED
    BY <1>1, <2>2
<1>6. QED
  BY <1>2, <1>3, <1>4, <1>5
     DEF Next, StartRead, Open, Close, D0Exit, D0Entry, QueueStarted, AbortQueue,
         AbortTimer, AbortWaiting, AbortDone, Clear, Unplug, TimerExpires,
         ReadTimeoutDpc, FileCreate, Emptied, DeviceD0Entry, Completion, Collected,
         ArriveIgnored, ArriveTake, ArriveNow, ArriveNothing, ArriveData, Forward,
         DrainWaiting, DrainQueue, Drained, Resend, TimeoutWithData, Timeout,
         buffers, history

LEMMA QueuesTyped ==
    ASSUME Types, OneWaits, Next
    PROVE  /\ readq' \in Seq(1..MaxReads) /\ waitq' \in Seq(1..MaxReads)
           /\ started' \in 0..MaxReads
<1>1. /\ readq \in Seq(1..MaxReads) /\ waitq \in Seq(1..MaxReads)
      /\ started \in 0..MaxReads /\ MaxReads \in Nat
  BY SerialAssumption DEF Types
<1>2. CASE UNCHANGED <<readq, waitq, started>>
  BY <1>1, <1>2
<1>3. CASE StartRead
  <2>1. started + 1 \in 1..MaxReads
    BY <1>1, <1>3 DEF StartRead
  <2>2. readq' \in Seq(1..MaxReads)
    BY <1>1, <1>3, <2>1, ListAppend DEF StartRead
  <2>3. QED
    BY <1>1, <1>3, <2>1, <2>2 DEF StartRead
<1>4. CASE Close \/ AbortQueue \/ AbortWaiting \/ FileClose
  BY <1>1, <1>4, ListEmpty DEF Close, AbortQueue, AbortWaiting, FileClose
<1>5. CASE ArriveTake \/ ArriveNow
  <2>1. readq # <<>> /\ readq' = Tail(readq) /\ UNCHANGED <<waitq, started>>
    BY <1>5 DEF ArriveTake, ArriveNow, Deliverable, others
  <2>2. QED
    BY <1>1, <2>1, ListTail
<1>6. CASE Forward
  <2>1. thread.req \in 1..MaxReads
    BY <1>6 DEF Forward, OneWaits, Types, Threads
  <2>2. QED
    BY <1>1, <1>6, <2>1, ListAppend DEF Forward, others
<1>7. CASE DrainWaiting \/ DrainQueue \/ (TimeoutWithData /\ waitq # <<>>)
  <2>1. PICK r \in 1..MaxReads : Answer(r)
    BY <1>7, AnswerOutcome
  <2>2. QED
    BY <1>1, <2>1, ListTail DEF Answer
<1>8. CASE Timeout
  <2>1. waitq # <<>> => Tail(waitq) \in Seq(1..MaxReads)
    BY <1>1, ListTail
  <2>2. QED
    BY <1>1, <1>8, <2>1 DEF Timeout, others
<1>9. QED
  BY <1>2, <1>3, <1>4, <1>5, <1>6, <1>7, <1>8
     DEF Next, Open, D0Exit, D0Entry, QueueStarted, AbortTimer, AbortDone, Clear,
         BusComplete, Unplug, TimerExpires, ReadTimeoutDpc, FileCreate,
         ClearRequested, DeviceD0Exit, DeviceD0Entry, Completion, Collect,
         Collected, ArriveIgnored, ArriveNothing, ArriveData, Drained, Resend,
         TimeoutWithData, queues, others

LEMMA StreamTyped ==
    ASSUME Types, Stream, Next
    PROVE  /\ ring' \in Seq(Nat) /\ got' \in Seq(Nat)
           /\ served' \in Seq(1..MaxReads)
           /\ sent' \in Nat /\ lost' \subseteq 1..sent'
<1>1. /\ ring \in Seq(Nat) /\ got \in Seq(Nat) /\ served \in Seq(1..MaxReads)
      /\ sent \in Nat /\ lost \subseteq 1..sent
  BY DEF Types
<1>2. CASE UNCHANGED <<ring, got, served, sent, lost>>
  BY <1>1, <1>2
<1>3. CASE BusComplete
  <2>1. sent' \in Nat /\ sent' >= sent
    BY <1>3, BusOutcome DEF Arrived
  <2>2. UNCHANGED <<ring, got, served, lost>>
    BY <1>3 DEF BusComplete
  <2>3. 1..sent \subseteq 1..sent'
    BY <1>1, <2>1
  <2>4. QED
    BY <1>1, <2>1, <2>2, <2>3
<1>4. CASE Emptied
  <2>1. ToSet(ring) \cup Bytes(done) \subseteq 1..sent
    BY DEF Stream
  <2>2. QED
    BY <1>1, <1>4, <2>1, EmptiedOutcome, ListEmpty
<1>5. CASE Collect
  <2>1. done # <<>> /\ ring' = ring \o Head(done).data
    BY <1>5 DEF Collect
  <2>2. Head(done).data \in Seq(Nat)
    <3>1. Head(done) \in Bursts
      BY <2>1, ListTail DEF Types
    <3>2. QED
      BY <3>1 DEF Bursts
  <2>3. ring' \in Seq(Nat)
    BY <1>1, <2>1, <2>2, ListConcat
  <2>4. QED
    BY <1>1, <1>5, <2>3 DEF Collect, history
<1>6. CASE DrainWaiting \/ DrainQueue \/ (TimeoutWithData /\ waitq # <<>>)
  <2>1. PICK r \in 1..MaxReads : Answer(r)
    BY <1>6, AnswerOutcome
  <2>2. ring' \in Seq(Nat) /\ got' \in Seq(Nat) /\ served' \in Seq(1..MaxReads)
    BY <2>1, ServedTypes DEF Answer
  <2>3. QED
    BY <1>1, <2>1, <2>2 DEF Answer
<1>7. QED
  BY <1>2, <1>3, <1>4, <1>5, <1>6
     DEF Next, StartRead, Open, Close, D0Exit, D0Entry, QueueStarted, AbortQueue,
         AbortTimer, AbortWaiting, AbortDone, Clear, Unplug, TimerExpires,
         ReadTimeoutDpc, FileCreate, Emptied, DeviceD0Entry, Completion, Collected,
         ArriveIgnored, ArriveTake, ArriveNow, ArriveNothing, ArriveData, Forward,
         Drained, Resend, TimeoutWithData, Timeout, buffers, history

(* The URBs: every step counts them right.                                 *)
LEMMA URBsKept ==
    ASSUME Types, URBsCounted, Next
    PROVE  free' \in Nat /\ pending' \in Nat /\ URBsCounted'
<1>1. /\ free \in Nat /\ pending \in Nat /\ Len(done) \in Nat
      /\ done \in Seq(Bursts) /\ free + pending + Len(done) = Urbs
      /\ Urbs \in Nat
  BY SerialAssumption, ListFilled DEF Types, URBsCounted
<1>. USE DEF URBsCounted
<1>2. CASE UNCHANGED <<free, pending, done>>
  BY <1>1, <1>2
<1>3. CASE UNCHANGED done /\ SendReadUrbs(free)
  <2>1. PICK n \in 0..free : pending' = pending + n /\ free' = free - n
    BY <1>3 DEF SendReadUrbs
  <2>2. QED
    BY <1>1, <1>3, <2>1
<1>4. CASE BusComplete
  <2>1. PICK d : Arrived(d)
    BY <1>4, BusOutcome
  <2>2. Len(done') = Len(done) + 1
    BY <1>1, <2>1, ListAppend DEF Arrived
  <2>3. free' = free /\ pending > 0 /\ pending' = pending - 1
    BY <1>4 DEF BusComplete
  <2>4. QED
    BY <1>1, <2>2, <2>3
<1>5. CASE FileClose \/ DeviceD0Exit
  <2>1. /\ free' = free + Len(done) + pending /\ pending' = 0 /\ done' = <<>>
    BY <1>5 DEF FileClose, DeviceD0Exit, ClearBuffer
  <2>2. Len(done') = 0
    BY <2>1, ListEmpty
  <2>3. QED
    BY <1>1, <2>1, <2>2
<1>6. CASE ClearRequested
  <2>1. PICK n \in 0..(free + Len(done)) :
           pending' = pending + n /\ free' = (free + Len(done)) - n
    BY <1>6 DEF ClearRequested, SendReadUrbs
  <2>2. Len(done') = 0
    BY <1>6, ListEmpty DEF ClearRequested
  <2>3. QED
    BY <1>1, <2>1, <2>2
<1>7. CASE Collect
  <2>1. done # <<>> /\ done' = Tail(done) /\ free' = free + 1 /\ pending' = pending
    BY <1>7 DEF Collect
  <2>2. Len(done') = Len(done) - 1
    BY <1>1, <2>1, ListTail
  <2>3. QED
    BY <1>1, <2>1, <2>2
<1>8. QED
  BY <1>2, <1>3, <1>4, <1>5, <1>6, <1>7
     DEF Next, StartRead, Open, Close, D0Exit, D0Entry, QueueStarted, AbortQueue,
         AbortTimer, AbortWaiting, AbortDone, Clear, Unplug, TimerExpires,
         ReadTimeoutDpc, FileCreate, DeviceD0Entry, Completion, Collected,
         ArriveIgnored, ArriveTake, ArriveNow, ArriveNothing, ArriveData, Forward,
         DrainWaiting, DrainQueue, Drained, Resend, SendWhileRoom, TimeoutWithData,
         Timeout, buffers

LEMMA TypesKept ==
    ASSUME Types, URBsCounted, OneWaits, Stream, Next
    PROVE  Types' /\ URBsCounted'
<1>1. timer' \in BOOLEAN /\ dpc' \in BOOLEAN
  <2>1. timer \in BOOLEAN /\ dpc \in BOOLEAN
    BY DEF Types
  <2>2. CASE UNCHANGED <<timer, dpc>>
    BY <2>1, <2>2
  <2>3. CASE AbortTimer \/ TimerExpires \/ ReadTimeoutDpc \/ FileClose
    BY <2>1, <2>3 DEF AbortTimer, TimerExpires, ReadTimeoutDpc, FileClose
  <2>4. CASE Collected \/ ArriveTake \/ ArriveData
    BY <2>1, <2>4 DEF Collected, ArriveTake, ArriveData
  <2>5. CASE DrainWaiting \/ TimeoutWithData \/ Timeout
    BY <2>1, <2>5 DEF DrainWaiting, TimeoutWithData, Timeout
  <2>6. QED
    BY <2>2, <2>3, <2>4, <2>5
       DEF Next, StartRead, Open, Close, D0Exit, D0Entry, QueueStarted, AbortQueue,
           AbortWaiting, AbortDone, Clear, BusComplete, Unplug, FileCreate,
           ClearRequested, DeviceD0Exit, DeviceD0Entry, Completion, Collect,
           ArriveIgnored, ArriveNow, ArriveNothing, Forward, DrainQueue, Drained,
           Resend, queues
<1>2. QED
  BY <1>1, ThreadTyped, DoneTyped, QueuesTyped, StreamTyped, URBsKept DEF Types

----------------------------------------------------------------------------
(* The thread, the port and the power.                                     *)
LEMMA PortKept ==
    ASSUME Types, PortKnown, Next
    PROVE  PortKnown'
<1>1. thread \in Threads
  BY DEF Types
<1>. USE <1>1 DEF PortKnown, Asleep, Threads
<1>2. CASE StartRead \/ Unplug \/ TimerExpires \/ ReadTimeoutDpc
  BY <1>2 DEF StartRead, Unplug, TimerExpires, ReadTimeoutDpc, Notified, buffers, others
<1>3. CASE Open
  BY <1>3 DEF Open, buffers
<1>4. CASE Close \/ D0Exit
  BY <1>4 DEF Close, D0Exit, buffers
<1>5. CASE D0Entry \/ QueueStarted
  BY <1>5 DEF D0Entry, QueueStarted, Notified, buffers
<1>6. CASE AbortQueue \/ AbortTimer \/ AbortWaiting \/ AbortDone \/ Clear
  BY <1>6 DEF AbortQueue, AbortTimer, AbortWaiting, AbortDone, Clear, Notified, buffers
<1>7. CASE BusComplete
  <2>1. pending > 0 /\ ~Asleep
    BY <1>7 DEF BusComplete
  <2>2. QED
    BY <1>7, <2>1 DEF BusComplete, others
<1>8. CASE FileCreate
  <2>1. thread.awake /\ thread'.awake /\ thread'.opened /\ At("wait")
    BY <1>8 DEF FileCreate, Wakes
  <2>2. QED
    BY <1>8, <2>1 DEF FileCreate, others
<1>9. CASE FileClose
  <2>1. /\ "create" \notin ev' /\ At("wait") /\ file' = "closed"
        /\ "close" \in ev /\ "close" \notin ev'
        /\ "clear" \in ev' => "clear" \in ev
    BY <1>9, WakesInOrder DEF FileClose, Wakes
  <2>2. ring' = <<>> /\ pending' = 0 /\ done' = <<>> /\ "clear" \notin ev
    BY <1>9, <2>1 DEF FileClose, ClearBuffer
  <2>3. QED
    BY <1>9, <2>1, <2>2 DEF FileClose, At
<1>10. CASE ClearRequested
  <2>1. ~Asleep
    BY <1>10, WakesInOrder DEF ClearRequested, Wakes
  <2>2. QED
    BY <1>10, <2>1 DEF ClearRequested
<1>11. CASE DeviceD0Exit
  <2>1. ring' = <<>> /\ pending' = 0 /\ done' = <<>> /\ power' = "off"
    BY <1>11 DEF DeviceD0Exit, ClearBuffer
  <2>2. /\ "create" \notin ev' /\ "clear" \notin ev' /\ At("wait")
        /\ thread'.pc = thread.pc /\ thread'.opened = thread.opened
    BY <1>11, WakesInOrder DEF DeviceD0Exit, Wakes
  <2>3. /\ "create" \notin ev /\ UNCHANGED <<file, purger>>
        /\ "close" \in ev' <=> "close" \in ev
    BY <1>11, WakesInOrder DEF DeviceD0Exit
  <2>4. QED
    BY <2>1, <2>2, <2>3 DEF At
<1>12. CASE DeviceD0Entry
  <2>1. /\ "create" \notin ev' /\ "clear" \notin ev' /\ thread'.pc = thread.pc
        /\ thread'.awake /\ thread'.opened = thread.opened /\ At("wait")
    BY <1>12, WakesInOrder DEF DeviceD0Entry, Wakes
  <2>2. /\ UNCHANGED <<ring, done, file, purger>>
        /\ ~thread.opened => UNCHANGED pending
        /\ "close" \in ev' <=> "close" \in ev
    BY <1>12 DEF DeviceD0Entry
  <2>3. "create" \notin ev
    BY <1>12, WakesInOrder DEF DeviceD0Entry
  <2>4. QED
    BY <2>1, <2>2, <2>3 DEF At
<1>13. CASE Completion
  BY <1>13 DEF Completion, buffers, others
<1>14. CASE Collect
  <2>1. ~Asleep
    BY <1>14 DEF Collect
  <2>2. QED
    BY <1>14, <2>1 DEF Collect, others
<1>15. CASE Collected
  BY <1>15 DEF Collected, buffers, others
<1>16. CASE ArriveIgnored
  BY <1>16 DEF ArriveIgnored, buffers, others
<1>17. CASE ArriveTake \/ ArriveNow \/ ArriveNothing \/ ArriveData
  <2>1. ~Asleep
    BY <1>17 DEF ArriveTake, ArriveNow, ArriveNothing, ArriveData, Arrive
  <2>2. /\ thread'.opened = thread.opened /\ thread'.awake = thread.awake
        /\ UNCHANGED <<power, file, purger>>
        /\ "create" \in ev' <=> "create" \in ev
        /\ "close" \in ev' <=> "close" \in ev
        /\ "clear" \in ev' <=> "clear" \in ev
    BY <1>17 DEF ArriveTake, ArriveNow, ArriveNothing, ArriveData, others
  <2>3. QED
    BY <2>1, <2>2
<1>18. CASE Forward \/ DrainWaiting \/ DrainQueue \/ Drained \/ Resend
  <2>1. ~Asleep
    BY <1>18 DEF Forward, DrainWaiting, DrainQueue, Drained, Resend, At
  <2>2. /\ thread'.opened = thread.opened /\ thread'.awake = thread.awake
        /\ UNCHANGED <<power, file, purger>>
        /\ "create" \in ev' <=> "create" \in ev
        /\ "close" \in ev' <=> "close" \in ev
        /\ "clear" \in ev' <=> "clear" \in ev
    BY <1>18 DEF Forward, DrainWaiting, DrainQueue, Drained, Resend, Resume,
         SendWhileRoom, others
  <2>3. QED
    BY <2>1, <2>2
<1>19. CASE TimeoutWithData \/ Timeout
  <2>1. /\ UNCHANGED <<thread, power, file, purger, pending, done>>
        /\ "create" \in ev' <=> "create" \in ev
        /\ "close" \in ev' <=> "close" \in ev
        /\ "clear" \in ev' <=> "clear" \in ev
    BY <1>19 DEF TimeoutWithData, Timeout, buffers, others
  <2>2. ring = <<>> => UNCHANGED ring
    BY <1>19 DEF TimeoutWithData, Timeout, buffers
  <2>3. QED
    BY <2>1, <2>2
<1>20. QED
  BY <1>2, <1>3, <1>4, <1>5, <1>6, <1>7, <1>8, <1>9, <1>10, <1>11, <1>12, <1>13,
     <1>14, <1>15, <1>16, <1>17, <1>18, <1>19 DEF Next

LEMMA OpenedKept ==
    ASSUME Types, PortKnown, PortOpened, Next
    PROVE  PortOpened'
<1>1. thread \in Threads
  BY DEF Types
<1>. USE DEF PortOpened
<1>2. CASE /\ thread'.opened = thread.opened /\ UNCHANGED file
           /\ "create" \in ev' <=> "create" \in ev
           /\ thread.opened \/ waitq' = waitq \/ waitq' = <<>>
  BY <1>2
<1>3. CASE Open
  <2>1. UNCHANGED <<thread, waitq>> /\ file = "closed" /\ file' = "open"
    BY <1>3 DEF Open, queues
  <2>2. QED
    BY <2>1
<1>4. CASE Close
  <2>1. /\ UNCHANGED thread /\ file = "open" /\ file' = "closing" /\ waitq' = <<>>
        /\ "create" \in ev' <=> "create" \in ev
    BY <1>4 DEF Close
  <2>2. QED
    BY <2>1
<1>5. CASE FileCreate
  <2>1. /\ UNCHANGED <<file, waitq>> /\ "create" \in ev /\ "create" \notin ev'
        /\ thread'.opened
    BY <1>1, <1>5 DEF FileCreate, Wakes, Threads, queues, others
  <2>2. QED
    BY <2>1
<1>6. CASE FileClose
  <2>1. ~thread'.opened /\ waitq' = <<>> /\ "create" \notin ev'
    BY <1>1, <1>6, WakesInOrder DEF FileClose, Threads
  <2>2. QED
    BY <2>1
<1>7. CASE \/ StartRead \/ D0Exit \/ D0Entry \/ QueueStarted \/ AbortQueue
           \/ AbortTimer \/ AbortWaiting \/ AbortDone \/ Clear \/ BusComplete
           \/ Unplug \/ TimerExpires \/ ReadTimeoutDpc
  <2>1. /\ UNCHANGED <<thread, file>> /\ (waitq' = waitq \/ waitq' = <<>>)
        /\ "create" \in ev' <=> "create" \in ev
    BY <1>7 DEF StartRead, D0Exit, D0Entry, QueueStarted, AbortQueue, AbortTimer,
         AbortWaiting, AbortDone, Clear, BusComplete, Unplug, TimerExpires,
         ReadTimeoutDpc, Notified, queues, others
  <2>2. QED
    BY <1>2, <2>1
<1>8. CASE \/ ClearRequested \/ DeviceD0Exit \/ DeviceD0Entry \/ Completion
           \/ Collect \/ Collected \/ ArriveIgnored
  <2>1. thread'.opened = thread.opened
    BY <1>1, <1>8 DEF ClearRequested, DeviceD0Exit, DeviceD0Entry, Completion,
         Collect, Collected, ArriveIgnored, Threads
  <2>2. /\ UNCHANGED <<file, waitq>>
        /\ "create" \in ev' <=> "create" \in ev
    BY <1>8 DEF ClearRequested, DeviceD0Exit, DeviceD0Entry, Completion, Collect,
         Collected, ArriveIgnored, queues, others
  <2>3. QED
    BY <1>2, <2>1, <2>2
<1>9. CASE \/ ArriveTake \/ ArriveNow \/ ArriveNothing \/ ArriveData
  <2>1. /\ thread'.opened = thread.opened /\ UNCHANGED <<file, waitq>>
        /\ "create" \in ev' <=> "create" \in ev
    BY <1>1, <1>9 DEF ArriveTake, ArriveNow, ArriveNothing, ArriveData, Threads,
         queues, others
  <2>2. QED
    BY <1>2, <2>1
<1>10. CASE Forward \/ DrainWaiting \/ DrainQueue \/ Drained \/ Resend
  <2>1. thread.opened
    BY <1>10 DEF Forward, DrainWaiting, DrainQueue, Drained, Resend, At, PortKnown,
         Asleep
  <2>2. /\ thread'.opened = thread.opened /\ UNCHANGED file
        /\ "create" \in ev' <=> "create" \in ev
    BY <1>1, <1>10 DEF Forward, DrainWaiting, DrainQueue, Drained, Resend, Resume,
         SendWhileRoom, Threads, others
  <2>3. QED
    BY <1>2, <2>1, <2>2
<1>11. CASE TimeoutWithData \/ Timeout
  <2>1. /\ UNCHANGED <<thread, file>>
        /\ "create" \in ev' <=> "create" \in ev
        /\ waitq = <<>> => waitq' = waitq
    BY <1>11 DEF TimeoutWithData, Timeout, others
  <2>2. QED
    BY <1>2, <2>1
<1>12. QED
  BY <1>3, <1>4, <1>5, <1>6, <1>7, <1>8, <1>9, <1>10, <1>11 DEF Next

LEMMA OneWaitsKept ==
    ASSUME Types, OneWaits, Next
    PROVE  OneWaits'
<1>1. /\ thread \in Threads /\ waitq \in Seq(1..MaxReads)
      /\ NONE \notin 1..MaxReads
  BY SerialAssumption DEF Types
<1>2. Len(waitq) \in Nat /\ (waitq = <<>> <=> Len(waitq) = 0)
  BY <1>1, ListFilled
<1>. USE DEF OneWaits, At
<1>3. CASE UNCHANGED <<waitq, thread, ring>>
  BY <1>3
<1>4. CASE Close \/ AbortWaiting
  BY <1>4, ListEmpty DEF Close, AbortWaiting, buffers
<1>5. CASE Emptied
  <2>1. /\ At("wait") /\ thread'.pc = thread.pc /\ thread'.req = thread.req
        /\ waitq' = waitq \/ waitq' = <<>>
    BY <1>1, <1>5 DEF Emptied, FileClose, ClearRequested, DeviceD0Exit, Wakes,
                      Threads, queues
  <2>2. QED
    BY <2>1, ListEmpty
<1>6. CASE \/ FileCreate \/ DeviceD0Entry \/ Completion \/ Collected \/ ArriveNow
           \/ ArriveNothing \/ ArriveData \/ Drained \/ Resend \/ DrainQueue
           \/ Collect
  <2>1. /\ ~At("forward") /\ thread'.pc # "forward" /\ thread'.req = thread.req
    BY <1>1, <1>6 DEF FileCreate, DeviceD0Entry, Completion, Collected, ArriveNow,
         ArriveNothing, ArriveData, Drained, Resend, SendWhileRoom, DrainQueue, Resume,
         Collect,
         Arrive, Wakes, Threads
  <2>2. UNCHANGED waitq
    BY <1>6 DEF FileCreate, DeviceD0Entry, Completion, Collected, ArriveNow,
         ArriveNothing, ArriveData, Drained, Resend, DrainQueue, Collect, queues
  <2>3. QED
    BY <2>1, <2>2
<1>7. CASE ArriveTake
  <2>1. Head(readq) \in 1..MaxReads
    BY <1>7, ListTail DEF ArriveTake, Deliverable, Types
  <2>2. /\ ring' = <<>> /\ waitq' = <<>> /\ thread'.pc = "forward"
        /\ thread'.req = Head(readq)
    BY <1>1, <1>7 DEF ArriveTake, Threads, buffers
  <2>3. QED
    BY <1>1, <2>1, <2>2, ListEmpty
<1>8. CASE Forward
  <2>1. /\ waitq = <<>> /\ waitq' = Append(waitq, thread.req)
        /\ thread'.pc = "resend" /\ thread'.req = NONE
    BY <1>1, <1>8 DEF Forward, Threads
  <2>2. thread.req \in 1..MaxReads
    BY <1>1, <1>8 DEF Forward, Threads
  <2>3. Len(waitq') = 1
    BY <1>1, <1>2, <2>1, <2>2, ListAppend
  <2>4. QED
    BY <2>1, <2>3
<1>9. CASE DrainWaiting \/ TimeoutWithData \/ Timeout
  <2>1. /\ ~At("forward") /\ thread'.pc = thread.pc /\ thread'.req = thread.req
    BY <1>1, <1>9 DEF DrainWaiting, TimeoutWithData, Timeout, Wakes, Threads
  <2>2. \/ waitq' = waitq
        \/ waitq # <<>> /\ waitq' = Tail(waitq)
    BY <1>9 DEF DrainWaiting, TimeoutWithData, Timeout
  <2>3. waitq # <<>> => Len(Tail(waitq)) = Len(waitq) - 1
    BY <1>1, ListTail
  <2>4. Len(waitq') <= 1
    BY <1>2, <2>2, <2>3
  <2>5. QED
    BY <2>1, <2>4
<1>10. CASE BusComplete
  BY <1>10 DEF BusComplete, queues
<1>11. QED
  BY <1>3, <1>4, <1>5, <1>6, <1>7, <1>8, <1>9, <1>10
     DEF Next, StartRead, Open, D0Exit, D0Entry, QueueStarted, AbortQueue,
         AbortTimer, AbortDone, Clear, Unplug, TimerExpires, ReadTimeoutDpc, Emptied,
         ArriveIgnored, buffers, queues

(* The read that waits is alone: when it is answered, none waits.          *)
LEMMA NoneWaits ==
    ASSUME Types, OneWaits, waitq # <<>>
    PROVE  Tail(waitq) = <<>>
<1>1. /\ waitq \in Seq(1..MaxReads) /\ Len(waitq) \in Nat /\ Len(waitq) <= 1
      /\ Len(waitq) # 0
  BY ListFilled DEF Types, OneWaits
<1>2. Tail(waitq) \in Seq(1..MaxReads) /\ Len(Tail(waitq)) = Len(waitq) - 1
  BY <1>1, ListTail
<1>3. Len(Tail(waitq)) = 0
  BY <1>1, <1>2
<1>4. QED
  BY <1>2, <1>3, ListFilled

LEMMA ReadTimedKept ==
    ASSUME Types, PortKnown, OneWaits, ReadTimed, Next
    PROVE  ReadTimed'
<1>1. CASE kind \notin {"total", "any"}
  <2>1. UNCHANGED kind
    BY DEF Next, StartRead, Open, Close, D0Exit, D0Entry, QueueStarted, AbortQueue,
         AbortTimer, AbortWaiting, AbortDone, Clear, BusComplete, Unplug,
         TimerExpires, ReadTimeoutDpc, FileCreate, FileClose, ClearRequested,
         DeviceD0Exit, DeviceD0Entry, Completion, Collect, Collected, ArriveIgnored,
         ArriveTake, ArriveNow, ArriveNothing, ArriveData, Forward, DrainWaiting,
         DrainQueue, Drained, Resend, TimeoutWithData, Timeout, others
  <2>2. QED
    BY <1>1, <2>1 DEF ReadTimed
<1>2. CASE kind \in {"total", "any"}
  <2>1. /\ At("forward") => Expiring
        /\ waitq # <<>> => Expiring \/ purger = "untimed"
    BY <1>2 DEF ReadTimed
  <2>2. thread \in Threads
    BY DEF Types
  <2>. SUFFICES /\ At("forward")' => Expiring'
                /\ waitq' # <<>> => Expiring' \/ purger' = "untimed"
    BY DEF ReadTimed
  <2>. USE DEF At, Expiring
  <2>3. CASE \/ StartRead \/ Open \/ Close \/ D0Exit \/ D0Entry \/ QueueStarted
             \/ AbortQueue \/ AbortWaiting \/ AbortDone \/ Clear \/ BusComplete
             \/ Unplug
    BY <2>1, <2>3 DEF StartRead, Open, Close, D0Exit, D0Entry, QueueStarted,
         AbortQueue, AbortWaiting, AbortDone, Clear, BusComplete, Unplug, queues,
         others
  <2>4. CASE AbortTimer
    <3>1. ~At("forward")
      BY <2>4 DEF AbortTimer, OneWaits
    <3>2. QED
      BY <2>4, <3>1 DEF AbortTimer
  <2>5. CASE TimerExpires \/ ReadTimeoutDpc
    BY <2>1, <2>5 DEF TimerExpires, ReadTimeoutDpc, others
  <2>6. CASE FileCreate \/ ClearRequested \/ DeviceD0Exit \/ DeviceD0Entry
    <3>1. /\ UNCHANGED <<timer, dpc, waitq>> /\ At("wait") /\ thread'.pc = thread.pc
          /\ "timeout" \in ev => "timeout" \in ev'
          /\ purger = "untimed" => purger' = "untimed"
      BY <2>2, <2>6
         DEF FileCreate, ClearRequested, DeviceD0Exit, DeviceD0Entry, Wakes, Threads,
             PortKnown, queues, others
    <3>2. QED
      BY <2>1, <3>1
  <2>7. CASE FileClose
    BY <2>2, <2>7 DEF FileClose, Wakes, Threads
  <2>8. CASE Completion \/ Collect \/ Collected \/ ArriveIgnored
    <3>1. /\ thread'.pc # "forward" /\ UNCHANGED <<waitq, purger>>
          /\ "timeout" \in ev => "timeout" \in ev'
      BY <2>2, <2>8 DEF Completion, Collect, Collected, ArriveIgnored, Wakes,
           Threads, queues, others
    <3>2. (timer => timer') /\ (dpc => dpc')
      <4>1. CASE Completion \/ Collect \/ ArriveIgnored
        BY <4>1 DEF Completion, Collect, ArriveIgnored, queues
      <4>2. CASE Collected
        BY <4>2, Zenon DEF Collected
      <4>3. QED
        BY <2>8, <4>1, <4>2
    <3>3. QED
      BY <2>1, <3>1, <3>2
  <2>9. CASE ArriveTake
    BY <1>2, <2>9 DEF ArriveTake
  <2>10. CASE ArriveNow \/ ArriveNothing \/ ArriveData
    <3>1. /\ thread'.pc # "forward" /\ UNCHANGED <<waitq, purger, dpc>>
          /\ "timeout" \in ev => "timeout" \in ev'
      BY <1>2, <2>2, <2>10 DEF ArriveNow, ArriveNothing, ArriveData, Threads, queues,
           others
    <3>2. timer => timer'
      <4>1. CASE ArriveNow \/ ArriveNothing
        BY <4>1 DEF ArriveNow, ArriveNothing, queues
      <4>2. CASE ArriveData
        BY <1>2, <4>2 DEF ArriveData
      <4>3. QED
        BY <2>10, <4>1, <4>2
    <3>3. QED
      BY <2>1, <3>1, <3>2
  <2>11. CASE Forward
    BY <2>1, <2>2, <2>11 DEF Forward, Threads
  <2>12. CASE DrainWaiting
    <3>1. waitq' = <<>> /\ thread'.pc = "drain"
      BY <2>2, <2>12, NoneWaits DEF DrainWaiting, Threads
    <3>2. QED
      BY <3>1
  <2>13. CASE DrainQueue \/ Drained \/ Resend
    <3>1. /\ thread'.pc # "forward" /\ UNCHANGED <<waitq, purger, dpc, timer>>
          /\ "timeout" \in ev => "timeout" \in ev'
      BY <2>2, <2>13 DEF DrainQueue, Drained, Resend, SendWhileRoom, Resume, Threads,
           queues, others
    <3>2. QED
      BY <2>1, <3>1
  <2>14. CASE TimeoutWithData \/ Timeout
    <3>1. waitq' = <<>> /\ UNCHANGED thread /\ At("wait")
      BY <2>14, NoneWaits DEF TimeoutWithData, Timeout, Wakes
    <3>2. QED
      BY <3>1
  <2>15. QED
    BY <2>3, <2>4, <2>5, <2>6, <2>7, <2>8, <2>9, <2>10, <2>11, <2>12, <2>13, <2>14
       DEF Next
<1>3. QED
  BY <1>1, <1>2

LEMMA KindStays ==
    ASSUME Next
    PROVE  UNCHANGED kind
BY DEF Next, StartRead, Open, Close, D0Exit, D0Entry, QueueStarted, AbortQueue,
       AbortTimer, AbortWaiting, AbortDone, Clear, BusComplete, Unplug,
       TimerExpires, ReadTimeoutDpc, FileCreate, FileClose, ClearRequested,
       DeviceD0Exit, DeviceD0Entry, Completion, Collect, Collected, ArriveIgnored,
       ArriveTake, ArriveNow, ArriveNothing, ArriveData, Forward, DrainWaiting,
       DrainQueue, Drained, Resend, TimeoutWithData, Timeout, others

(* The data in the ring buffer is given to no read by a time-out, unless a *)
(* read interval is set.                                                   *)
LEMMA TimeoutIdle ==
    ASSUME Types, RingSeen, TimeoutWithData \/ Timeout
    PROVE  /\ UNCHANGED <<free, pending, done, readq, thread, others, sent, lost>>
           /\ ev' = ev \ {"timeout"} /\ "arrive" \notin ev /\ At("wait")
           /\ kind # "interval" => UNCHANGED <<ring, got, served>>
<1>1. "arrive" \notin ev /\ At("wait")
  BY WakesInOrder DEF TimeoutWithData, Timeout, Wakes
<1>2. CASE Timeout
  BY <1>1, <1>2 DEF Timeout, buffers, history
<1>3. CASE TimeoutWithData
  <2>1. kind # "interval" => waitq = <<>>
    BY <1>1, <1>3 DEF RingSeen, TimeoutWithData, At
  <2>2. QED
    BY <1>1, <1>3, <2>1 DEF TimeoutWithData
<1>4. QED
  BY <1>2, <1>3

LEMMA NoticedKept ==
    ASSUME Types, Noticed, RingSeen, Next
    PROVE  Noticed'
<1>1. /\ thread \in Threads /\ ring \in Seq(Nat) /\ done \in Seq(Bursts)
      /\ UNCHANGED kind
  BY KindStays DEF Types
<1>. USE DEF Noticed, At
<1>2. CASE \/ StartRead \/ Open \/ Close \/ D0Exit \/ D0Entry \/ QueueStarted
           \/ AbortQueue \/ AbortTimer \/ AbortWaiting \/ AbortDone \/ Clear
           \/ Unplug \/ TimerExpires \/ ReadTimeoutDpc
  <2>1. /\ UNCHANGED <<thread, ring, done>>
        /\ "completion" \in ev => "completion" \in ev'
    BY <1>2 DEF StartRead, Open, Close, D0Exit, D0Entry, QueueStarted, AbortQueue,
         AbortTimer, AbortWaiting, AbortDone, Clear, Unplug, TimerExpires,
         ReadTimeoutDpc, Notified, buffers
  <2>2. QED
    BY <1>1, <2>1
<1>3. CASE BusComplete
  BY <1>3 DEF BusComplete
<1>4. CASE Emptied
  BY <1>4, EmptiedOutcome
<1>5. CASE FileCreate \/ DeviceD0Entry \/ ArriveIgnored
  <2>1. /\ UNCHANGED <<ring, done>> /\ thread'.pc = thread.pc
        /\ thread'.overflow = thread.overflow
        /\ "completion" \in ev => "completion" \in ev'
    BY <1>1, <1>5 DEF FileCreate, DeviceD0Entry, ArriveIgnored, Threads, buffers
  <2>2. QED
    BY <1>1, <2>1
<1>6. CASE Completion
  BY <1>1, <1>6 DEF Completion, Threads
<1>7. CASE Collect
  BY <1>1, <1>7 DEF Collect, Threads
<1>8. CASE Collected
  <2>1. UNCHANGED <<ring, done>> /\ (done # <<>> => thread'.overflow = TRUE)
    BY <1>1, <1>8 DEF Collected, Threads, buffers
  <2>2. done # <<>> => ring # <<>>
    <3>1. SUFFICES ASSUME done # <<>>, ring = <<>> PROVE FALSE
      OBVIOUS
    <3>2. Len(Head(done).data) <= UrbSize
      <4>1. Head(done) = done[1] /\ 1 \in DOMAIN done
        BY <1>1, <3>1, ListTail, ListFilled
      <4>2. QED
        BY <4>1 DEF Types
    <3>3. Len(ring) = 0 /\ RingSize \in Nat /\ UrbSize \in Nat /\ UrbSize <= RingSize
      BY <3>1, SerialAssumption, ListEmpty
    <3>4. Len(Head(done).data) \in Nat
      <4>1. Head(done) \in Bursts
        BY <1>1, <3>1, ListTail
      <4>2. Head(done).data \in Seq(Nat)
        BY <4>1 DEF Bursts
      <4>3. QED
        BY <4>2, ListFilled
    <3>5. Fits(Head(done))
      BY <3>2, <3>3, <3>4 DEF Fits
    <3>6. QED
      BY <1>8, <3>1, <3>5 DEF Collected
  <2>3. QED
    BY <2>1, <2>2
<1>9. CASE \/ ArriveTake \/ ArriveNow \/ ArriveNothing \/ ArriveData \/ Forward
           \/ Drained \/ Resend
  <2>1. /\ UNCHANGED <<ring, done>> /\ ~At("collect")
        /\ thread'.overflow = thread.overflow
        /\ "completion" \in ev => "completion" \in ev'
    BY <1>1, <1>9 DEF ArriveTake, ArriveNow, ArriveNothing, ArriveData, Forward,
         Drained, Resend, SendWhileRoom, Arrive, Wakes, Threads, buffers
  <2>2. QED
    BY <1>1, <2>1
<1>10. CASE DrainWaiting \/ DrainQueue
  <2>1. /\ UNCHANGED done /\ ~At("collect")
        /\ "completion" \in ev => "completion" \in ev'
        /\ thread.overflow => "completion" \in ev'
    BY <1>1, <1>10 DEF DrainWaiting, DrainQueue, Resume
  <2>2. QED
    BY <2>1
<1>11. CASE TimeoutWithData \/ Timeout
  BY <1>1, <1>11, TimeoutIdle
<1>12. QED
  BY <1>2, <1>3, <1>4, <1>5, <1>6, <1>7, <1>8, <1>9, <1>10, <1>11 DEF Next, Emptied

(* Who brings the ring buffer and a read together.                         *)
LEMMA RingSeenKept ==
    ASSUME Types, PortKnown, OneWaits, RingSeen, Next
    PROVE  RingSeen'
<1>1. CASE kind = "interval"
  BY <1>1, KindStays DEF RingSeen
<1>2. CASE kind # "interval"
  <2>1. thread \in Threads /\ UNCHANGED kind
    BY KindStays DEF Types
  <2>2. ~At("collect") /\ ~At("drain") /\ ring # <<>> /\ "arrive" \notin ev
          => waitq = <<>> /\ ~Deliverable
    BY <1>2 DEF RingSeen
  <2>. SUFFICES ASSUME ~At("collect")', ~At("drain")', ring' # <<>>, "arrive" \notin ev'
                PROVE  waitq' = <<>> /\ ~Deliverable'
    BY DEF RingSeen
  <2>. USE DEF At, Deliverable
  <2>3. CASE UNCHANGED <<ring, readq, thread>> /\ UNCHANGED <<purger, power>>
             /\ (waitq = <<>> => waitq' = <<>>)
             /\ ("arrive" \in ev => "arrive" \in ev')
    BY <2>2, <2>3
  <2>4. CASE StartRead
    BY <2>2, <2>4 DEF StartRead, Notified, buffers
  <2>5. CASE Close \/ D0Exit \/ D0Entry \/ AbortQueue \/ AbortTimer \/ AbortWaiting
    BY <2>2, <2>5 DEF Close, D0Exit, D0Entry, AbortQueue, AbortTimer, AbortWaiting,
         buffers, queues
  <2>6. CASE QueueStarted \/ AbortDone
    BY <2>2, <2>6 DEF QueueStarted, AbortDone, Notified, buffers, queues
  <2>7. CASE Clear
    BY <2>2, <2>7 DEF Clear, buffers, queues
  <2>8. CASE Emptied
    BY <2>8, EmptiedOutcome
  <2>9. CASE FileCreate
    <3>1. /\ UNCHANGED <<ring, readq, waitq, purger, power>> /\ thread'.pc = thread.pc
          /\ "arrive" \in ev => "arrive" \in ev'
      BY <2>1, <2>9 DEF FileCreate, Threads, queues, others
    <3>2. QED
      BY <2>2, <3>1
  <2>10. CASE DeviceD0Entry
    BY <2>10 DEF DeviceD0Entry
  <2>11. CASE ArriveIgnored
    BY <2>11 DEF ArriveIgnored, PortKnown, Asleep, buffers
  <2>12. CASE Completion \/ Collect
    BY <2>1, <2>12 DEF Completion, Collect, Threads
  <2>13. CASE Collected
    BY <2>13 DEF Collected
  <2>14. CASE ArriveTake \/ ArriveNow
    BY <2>14 DEF ArriveTake, ArriveNow, buffers
  <2>15. CASE ArriveNothing \/ ArriveData
    BY <1>2, <2>1, <2>15 DEF ArriveNothing, ArriveData, KeepsWaiting, Threads, buffers
  <2>16. CASE Forward
    BY <2>16 DEF Forward, OneWaits, buffers
  <2>17. CASE DrainWaiting \/ DrainQueue
    BY <2>1, <2>17 DEF DrainWaiting, DrainQueue, Resume, Threads
  <2>18. CASE Drained
    BY <1>2, <2>18 DEF Drained, buffers, queues, others
  <2>19. CASE Resend
    <3>1. /\ UNCHANGED <<ring, readq, waitq, purger, power, ev>>
          /\ ~At("collect") /\ ~At("drain")
      BY <2>19 DEF Resend, queues, others
    <3>2. QED
      BY <2>2, <3>1
  <2>20. CASE TimeoutWithData \/ Timeout
    <3>1. /\ UNCHANGED <<ring, readq, thread, purger, power>>
          /\ "arrive" \in ev => "arrive" \in ev'
      BY <1>2, <2>20, TimeoutIdle DEF others
    <3>2. waitq = <<>> => waitq' = <<>>
      BY <2>20 DEF TimeoutWithData, Timeout
    <3>3. QED
      BY <2>2, <3>1, <3>2
  <2>21. QED
    BY <2>3, <2>4, <2>5, <2>6, <2>7, <2>8, <2>9, <2>10, <2>11, <2>12, <2>13, <2>14,
       <2>15, <2>16, <2>17, <2>18, <2>19, <2>20
       DEF Next, Open, BusComplete, Unplug, TimerExpires, ReadTimeoutDpc, Emptied,
           buffers, queues, others
<1>3. QED
  BY <1>1, <1>2

(* A read that starts to wait finds the URBs sent, or the free list will   *)
(* be looked at.                                                           *)
LEMMA FreeSentKept ==
    ASSUME Types, PortOpened, OneWaits, Noticed, RingSeen, FreeSent, Next
    PROVE  FreeSent'
<1>1. CASE kind = "interval"
  BY <1>1, KindStays DEF FreeSent
<1>2. CASE kind # "interval"
  <2>1. /\ thread \in Threads /\ UNCHANGED kind
        /\ UrbSize \in Nat /\ RingSize \in Nat /\ UrbSize <= RingSize
    BY KindStays, SerialAssumption DEF Types
  <2>2. /\ Idle /\ waitq # <<>> /\ ~thread.gone /\ ~thread.failed
        /\ "arrive" \notin ev /\ "completion" \notin ev
        => free = 0
    BY <1>2 DEF FreeSent
  <2>. SUFFICES ASSUME Idle', waitq' # <<>>, ~thread'.gone, ~thread'.failed,
                       "arrive" \notin ev', "completion" \notin ev'
                PROVE  free' = 0
    BY DEF FreeSent
  <2>. USE DEF Idle, At
  <2>3. CASE UNCHANGED <<free, thread>> /\ (waitq = <<>> => waitq' = <<>>)
             /\ ("arrive" \in ev => "arrive" \in ev')
             /\ ("completion" \in ev => "completion" \in ev')
    BY <2>2, <2>3
  <2>4. CASE \/ StartRead \/ Open \/ Close \/ D0Exit \/ D0Entry \/ QueueStarted
             \/ AbortQueue \/ AbortTimer \/ AbortWaiting \/ AbortDone \/ Clear
             \/ BusComplete \/ Unplug \/ TimerExpires \/ ReadTimeoutDpc
    <3>1. /\ UNCHANGED <<free, thread>>
          /\ waitq = <<>> => waitq' = <<>>
          /\ "arrive" \in ev => "arrive" \in ev'
          /\ "completion" \in ev => "completion" \in ev'
      BY <2>4 DEF StartRead, Open, Close, D0Exit, D0Entry, QueueStarted, AbortQueue,
           AbortTimer, AbortWaiting, AbortDone, Clear, BusComplete, Unplug,
           TimerExpires, ReadTimeoutDpc, Notified, buffers, queues
    <3>2. QED
      BY <2>3, <3>1
  <2>5. CASE FileCreate \/ ClearRequested
    <3>1. CASE FileCreate
      BY <3>1 DEF FileCreate, Wakes, PortOpened, queues
    <3>2. CASE ClearRequested
      <4>1. /\ UNCHANGED <<waitq, thread>> /\ Idle /\ ~thread.gone /\ ~thread.failed
            /\ "arrive" \notin ev /\ "completion" \notin ev
        BY <3>2, WakesInOrder DEF ClearRequested, queues
      <4>2. ring = <<>>
        BY <1>2, <4>1 DEF RingSeen
      <4>3. done = <<>> /\ free = 0
        BY <1>2, <2>2, <4>1, <4>2 DEF Noticed
      <4>4. free + Len(done) = 0
        BY <4>3, ListEmpty
      <4>5. PICK n \in 0..(free + Len(done)) : free' = (free + Len(done)) - n
        BY <3>2 DEF ClearRequested, SendReadUrbs
      <4>6. QED
        BY <4>4, <4>5
    <3>3. QED
      BY <2>5, <3>1, <3>2
  <2>6. CASE FileClose \/ DeviceD0Exit \/ DeviceD0Entry
    BY <2>1, <2>6 DEF FileClose, DeviceD0Exit, DeviceD0Entry, Threads
  <2>7. CASE Completion \/ Collect \/ Collected
    BY <2>1, <2>7 DEF Completion, Collect, Collected, Threads
  <2>8. CASE ArriveIgnored
    BY <2>8 DEF ArriveIgnored
  <2>9. CASE \/ ArriveTake \/ ArriveNow \/ ArriveNothing \/ ArriveData \/ Forward
             \/ DrainWaiting \/ DrainQueue \/ Drained
    BY <2>1, <2>9 DEF ArriveTake, ArriveNow, ArriveNothing, ArriveData, Forward,
         DrainWaiting, DrainQueue, Drained, Resume, Threads
  <2>10. CASE Resend
    <3>1. /\ UNCHANGED <<waitq, ev>> /\ thread'.gone = thread.gone /\ At("resend")
      BY <2>1, <2>10 DEF Resend, SendWhileRoom, Threads, queues
    <3>2. ring = <<>>
      BY <1>2, <3>1 DEF RingSeen
    <3>3. RingSize - Len(ring) >= UrbSize
      BY <2>1, <3>2, ListEmpty
    <3>4. /\ SendReadUrbs(free)
          /\ thread' = [thread EXCEPT !.pc = "wait", !.failed = @ \/ free' > 0]
      BY <2>10, <3>1, <3>3 DEF Resend, SendWhileRoom
    <3>5. ~(free' > 0)
      BY <2>1, <3>4 DEF Threads
    <3>6. free \in Nat
      BY DEF Types
    <3>7. PICK n \in 0..free : free' = free - n
      BY <3>4 DEF SendReadUrbs
    <3>8. QED
      BY <3>5, <3>6, <3>7
  <2>11. CASE TimeoutWithData \/ Timeout
    <3>1. waitq = <<>> => waitq' = <<>>
      BY <2>11 DEF TimeoutWithData, Timeout
    <3>2. /\ UNCHANGED <<free, thread>>
          /\ "arrive" \in ev => "arrive" \in ev'
          /\ "completion" \in ev => "completion" \in ev'
      BY <2>11, TimeoutIdle
    <3>3. QED
      BY <2>3, <3>1, <3>2
  <2>12. QED
    BY <2>4, <2>5, <2>6, <2>7, <2>8, <2>9, <2>10, <2>11 DEF Next
<1>3. QED
  BY <1>1, <1>2

----------------------------------------------------------------------------
(* The bytes.                                                              *)
LEMMA BytesOf ==
    ASSUME NEW u, NEW b
    PROVE  b \in Bytes(u) <=> \E k \in DOMAIN u : b \in ToSet(u[k].data)
BY DEF Bytes

LEMMA BytesAppended ==
    ASSUME NEW u \in Seq(Bursts), NEW d \in Bursts
    PROVE  Bytes(Append(u, d)) = Bytes(u) \cup ToSet(d.data)
<1>. DEFINE w == Append(u, d)
<1>1. /\ Len(u) \in Nat /\ DOMAIN u = 1..Len(u) /\ DOMAIN w = 1..(Len(u) + 1)
      /\ \A i \in 1..Len(u) : w[i] = u[i]
      /\ w[Len(u) + 1] = d
  BY ListAppend, ListFilled
<1>. HIDE DEF w
<1>2. \A b : b \in Bytes(w) => b \in Bytes(u) \cup ToSet(d.data)
  <2>1. TAKE b
  <2>2. HAVE b \in Bytes(w)
  <2>3. PICK k \in 1..(Len(u) + 1) : b \in ToSet(w[k].data)
    BY <1>1, <2>2, BytesOf
  <2>4. CASE k \in 1..Len(u)
    BY <1>1, <2>3, <2>4, BytesOf
  <2>5. CASE k = Len(u) + 1
    BY <1>1, <2>3, <2>5
  <2>6. QED
    BY <1>1, <2>4, <2>5
<1>3. \A b \in Bytes(u) : b \in Bytes(w)
  BY <1>1, BytesOf
<1>4. \A b \in ToSet(d.data) : b \in Bytes(w)
  <2>1. Len(u) + 1 \in 1..(Len(u) + 1)
    BY <1>1
  <2>2. QED
    BY <1>1, <2>1, BytesOf
<1>5. QED
  BY <1>2, <1>3, <1>4 DEF w

LEMMA BytesFirst ==
    ASSUME NEW u \in Seq(Bursts), u # <<>>
    PROVE  Bytes(u) = ToSet(Head(u).data) \cup Bytes(Tail(u))
<1>. DEFINE w == Tail(u)
<1>1. /\ Len(u) \in Nat /\ DOMAIN u = 1..Len(u) /\ DOMAIN w = 1..(Len(u) - 1)
      /\ \A i \in 1..(Len(u) - 1) : i + 1 \in 1..Len(u) /\ w[i] = u[i + 1]
      /\ Head(u) = u[1] /\ 1 \in 1..Len(u)
  BY ListTail, ListFilled
<1>. HIDE DEF w
<1>2. ASSUME NEW k \in 1..Len(u)
      PROVE  ToSet(u[k].data) \subseteq ToSet(Head(u).data) \cup Bytes(w)
  <2>1. CASE k = 1
    BY <1>1, <2>1
  <2>2. CASE k # 1
    <3>1. k - 1 \in 1..(Len(u) - 1) /\ (k - 1) + 1 = k
      BY <1>1, <2>2
    <3>2. w[k - 1] = u[k]
      BY <1>1, <3>1
    <3>3. QED
      BY <1>1, <3>1, <3>2, BytesOf
  <2>3. QED
    BY <2>1, <2>2
<1>3. ASSUME NEW k \in 1..(Len(u) - 1)
      PROVE  ToSet(w[k].data) \subseteq Bytes(u)
  <2>1. k + 1 \in DOMAIN u /\ w[k] = u[k + 1]
    BY <1>1
  <2>2. QED
    BY <2>1, BytesOf
<1>4. ToSet(Head(u).data) \subseteq Bytes(u)
  BY <1>1, BytesOf
<1>5. Bytes(u) \subseteq ToSet(Head(u).data) \cup Bytes(w)
  BY <1>1, <1>2, BytesOf
<1>6. Bytes(w) \subseteq Bytes(u)
  BY <1>1, <1>3, BytesOf
<1>7. QED
  BY <1>4, <1>5, <1>6 DEF w

(* What the applications got and the ring buffer hold are apart from what  *)
(* the completed URBs hold.                                                *)
LEMMA StreamApart ==
    ASSUME Types, Stream
    PROVE  /\ ToSet(got) \cap ToSet(ring) = {}
           /\ (ToSet(got) \cup ToSet(ring)) \cap Bytes(done) = {}
           /\ Bytes(done) \subseteq 1..sent
<1>1. ToSet(got) \subseteq Nat /\ ToSet(ring) \subseteq Nat
  BY ListFilled DEF Types
<1>2. \A b \in Nat : ~(b < b)
  OBVIOUS
<1>3. ToSet(got) \cap ToSet(ring) = {}
  BY <1>1, <1>2 DEF Stream, Before
<1>4. \A k \in DOMAIN done : \A b \in ToSet(done[k].data) :
         b \notin ToSet(got) \cup ToSet(ring)
  BY <1>1, <1>2 DEF Stream, Before
<1>5. (ToSet(got) \cup ToSet(ring)) \cap Bytes(done) = {}
  BY <1>4, BytesOf
<1>6. QED
  BY <1>3, <1>5 DEF Stream

LEMMA StreamArrives ==
    ASSUME Types, Stream, NEW d, Arrived(d), UNCHANGED <<ring, got, lost>>
    PROVE  Stream'
<1>. DEFINE n == Len(done)
            D == ToSet(d.data)
            G == ToSet(got)
            R == ToSet(ring)
<1>1. /\ sent \in Nat /\ sent' \in Nat /\ sent <= sent' /\ lost \subseteq 1..sent
      /\ D = (sent + 1)..sent' /\ d \in Bursts /\ done \in Seq(Bursts)
  BY DEF Types, Arrived
<1>2. /\ n \in Nat /\ DOMAIN done = 1..n /\ DOMAIN done' = 1..(n + 1)
      /\ \A k \in 1..n : done'[k] = done[k]
      /\ done'[n + 1] = d /\ done' = Append(done, d)
  BY <1>1, ListAppend, ListFilled DEF Arrived
<1>3. G \cup R \cup Bytes(done) = (1..sent) \ lost
  BY DEF Stream
<1>4. Bytes(done') = Bytes(done) \cup D
  BY <1>1, <1>2, BytesAppended
<1>5. \A b \in 1..sent, c \in D : b < c
  BY <1>1
<1>6. Before(G \cup R, D)
  BY <1>3, <1>5 DEF Before
<1>7. \A j \in 1..n : Before(ToSet(done[j].data), D)
  <2>1. TAKE j \in 1..n
  <2>2. ToSet(done[j].data) \subseteq 1..sent
    BY <1>2, <1>3, BytesOf
  <2>3. QED
    BY <1>5, <2>2 DEF Before
<1>8. Increasing(d.data)
  BY DEF Arrived
<1>. HIDE DEF n, D, G, R
<1>9. ASSUME NEW k \in 1..(n + 1)
      PROVE  /\ Increasing(done'[k].data)
             /\ Before(G \cup R, ToSet(done'[k].data))
             /\ \A j \in 1..(n + 1) :
                   j < k => Before(ToSet(done'[j].data), ToSet(done'[k].data))
  <2>1. \A j \in 1..(n + 1) : j < k => j \in 1..n /\ done'[j] = done[j]
    BY <1>2
  <2>2. CASE k \in 1..n
    BY <1>2, <2>1, <2>2 DEF Stream, G, R
  <2>3. CASE k = n + 1
    BY <1>2, <1>6, <1>7, <1>8, <2>1, <2>3 DEF D
  <2>4. QED
    BY <1>2, <2>2, <2>3
<1>10. G \cup R \cup Bytes(done') = (1..sent') \ lost
  <2>1. 1..sent' = (1..sent) \cup D
    BY <1>1
  <2>2. lost \cap D = {}
    <3>1. \A b \in 1..sent : b \notin D
      BY <1>1
    <3>2. QED
      BY <1>1, <3>1
  <2>3. QED
    BY <1>3, <1>4, <2>1, <2>2
<1>11. QED
  BY <1>2, <1>9, <1>10 DEF Stream, G, R

LEMMA StreamEmptied ==
    ASSUME Types, Stream, Emptied
    PROVE  Stream'
<1>1. /\ ring' = <<>> /\ done' = <<>> /\ UNCHANGED <<sent, got>>
      /\ lost' = lost \cup ToSet(ring) \cup Bytes(done)
  BY EmptiedOutcome
<1>2. ToSet(<<>>) = {} /\ Increasing(<<>>) /\ DOMAIN <<>> = {}
  BY ListEmpty
<1>3. Bytes(<<>>) = {}
  BY <1>2, BytesOf
<1>4. ToSet(got) = (1..sent) \ (lost \cup ToSet(ring) \cup Bytes(done))
  BY StreamApart DEF Stream
<1>5. Increasing(got)
  BY DEF Stream
<1>6. QED
  BY <1>1, <1>2, <1>3, <1>4, <1>5 DEF Stream, Before

LEMMA StreamCollected ==
    ASSUME Types, Stream, done # <<>>, ring' = ring \o Head(done).data,
           done' = Tail(done), UNCHANGED <<got, sent, lost>>
    PROVE  Stream'
<1>. DEFINE h == Head(done).data
<1>1. /\ done \in Seq(Bursts) /\ ring \in Seq(Nat)
      /\ Head(done) \in Bursts /\ Head(done) = done[1] /\ 1 \in DOMAIN done
  BY ListTail, ListFilled DEF Types
<1>2. h \in Seq(Nat) /\ Increasing(h) /\ Before(ToSet(got) \cup ToSet(ring), ToSet(h))
  BY <1>1 DEF Bursts, Stream
<1>3. /\ Increasing(ring) /\ Increasing(got) /\ Before(ToSet(got), ToSet(ring))
  BY DEF Stream
<1>4. Before(ToSet(ring), ToSet(h)) /\ Before(ToSet(got), ToSet(h))
  BY <1>2 DEF Before
<1>. HIDE DEF h
<1>5. /\ Increasing(ring \o h) /\ ToSet(ring \o h) = ToSet(ring) \cup ToSet(h)
  BY <1>1, <1>2, <1>3, <1>4, ListConcat
<1>6. Before(ToSet(got), ToSet(ring) \cup ToSet(h))
  BY <1>3, <1>4 DEF Before
<1>7. /\ DOMAIN done' = 1..Len(done')
      /\ Len(done') \in Nat /\ DOMAIN done = 1..Len(done)
      /\ \A i \in 1..Len(done') : i + 1 \in 1..Len(done) /\ done'[i] = done[i + 1]
  BY <1>1, ListTail, ListFilled
<1>8. ASSUME NEW k \in 1..Len(done')
      PROVE  /\ Increasing(done'[k].data)
             /\ Before(ToSet(got) \cup (ToSet(ring) \cup ToSet(h)),
                       ToSet(done'[k].data))
             /\ \A j \in 1..Len(done') :
                   j < k => Before(ToSet(done'[j].data), ToSet(done'[k].data))
  <2>1. k + 1 \in DOMAIN done /\ done'[k] = done[k + 1] /\ 1 < k + 1
    BY <1>7
  <2>2. /\ Increasing(done[k + 1].data)
        /\ Before(ToSet(got) \cup ToSet(ring), ToSet(done[k + 1].data))
        /\ Before(ToSet(done[1].data), ToSet(done[k + 1].data))
    BY <1>1, <2>1 DEF Stream
  <2>3. \A j \in 1..Len(done') : j < k =>
           Before(ToSet(done[j + 1].data), ToSet(done[k + 1].data))
    <3>1. \A j \in 1..Len(done') : j + 1 \in DOMAIN done /\ (j < k => j + 1 < k + 1)
      BY <1>7
    <3>2. QED
      BY <2>1, <3>1 DEF Stream
  <2>4. QED
    BY <1>1, <1>7, <2>1, <2>2, <2>3 DEF h, Before
<1>9. Bytes(done) = ToSet(h) \cup Bytes(done')
  BY <1>1, BytesFirst DEF h
<1>10. ToSet(got) \cup (ToSet(ring) \cup ToSet(h)) \cup Bytes(done') = (1..sent) \ lost
  BY <1>9 DEF Stream
<1>11. ring' = ring \o h
  BY DEF h
<1>12. QED
  BY <1>3, <1>5, <1>6, <1>7, <1>8, <1>10, <1>11 DEF Stream

LEMMA StreamServed ==
    ASSUME Types, Stream, NEW r \in 1..MaxReads, Answer(r)
    PROVE  Stream'
<1>1. Serve(r) /\ UNCHANGED <<done, sent, lost>>
  BY DEF Answer
<1>2. PICK n \in 0..Len(ring) : /\ got' = got \o SubSeq(ring, 1, n)
                               /\ ring' = SubSeq(ring, n + 1, Len(ring))
  BY <1>1, Served
<1>. DEFINE l == SubSeq(ring, 1, n)
<1>3. /\ ring \in Seq(Nat) /\ got \in Seq(Nat)
      /\ Increasing(ring) /\ Increasing(got) /\ Before(ToSet(got), ToSet(ring))
  BY DEF Types, Stream
<1>4. /\ l \in Seq(Nat) /\ ToSet(ring) = ToSet(l) \cup ToSet(ring')
      /\ Increasing(l) /\ Increasing(ring') /\ Before(ToSet(l), ToSet(ring'))
  BY <1>2, <1>3, ListSplit
<1>5. got' = got \o l
  BY <1>2
<1>. HIDE DEF l
<1>6. /\ Before(ToSet(got), ToSet(l)) /\ Before(ToSet(got), ToSet(ring'))
  BY <1>3, <1>4 DEF Before
<1>7. Increasing(got') /\ ToSet(got') = ToSet(got) \cup ToSet(l)
  BY <1>3, <1>4, <1>5, <1>6, ListConcat
<1>8. Before(ToSet(got'), ToSet(ring'))
  BY <1>4, <1>6, <1>7 DEF Before
<1>9. ToSet(got') \cup ToSet(ring') = ToSet(got) \cup ToSet(ring)
  BY <1>4, <1>7
<1>10. QED
  BY <1>1, <1>4, <1>7, <1>8, <1>9 DEF Stream

LEMMA StreamKept ==
    ASSUME Types, Stream, Next
    PROVE  Stream'
<1>1. CASE UNCHANGED <<ring, done, got, sent, lost>>
  BY <1>1 DEF Stream
<1>2. CASE BusComplete
  BY <1>2, BusOutcome, StreamArrives DEF BusComplete
<1>3. CASE Emptied
  BY <1>3, StreamEmptied
<1>4. CASE Collect
  BY <1>4, StreamCollected DEF Collect, history
<1>5. CASE DrainWaiting \/ DrainQueue \/ (TimeoutWithData /\ waitq # <<>>)
  BY <1>5, AnswerOutcome, StreamServed
<1>6. QED
  BY <1>1, <1>2, <1>3, <1>4, <1>5
     DEF Next, StartRead, Open, Close, D0Exit, D0Entry, QueueStarted, AbortQueue,
         AbortTimer, AbortWaiting, AbortDone, Clear, Unplug, TimerExpires,
         ReadTimeoutDpc, FileCreate, Emptied, DeviceD0Entry, Completion, Collected,
         ArriveIgnored, ArriveTake, ArriveNow, ArriveNothing, ArriveData, Forward,
         Drained, Resend, TimeoutWithData, Timeout, buffers, history

----------------------------------------------------------------------------
(* The reads.                                                              *)
LEMMA ReadsStarted ==
    ASSUME Types, Reads, StartRead
    PROVE  Reads'
<1>1. /\ readq \in Seq(1..MaxReads) /\ started \in Nat /\ started + 1 \in 1..MaxReads
      /\ started < MaxReads /\ MaxReads \in Nat
  BY SerialAssumption DEF Types, StartRead
<1>2. /\ UNCHANGED <<waitq, thread, served, kind>>
      /\ started' = started + 1 /\ readq' = Append(readq, started + 1)
  BY DEF StartRead, history
<1>3. ToSet(served) \cup Waiting \cup ToSet(readq) \subseteq 1..started
  BY DEF Reads
<1>4. UNCHANGED Waiting
  BY <1>2 DEF Waiting
<1>5. \A b \in 1..started : b < started + 1 /\ b \in 1..(started + 1)
  BY <1>1
<1>6. Before(ToSet(served) \cup Waiting \cup ToSet(readq), {started + 1})
  BY <1>3, <1>5 DEF Before
<1>7. /\ ToSet(readq') = ToSet(readq) \cup {started + 1}
      /\ Increasing(readq')
  <2>1. Before(ToSet(readq), {started + 1}) /\ Increasing(readq)
    BY <1>6 DEF Before, Reads
  <2>2. QED
    BY <1>1, <1>2, <2>1, EntriesAppend, OrderAppend
<1>8. started + 1 \in 1..(started + 1)
  BY <1>1
<1>9. ToSet(served') \cup Waiting' \cup ToSet(readq') \subseteq 1..started'
  BY <1>2, <1>3, <1>4, <1>5, <1>7, <1>8
<1>10. kind # "interval" =>
          /\ Increasing(served)
          /\ Before(ToSet(served), Waiting \cup ToSet(readq'))
          /\ Before(Waiting, ToSet(readq'))
  BY <1>6, <1>7 DEF Reads, Before
<1>11. QED
  BY <1>2, <1>4, <1>7, <1>9, <1>10 DEF Reads

(* Reads are taken from their places: cancelled, or timed out.             *)
LEMMA ReadsLeave ==
    ASSUME Types, Reads, UNCHANGED <<served, started, kind>>,
           Waiting' \subseteq Waiting, readq' = readq \/ readq' = <<>>
    PROVE  Reads'
<1>1. ToSet(readq') \subseteq ToSet(readq) /\ Increasing(readq')
  BY ListEmpty DEF Reads
<1>2. ToSet(served') \cup Waiting' \cup ToSet(readq') \subseteq 1..started'
  BY <1>1 DEF Reads
<1>3. kind # "interval" =>
         /\ Increasing(served)
         /\ Before(ToSet(served), Waiting' \cup ToSet(readq'))
         /\ Before(Waiting', ToSet(readq'))
  BY <1>1 DEF Reads, Before
<1>4. QED
  BY <1>1, <1>2, <1>3 DEF Reads

(* The oldest read of the queue is taken by the thread, or answered.       *)
LEMMA HeadTaken ==
    ASSUME Types, Reads, readq # <<>>
    PROVE  /\ Head(readq) \in 1..MaxReads /\ Head(readq) \in 1..started
           /\ ToSet(readq) = ToSet(Tail(readq)) \cup {Head(readq)}
           /\ Increasing(Tail(readq))
           /\ Before({Head(readq)}, ToSet(Tail(readq)))
           /\ kind # "interval" =>
                 Before(ToSet(served) \cup Waiting, {Head(readq)})
<1>1. /\ readq \in Seq(1..MaxReads) /\ Increasing(readq)
      /\ ToSet(readq) \subseteq 1..started
      /\ kind # "interval" => Before(ToSet(served) \cup Waiting, ToSet(readq))
  BY DEF Types, Reads, Before
<1>2. /\ Head(readq) \in 1..MaxReads /\ Head(readq) \in ToSet(readq)
      /\ ToSet(readq) = ToSet(Tail(readq)) \cup {Head(readq)}
      /\ Increasing(Tail(readq))
      /\ Before({Head(readq)}, ToSet(Tail(readq)))
  BY <1>1, ListTail
<1>3. kind # "interval" => Before(ToSet(served) \cup Waiting, {Head(readq)})
  BY <1>1, <1>2 DEF Before
<1>4. QED
  BY <1>1, <1>2, <1>3

LEMMA ReadsTaken ==
    ASSUME Types, OneWaits, Reads, readq # <<>>, readq' = Tail(readq), At("wait"),
           waitq = <<>>, waitq' = waitq, UNCHANGED <<served, started, kind>>,
           Waiting' = {Head(readq)} \/ Waiting' = {}
    PROVE  Reads'
<1>. DEFINE h == Head(readq)
            T == ToSet(Tail(readq))
            V == ToSet(served)
<1>1. /\ h \in 1..started /\ ToSet(readq) = T \cup {h}
      /\ Increasing(Tail(readq)) /\ Before({h}, T)
      /\ kind # "interval" => Before(V \cup Waiting, {h})
  BY HeadTaken
<1>2. /\ V \cup Waiting \cup ToSet(readq) \subseteq 1..started
      /\ kind # "interval" => Increasing(served)
      /\ kind # "interval" => Before(V, Waiting \cup ToSet(readq))
  BY DEF Reads
<1>. HIDE DEF h, T, V
<1>3. V \cup Waiting' \cup T \subseteq 1..started
  BY <1>1, <1>2 DEF h
<1>4. kind # "interval" => Before(V, Waiting' \cup T)
  BY <1>1, <1>2 DEF Before, h
<1>5. Before(Waiting', T)
  BY <1>1 DEF Before, h
<1>6. ToSet(readq') = T /\ Increasing(readq')
  BY <1>1 DEF T
<1>7. QED
  BY <1>2, <1>3, <1>4, <1>5, <1>6 DEF Reads, V

(* The read that is answered is the oldest.                                *)
LEMMA ReadsServed ==
    ASSUME Types, OneWaits, Reads, NEW r \in 1..MaxReads, Answer(r),
           ~At("forward"), thread'.req = thread.req,
           \/ kind = "interval"
           \/ waitq = <<>>
           \/ r = Head(waitq) /\ waitq' = Tail(waitq) /\ UNCHANGED readq
    PROVE  Reads'
<1>. DEFINE V == ToSet(served)
<1>1. /\ waitq \in Seq(1..MaxReads) /\ readq \in Seq(1..MaxReads)
      /\ served \in Seq(1..MaxReads) /\ thread.req = NONE
      /\ UNCHANGED <<started, kind>>
  BY DEF Types, OneWaits, Answer
<1>2. Waiting = ToSet(waitq) /\ Waiting' = ToSet(waitq')
  BY <1>1 DEF Waiting
<1>3. served' = Append(served, r)
  BY Served DEF Answer
<1>4. /\ ToSet(served') = V \cup {r}
      /\ Increasing(served) /\ Before(V, {r}) => Increasing(served')
  <2>1. MaxReads \in Nat
    BY SerialAssumption
  <2>2. served \in Seq(1..MaxReads)
    BY <1>1
  <2>3. ToSet(served') = ToSet(served) \cup {r}
    BY <1>3, <2>1, <2>2, EntriesAppend
  <2>4. Increasing(served) /\ Before(ToSet(served), {r}) => Increasing(served')
    BY <1>3, <2>1, <2>2, OrderAppend
  <2>5. QED
    BY <2>3, <2>4
<1>5. /\ V \cup ToSet(waitq) \cup ToSet(readq) \subseteq 1..started
      /\ Increasing(readq)
      /\ kind # "interval" =>
            /\ Increasing(served) /\ Before(V, ToSet(waitq) \cup ToSet(readq))
            /\ Before(ToSet(waitq), ToSet(readq))
  BY <1>2 DEF Reads
<1>. HIDE DEF V
<1>6. CASE waitq # <<>> /\ r = Head(waitq) /\ waitq' = Tail(waitq) /\ UNCHANGED readq
  <2>1. /\ ToSet(waitq) = ToSet(waitq') \cup {r}
    BY <1>1, <1>6, ListTail
  <2>2. ToSet(waitq') = {}
    BY <1>6, NoneWaits, ListEmpty
  <2>3. V \cup {r} \cup ToSet(waitq') \cup ToSet(readq) \subseteq 1..started
    BY <1>5, <2>1
  <2>4. kind # "interval" =>
           /\ Before(V, {r}) /\ Before(V \cup {r}, ToSet(waitq') \cup ToSet(readq))
           /\ Before(ToSet(waitq'), ToSet(readq))
    BY <1>5, <2>1, <2>2 DEF Before
  <2>5. QED
    BY <1>1, <1>2, <1>4, <1>5, <1>6, <2>3, <2>4 DEF Reads
<1>7. CASE readq # <<>> /\ r = Head(readq) /\ readq' = Tail(readq) /\ UNCHANGED waitq
           /\ (kind = "interval" \/ waitq = <<>>)
  <2>1. /\ r \in 1..started /\ ToSet(readq) = ToSet(readq') \cup {r}
        /\ Increasing(readq') /\ Before({r}, ToSet(readq'))
    BY <1>7, HeadTaken
  <2>2. V \cup {r} \cup ToSet(waitq) \cup ToSet(readq') \subseteq 1..started
    BY <1>5, <2>1
  <2>3. kind # "interval" => ToSet(waitq) = {}
    BY <1>7, ListEmpty
  <2>4. kind # "interval" =>
           /\ Before(V, {r}) /\ Before(V \cup {r}, ToSet(waitq) \cup ToSet(readq'))
           /\ Before(ToSet(waitq), ToSet(readq'))
    BY <1>5, <2>1, <2>3 DEF Before
  <2>5. QED
    BY <1>1, <1>2, <1>4, <1>5, <1>7, <2>1, <2>2, <2>4 DEF Reads
<1>8. QED
  BY <1>6, <1>7 DEF Answer

LEMMA ReadsKept ==
    ASSUME Types, OneWaits, RingSeen, Reads, Next
    PROVE  Reads'
<1>1. thread \in Threads /\ UNCHANGED kind
  BY KindStays DEF Types
<1>2. CASE /\ UNCHANGED <<waitq, served, started>> /\ thread'.req = thread.req
           /\ readq' = readq \/ readq' = <<>>
  BY <1>1, <1>2, ReadsLeave DEF Waiting
<1>3. CASE /\ waitq' = <<>> /\ UNCHANGED <<served, started>>
           /\ thread'.req = thread.req
           /\ readq' = readq \/ readq' = <<>>
  BY <1>1, <1>3, ReadsLeave, ListEmpty DEF Waiting
<1>4. CASE StartRead
  BY <1>4, ReadsStarted
<1>5. CASE \/ Open \/ D0Exit \/ D0Entry \/ QueueStarted \/ AbortQueue \/ AbortTimer
           \/ AbortDone \/ Clear \/ BusComplete \/ Unplug \/ TimerExpires
           \/ ReadTimeoutDpc
  BY <1>2, <1>5 DEF Open, D0Exit, D0Entry, QueueStarted, AbortQueue, AbortTimer,
       AbortDone, Clear, BusComplete, Unplug, TimerExpires, ReadTimeoutDpc, queues,
       others, history
<1>6. CASE Close \/ AbortWaiting
  BY <1>3, <1>6 DEF Close, AbortWaiting, others, history
<1>7. CASE FileClose
  <2>1. thread'.req = thread.req
    BY <1>1, <1>7 DEF FileClose, Threads
  <2>2. QED
    BY <1>3, <1>7, <2>1 DEF FileClose
<1>8. CASE \/ FileCreate \/ ClearRequested \/ DeviceD0Exit \/ DeviceD0Entry
           \/ Completion \/ Collect \/ Collected
  <2>1. thread'.req = thread.req
    BY <1>1, <1>8 DEF FileCreate, ClearRequested, DeviceD0Exit, DeviceD0Entry,
         Completion, Collect, Collected, Threads
  <2>2. QED
    BY <1>2, <1>8, <2>1 DEF FileCreate, ClearRequested, DeviceD0Exit, DeviceD0Entry,
         Completion, Collect, Collected, queues, others, history
<1>9. CASE \/ ArriveIgnored \/ ArriveNothing \/ ArriveData \/ Drained \/ Resend
  <2>1. thread'.req = thread.req
    BY <1>1, <1>9 DEF ArriveIgnored, ArriveNothing, ArriveData, Drained, Resend,
         SendWhileRoom, Threads
  <2>2. QED
    BY <1>2, <1>9, <2>1 DEF ArriveIgnored, ArriveNothing, ArriveData, Drained,
         Resend, queues, others, history
<1>10. CASE ArriveTake \/ ArriveNow
  <2>1. /\ readq # <<>> /\ readq' = Tail(readq) /\ At("wait") /\ waitq = <<>>
        /\ UNCHANGED <<waitq, served, started>>
    BY <1>10 DEF ArriveTake, ArriveNow, Deliverable, Arrive, Wakes, others, history
  <2>2. thread.req = NONE
    BY <2>1 DEF OneWaits, At
  <2>3. thread'.req = Head(readq) \/ thread'.req = NONE
    BY <1>1, <1>10, <2>2 DEF ArriveTake, ArriveNow, Threads
  <2>4. ToSet(waitq') = {} /\ Head(readq) # NONE
    <3>1. Head(readq) \in 1..MaxReads
      BY <2>1, HeadTaken
    <3>2. QED
      BY <2>1, <3>1, SerialAssumption, ListEmpty
  <2>5. Waiting' = {Head(readq)} \/ Waiting' = {}
    BY <2>3, <2>4 DEF Waiting
  <2>6. QED
    BY <1>1, <2>1, <2>5, ReadsTaken
<1>11. CASE Forward
  <2>1. /\ thread.req \in 1..MaxReads /\ thread.req # NONE /\ waitq = <<>>
        /\ waitq \in Seq(1..MaxReads) /\ MaxReads \in Nat
    BY <1>1, <1>11, SerialAssumption DEF Forward, OneWaits, Threads, Types
  <2>2. /\ waitq' = Append(waitq, thread.req) /\ thread'.req = NONE
        /\ UNCHANGED <<readq, served, started>>
    BY <1>1, <1>11 DEF Forward, Threads, others, history
  <2>3. ToSet(waitq') = ToSet(waitq) \cup {thread.req}
    <3>1. /\ waitq \in Seq(1..MaxReads) /\ thread.req \in 1..MaxReads
          /\ MaxReads \in Nat
      BY <2>1
    <3>2. QED
      BY <2>2, <3>1, EntriesAppend
  <2>4. Waiting' = Waiting
    BY <2>1, <2>2, <2>3 DEF Waiting
  <2>5. QED
    BY <1>1, <2>2, <2>4, ReadsLeave
<1>12. CASE DrainWaiting \/ DrainQueue
  <2>1. PICK r \in 1..MaxReads : Answer(r)
    BY <1>12, AnswerOutcome
  <2>2. ~At("forward") /\ thread'.req = thread.req
    BY <1>1, <1>12 DEF DrainWaiting, DrainQueue, Resume, At, Threads
  <2>3. CASE DrainQueue
    BY <2>1, <2>2, <2>3, ReadsServed DEF DrainQueue
  <2>4. CASE DrainWaiting
    <3>1. waitq # <<>> /\ waitq' = Tail(waitq) /\ UNCHANGED readq
      BY <2>4 DEF DrainWaiting
    <3>2. Tail(waitq) = <<>>
      BY <3>1, NoneWaits
    <3>3. r = Head(waitq)
      BY <2>1, <3>1, <3>2 DEF Answer
    <3>4. QED
      BY <2>1, <2>2, <3>1, <3>3, ReadsServed
  <2>5. QED
    BY <1>12, <2>3, <2>4
<1>13. CASE TimeoutWithData /\ waitq # <<>>
  <2>1. PICK r \in 1..MaxReads : Answer(r)
    BY <1>13, AnswerOutcome
  <2>2. ~At("forward") /\ thread'.req = thread.req
    BY <1>13 DEF TimeoutWithData, Wakes, At
  <2>3. kind = "interval"
    BY <1>13, TimeoutIdle DEF RingSeen, TimeoutWithData, At
  <2>4. QED
    BY <2>1, <2>2, <2>3, ReadsServed
<1>14. CASE TimeoutWithData /\ waitq = <<>>
  BY <1>2, <1>14 DEF TimeoutWithData, others
<1>15. CASE Timeout
  <2>1. waitq' = <<>> /\ UNCHANGED <<readq, thread, served, started>>
    BY <1>15, NoneWaits DEF Timeout, others, history
  <2>2. QED
    BY <1>3, <2>1
<1>16. QED
  BY <1>4, <1>5, <1>6, <1>7, <1>8, <1>9, <1>10, <1>11, <1>12, <1>13, <1>14, <1>15
     DEF Next

----------------------------------------------------------------------------
LEMMA InitInvariant ==
    ASSUME Init
    PROVE  Invariant
<1>1. /\ ring = <<>> /\ done = <<>> /\ readq = <<>> /\ waitq = <<>> /\ got = <<>>
      /\ served = <<>> /\ free = Urbs /\ pending = 0 /\ sent = 0 /\ lost = {}
      /\ timer = FALSE /\ dpc = FALSE /\ ev = {} /\ started = 0
      /\ thread = [pc |-> "wait", opened |-> FALSE, awake |-> TRUE,
                   overflow |-> FALSE, gone |-> FALSE, failed |-> FALSE,
                   req |-> NONE]
      /\ file = "closed"
  BY DEF Init
<1>2. thread \in Threads /\ Urbs \in Nat /\ MaxReads \in Nat
  BY <1>1, SerialAssumption DEF Threads
<1>3. /\ Len(<<>>) = 0 /\ ToSet(<<>>) = {} /\ DOMAIN <<>> = {} /\ Increasing(<<>>)
      /\ \A S : <<>> \in Seq(S)
  BY ListEmpty
<1>4. Types
  <2>1. /\ ring \in Seq(Nat) /\ done \in Seq(Bursts) /\ got \in Seq(Nat)
        /\ readq \in Seq(1..MaxReads) /\ waitq \in Seq(1..MaxReads)
        /\ served \in Seq(1..MaxReads)
        /\ \A k \in DOMAIN done : Len(done[k].data) <= UrbSize
    BY <1>1, <1>3
  <2>2. /\ free \in Nat /\ pending \in Nat /\ started \in 0..MaxReads
        /\ sent \in Nat /\ lost \subseteq 1..sent
    BY <1>1, <1>2
  <2>3. timer \in BOOLEAN /\ dpc \in BOOLEAN
    BY <1>1
  <2>4. QED
    BY <1>2, <2>1, <2>2, <2>3 DEF Types
<1>5. URBsCounted
  BY <1>1, <1>2, <1>3 DEF URBsCounted
<1>6. /\ PortKnown /\ PortOpened /\ OneWaits /\ ReadTimed /\ Noticed
      /\ RingSeen /\ FreeSent
  BY <1>1, <1>3 DEF PortKnown, PortOpened, Asleep, OneWaits, ReadTimed, Noticed, RingSeen,
                    FreeSent, Idle, At
<1>7. Stream
  <2>1. Bytes(done) = {} /\ (1..sent) \ lost = {}
    BY <1>1, <1>3, BytesOf
  <2>2. QED
    BY <1>1, <1>3, <2>1 DEF Stream, Before
<1>8. Reads
  BY <1>1, <1>3 DEF Reads, Waiting, Before
<1>9. QED
  BY <1>4, <1>5, <1>6, <1>7, <1>8 DEF Invariant

LEMMA InvariantKept ==
    ASSUME Invariant, Next
    PROVE  Invariant'
<1>1. /\ Types /\ URBsCounted /\ PortKnown /\ PortOpened /\ OneWaits
      /\ ReadTimed /\ Noticed /\ RingSeen /\ FreeSent /\ Stream /\ Reads
  BY DEF Invariant
<1>2. Types' /\ URBsCounted' /\ PortKnown' /\ PortOpened' /\ OneWaits'
  BY <1>1, TypesKept, PortKept, OpenedKept, OneWaitsKept
<1>3. ReadTimed' /\ Noticed' /\ RingSeen' /\ FreeSent'
  BY <1>1, ReadTimedKept, NoticedKept, RingSeenKept, FreeSentKept
<1>4. Stream' /\ Reads'
  BY <1>1, StreamKept, ReadsKept
<1>5. QED
  BY <1>2, <1>3, <1>4 DEF Invariant

LEMMA InvariantStays ==
    ASSUME Invariant, UNCHANGED vars
    PROVE  Invariant'
<1>1. UNCHANGED <<buffers, queues, ev, thread, others, history>>
  BY DEF vars
<1>. USE <1>1 DEF Invariant, buffers, queues, others, history
<1>2. Types' /\ URBsCounted'
  BY DEF Types, URBsCounted
<1>3. PortKnown' /\ PortOpened' /\ OneWaits' /\ ReadTimed'
  BY DEF PortKnown, PortOpened, Asleep, OneWaits, ReadTimed, Expiring, At
<1>4. Noticed' /\ RingSeen' /\ FreeSent'
  BY DEF Noticed, RingSeen, Deliverable, FreeSent, Idle, At
<1>5. Stream' /\ Reads'
  BY DEF Stream, Bytes, Reads, Waiting
<1>6. QED
  BY <1>2, <1>3, <1>4, <1>5

----------------------------------------------------------------------------
(* The URBs are counted, the bytes and the reads keep their order, and     *)
(* data, URBs and timers meet the read that waits for them, however the    *)
(* thread, the device, time-outs, power, purges, opens and closes meet.    *)
THEOREM InvariantHolds == Spec => []Invariant
<1>1. Invariant /\ [Next]_vars => Invariant'
  BY InvariantKept, InvariantStays
<1>2. QED
  BY <1>1, InitInvariant, PTL DEF Spec

(* No byte is lost, repeated or overtaken when the ring buffer has no room *)
(* for a completed URB (QCRD.c), and the reads are answered as issued.     *)
THEOREM ServedInOrderAlways == Spec => []ServedInOrder
<1>1. Invariant => ServedInOrder
  <2>1. SUFFICES ASSUME Types, Stream, Reads PROVE ServedInOrder
    BY DEF Invariant
  <2>2. Increasing(got \o ring) /\ ToSet(got \o ring) = ToSet(got) \cup ToSet(ring)
    BY <2>1, ListConcat DEF Types, Stream
  <2>3. ASSUME NEW k \in DOMAIN done
        PROVE  Before(Bytes(SubSeq(done, 1, k - 1)), ToSet(done[k].data))
    <3>1. /\ done \in Seq(Bursts) /\ Len(done) \in Nat /\ k \in 1..Len(done)
          /\ DOMAIN done = 1..Len(done)
      BY <2>1, <2>3, ListFilled DEF Types
    <3>2. k - 1 \in 0..Len(done) /\ k - 1 \in Int
      BY <3>1
    <3>. DEFINE u == SubSeq(done, 1, k - 1)
    <3>3. u \in Seq(Bursts) /\ Len(u) = k - 1
      BY <3>1, <3>2, ListSplit
    <3>4. \A j \in 1..(k - 1) : u[j] = done[j] /\ j \in DOMAIN done /\ j < k
      <4>1. \A j \in 1..(k - 1) : j \in 1..Len(done) /\ j < k /\ 1 + j - 1 = j
        BY <3>1
      <4>2. \A j \in 1..(k - 1) : done[j] \in Bursts
        BY <3>1, <4>1, ListFilled
      <4>3. \A j \in 1..((k - 1) - 1 + 1) : u[j] = done[1 + j - 1]
        BY <3>2, <4>2, SubSeqProperties
      <4>4. (k - 1) - 1 + 1 = k - 1
        BY <3>1
      <4>5. QED
        BY <3>1, <4>1, <4>3, <4>4
    <3>5. DOMAIN u = 1..(k - 1)
      BY <3>3, ListFilled
    <3>. HIDE DEF u
    <3>6. \A b \in Bytes(u) : \E j \in DOMAIN done : j < k /\ b \in ToSet(done[j].data)
      BY <3>4, <3>5, BytesOf
    <3>7. QED
      BY <2>1, <2>3, <3>6 DEF Stream, Before, u
  <2>4. \A k \in DOMAIN done :
           /\ Increasing(done[k].data)
           /\ Before(ToSet(got \o ring) \cup Bytes(SubSeq(done, 1, k - 1)),
                     ToSet(done[k].data))
    BY <2>1, <2>2, <2>3 DEF Stream, Before
  <2>5. ToSet(got \o ring) \cup Bytes(done) = (1..sent) \ lost
    BY <2>1, <2>2 DEF Stream
  <2>6. kind # "interval" => Increasing(served)
    BY <2>1 DEF Reads
  <2>7. QED
    BY <2>2, <2>4, <2>5, <2>6 DEF ServedInOrder
<1>2. QED
  BY <1>1, InvariantHolds, PTL

(* A read and its data are brought together: an event the thread waits for *)
(* is set, whatever found no room in the ring buffer (bBufferOverflow).    *)
THEOREM WaiterGetsDataAlways == Spec => []WaiterGetsData
<1>1. Invariant => WaiterGetsData
  <2>1. SUFFICES ASSUME Types, Noticed, RingSeen, Idle, kind # "interval",
                        waitq # <<>> \/ Deliverable,
                        ring # <<>> \/ Bytes(done) # {},
                        "arrive" \notin ev, "completion" \notin ev
                 PROVE  FALSE
    BY DEF Invariant, WaiterGetsData
  <2>2. ring = <<>>
    BY <2>1 DEF RingSeen, Idle, At
  <2>3. done = <<>>
    BY <2>1, <2>2 DEF Noticed, Idle, At
  <2>4. Bytes(done) = {}
    BY <2>3, ListEmpty, BytesOf
  <2>5. QED
    BY <2>1, <2>2, <2>4
<1>2. QED
  BY <1>1, InvariantHolds, PTL

(* The timer of a read is set before the read is in TimeoutReadQueue, and  *)
(* a purge, which runs beside the thread, stops it after it has waited for *)
(* the read: no read with a total time-out is left without one.            *)
THEOREM WaitingReadTimedAlways == Spec => []WaitingReadTimed
<1>1. Invariant => WaitingReadTimed
  BY DEF Invariant, ReadTimed, Expiring, WaitingReadTimed
<1>2. QED
  BY <1>1, InvariantHolds, PTL

(* While a read waits the device has all URBs.                             *)
THEOREM WaiterFedAlways == Spec => []WaiterFed
<1>1. Invariant => WaiterFed
  <2>1. SUFFICES ASSUME Types, URBsCounted, Noticed, RingSeen, FreeSent, Idle,
                        kind # "interval", waitq # <<>>, ev = {}, ~thread.gone,
                        ~thread.failed
                 PROVE  pending = Urbs
    BY DEF Invariant, WaiterFed
  <2>2. ring = <<>>
    BY <2>1 DEF RingSeen, Idle, At
  <2>3. done = <<>> /\ free = 0
    BY <2>1, <2>2 DEF Noticed, FreeSent, Idle, At
  <2>4. QED
    BY <2>1, <2>3, ListEmpty DEF URBsCounted, Types
<1>2. QED
  BY <1>1, InvariantHolds, PTL

====
