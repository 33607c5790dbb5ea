-------------------------- MODULE QMIResponseStore --------------------------
(***************************************************************************)
(* What the data store of a QMI client promises to its readers, without    *)
(* lists, locks and semaphores: a set of numbered responses.  A reader     *)
(* that asks for a transaction ID is given the oldest pending response     *)
(* that matches, each response is given at most once, and responses are    *)
(* discarded only once the client is being closed.                         *)
(***************************************************************************)
EXTENDS Naturals

CONSTANTS Readers, TxIds, MaxResponses, NONE

VARIABLES
    pending,   \* responses stored and given to nobody yet
    inFlight,  \* responses received and not stored yet
    received,  \* how many responses have been received
    asked,     \* asked[r]: the ID reader r asks for, or NONE
    given,     \* given[r]: the response r's last request returned, or NONE
    closing    \* the client is being released

vars == <<pending, inFlight, received, asked, given, closing>>

Init ==
    /\ pending = {} /\ inFlight = {}
    /\ received = 0
    /\ asked = [r \in Readers |-> NONE]
    /\ given = [r \in Readers |-> NONE]
    /\ closing = FALSE

Matches(t, m) == t = 0 \/ m.tx = t

Receive(t) ==
    /\ inFlight = {}
    /\ received < MaxResponses
    /\ received' = received + 1
    /\ inFlight' = {[id |-> received + 1, tx |-> t]}
    /\ UNCHANGED <<pending, asked, given, closing>>

Store ==
    /\ pending' = pending \cup inFlight
    /\ inFlight' = {}
    /\ UNCHANGED <<received, asked, given, closing>>

Ask(r, t) ==
    /\ asked[r] = NONE
    /\ asked' = [asked EXCEPT ![r] = t]
    /\ given' = [given EXCEPT ![r] = NONE]
    /\ UNCHANGED <<pending, inFlight, received, closing>>

Give(r, m) ==
    /\ asked[r] # NONE
    /\ m \in pending
    /\ Matches(asked[r], m)
    /\ \A n \in pending : Matches(asked[r], n) => m.id <= n.id
    /\ pending' = pending \ {m}
    /\ given' = [given EXCEPT ![r] = m]
    /\ asked' = [asked EXCEPT ![r] = NONE]
    /\ UNCHANGED <<inFlight, received, closing>>

GiveUp(r) ==
    /\ asked[r] # NONE
    /\ asked' = [asked EXCEPT ![r] = NONE]
    /\ UNCHANGED <<pending, inFlight, received, given, closing>>

Close ==
    /\ closing' = TRUE
    /\ UNCHANGED <<pending, inFlight, received, asked, given>>

Discard ==
    /\ closing
    /\ pending' \subseteq pending
    /\ inFlight' \subseteq inFlight
    /\ UNCHANGED <<received, asked, given, closing>>

Next ==
    \/ \E t \in TxIds : Receive(t)
    \/ Store
    \/ \E r \in Readers : \/ \E t \in TxIds : Ask(r, t)
                          \/ \E m \in pending : Give(r, m)
                          \/ GiveUp(r)
    \/ Close
    \/ Discard

Spec == Init /\ [][Next]_vars
=============================================================================
