---------------------------- MODULE FrameOrder ----------------------------
(***************************************************************************)
(* What a frame-threaded decoder promises its client, whatever the number  *)
(* of threads: packets are decoded independently and in any order, but     *)
(* their frames and errors come back in the order of the packets, at most  *)
(* one for each call, each once and none skipped; a flush drops what was   *)
(* not returned yet.                                                       *)
(***************************************************************************)
EXTENDS Naturals

CONSTANT Ids  \* the packets: 1..n, in the order they are submitted

VARIABLES
    submitted,  \* number of packets submitted
    pending,    \* packets submitted and not answered
    yield,      \* what decoding each pending packet gave, "?" before
    returned    \* what the client's call returned: <<packet, what>> or Nothing

vars == <<submitted, pending, yield, returned>>

Nothing == <<0, "none">>
Outcomes == {"frame", "none", "error"}

Init ==
    /\ submitted = 0
    /\ pending = {}
    /\ yield = [id \in Ids |-> "?"]
    /\ returned = Nothing

Submit ==
    /\ submitted + 1 \in Ids
    /\ submitted' = submitted + 1
    /\ pending' = pending \cup {submitted + 1}
    /\ UNCHANGED <<yield, returned>>

Decode(id) ==
    /\ id \in pending
    /\ yield[id] = "?"
    /\ \E what \in Outcomes : yield' = [yield EXCEPT ![id] = what]
    /\ UNCHANGED <<submitted, pending, returned>>

\* The oldest packet, which has the lowest number, is answered, in silence if
\* it gave nothing.
Answer(oldest) ==
    /\ oldest \in pending /\ \A id \in pending : oldest <= id
    /\ yield[oldest] \in Outcomes
    /\ pending' = pending \ {oldest}
    /\ yield' = [yield EXCEPT ![oldest] = "?"]
    /\ returned = Nothing
    /\ returned' = IF yield[oldest] = "none" THEN Nothing ELSE <<oldest, yield[oldest]>>
    /\ UNCHANGED submitted

Flush ==
    /\ pending' = {}
    /\ yield' = [id \in Ids |-> "?"]
    /\ UNCHANGED <<submitted, returned>>

\* The client looks at what it got and calls again.
Call ==
    /\ returned' = Nothing
    /\ UNCHANGED <<submitted, pending, yield>>

Next ==
    \/ Call \/ Submit \/ Flush
    \/ \E id \in Ids : Answer(id) \/ Decode(id)

Spec == Init /\ [][Next]_vars
=============================================================================
