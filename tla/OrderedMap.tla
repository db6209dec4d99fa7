----------------------------- MODULE OrderedMap -----------------------------
(***************************************************************************)
(* What a concurrent map over a source promises its consumer, with no      *)
(* window and no scheduling: results come one by one in the source's       *)
(* order, a failed item ends the stream at its own position, and the       *)
(* stream is complete exactly when everything the source gave was          *)
(* delivered.                                                              *)
(***************************************************************************)
EXTENDS Naturals

CONSTANT MaxItems

VARIABLES
  given,      \* items the source gave so far
  source,     \* "open", "ended" or "broken"
  verdict,    \* per item: "none", "ok" or "err"
  delivered,  \* results the consumer received
  stream      \* "open", "done", "failed" or "closed"

vars == <<given, source, verdict, delivered, stream>>

Item == 0 .. MaxItems - 1

Init ==
  /\ given = 0 /\ source = "open"
  /\ verdict = [i \in Item |-> "none"]
  /\ delivered = 0 /\ stream = "open"

Give ==
  /\ source = "open" /\ stream = "open"
  /\ given < MaxItems /\ given' = given + 1
  /\ UNCHANGED <<source, verdict, delivered, stream>>

\* The source has no more; the stream may be done with it.
End ==
  /\ source = "open" /\ source' = "ended"
  /\ stream' \in {stream} \cup (IF delivered = given THEN {"done"} ELSE {})
  /\ UNCHANGED <<given, verdict, delivered>>

\* The source itself fails, and takes the stream down with it.
Break ==
  /\ source = "open" /\ source' = "broken"
  /\ stream = "open" /\ stream' = "failed"
  /\ UNCHANGED <<given, verdict, delivered>>

Decide(i, v) ==
  /\ i < given /\ verdict[i] = "none"
  /\ verdict' = [verdict EXCEPT ![i] = v]
  /\ UNCHANGED <<given, source>>

\* An item is decided, and possibly delivered, or fatal, in the same step.
DecideItem == \E i \in Item :
  \/ Decide(i, "ok") /\ UNCHANGED <<delivered, stream>>
  \/ Decide(i, "err") /\ UNCHANGED <<delivered, stream>>
  \/ Decide(i, "ok") /\ stream = "open" /\ i = delivered
       /\ delivered' = delivered + 1 /\ UNCHANGED stream
  \/ Decide(i, "err") /\ stream = "open" /\ i = delivered
       /\ stream' = "failed" /\ UNCHANGED delivered

Deliver ==
  /\ stream = "open" /\ delivered < given /\ verdict[delivered] = "ok"
  /\ delivered' = delivered + 1
  /\ UNCHANGED <<given, source, verdict, stream>>

Fail ==
  /\ stream = "open" /\ delivered < given /\ verdict[delivered] = "err"
  /\ stream' = "failed"
  /\ UNCHANGED <<given, source, verdict, delivered>>

Finish ==
  /\ stream = "open" /\ source = "ended" /\ delivered = given
  /\ stream' = "done"
  /\ UNCHANGED <<given, source, verdict, delivered>>

Close ==
  /\ stream = "open" /\ stream' = "closed"
  /\ UNCHANGED <<given, source, verdict, delivered>>

Next == Give \/ End \/ Break \/ DecideItem \/ Deliver \/ Fail \/ Finish \/ Close

Spec == Init /\ [][Next]_vars
=============================================================================
