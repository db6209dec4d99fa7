----------------------- MODULE StreamTraversal_proofs -----------------------
(***************************************************************************)
(* Invariance proofs for StreamTraversal, for any number of readers, any   *)
(* capacity and any length of the walk; and for the registries that a walk *)
(* finds its adapters and schemas in, which share no state with it, for    *)
(* any registrations and adapters.                                         *)
(***************************************************************************)
EXTENDS StreamTraversal, Registries, FiniteSetTheorems, SequenceTheorems, TLAPS

(***************************************************************************)
(* The inductive invariant, in named parts.                                *)
(***************************************************************************)

\* The readers' events and then the buffer's are numbered on from the first.
Numbered ==
  /\ \A i \in 1 .. Len(delivered) : delivered[i] = i
  /\ \A i \in 1 .. Len(buffer) : buffer[i] = Len(delivered) + i

\* A producer that pulls has room; one that parks has left an event and the slot.
Room ==
  /\ Len(buffer) <= capacity
  /\ producer = "pulling" => Len(buffer) < capacity
  /\ notifyProducer <=> producer = "parked"
  /\ producer = "parked" => buffer # <<>>

\* Nothing was dropped of a walk that is still pulled or that told its own end.
AllKept ==
  /\ producer # "ended" \/ (terminal = "walk" /\ returning # "done")
       => Len(delivered) + Len(buffer) = produced
  /\ returning = "done" => producer = "ended"

\* Who may have ended the stream, and what then is terminal.
EndKnown ==
  /\ walk # "running" => producer = "ended"
  /\ producer = "ended" => finished
  /\ terminal = "walk" => walk = "done" /\ producer = "ended"
  /\ terminal = "aborted" => walk # "done" /\ signalled
  /\ finished => producer = "ended" \/ signalled
  /\ finished /\ terminal = "none" => walk \in {"failed", "aborted"} \/ cancelled
  /\ cancelled <=> returning # "no"
  /\ cancelled => completed

\* The terminal event came last, and only once.
ToldOnce ==
  /\ Len(completes) <= 1
  /\ completes # <<>> => completed /\ finished /\ buffer = <<>>

\* An error is kept or told, never both, and it is kept past the terminal event
\* only where the signal came first.
ErrorKnown ==
  /\ failure => thrown = 0
  /\ thrown \in {0, 1}
  /\ walk \in {"failed", "aborted"} <=> failure \/ thrown = 1
  /\ completes # <<>> /\ failure => signalled

IInv == TypeOK /\ Numbered /\ Room /\ AllKept /\ EndKnown /\ ToldOnce /\ ErrorKnown

(***************************************************************************)
(* Facts about the pieces of the actions.                                  *)
(***************************************************************************)

LEMMA CapacityPositive == capacity \in Nat /\ capacity >= 1
BY StreamAssumption DEF capacity

LEMMA HeadIsFirst ==
  ASSUME NEW S, NEW s \in Seq(S), s # <<>>
  PROVE  Head(s) = s[1] /\ s[1] \in S
<1>1. 1 \in 1 .. Len(s)
  BY EmptySeq
<1>2. Head(s) = s[1]
  BY SMT
<1> QED
  BY <1>1, <1>2, ElementOfSeq

LEMMA Wakes ==
  ASSUME TypeOK, wakeConsumer
  PROVE  notifyConsumer' \in Readers \cup {None} /\ reader' \in [Readers -> {"idle", "parked", "woken"}]
BY DEF TypeOK, wakeConsumer

LEMMA Initial == Init => IInv
<1> SUFFICES ASSUME Init PROVE IInv
  OBVIOUS
<1>1. Len(delivered) = 0 /\ Len(buffer) = 0 /\ Len(completes) = 0
  BY DEF Init
<1>2. buffer \in Seq(1 .. MaxEvents) /\ delivered \in Seq(1 .. MaxEvents) /\ completes \in Seq({"walk", "aborted"})
  BY DEF Init
<1>3. reader \in [Readers -> {"idle", "parked", "woken"}] /\ produced \in 0 .. MaxEvents
  BY StreamAssumption DEF Init
<1>4. TypeOK
  BY <1>2, <1>3, Zenon DEF Init, TypeOK
<1>5. Numbered /\ Room /\ AllKept /\ EndKnown /\ ToldOnce /\ ErrorKnown
  BY <1>1, CapacityPositive DEF Init, Numbered, Room, AllKept, EndKnown, ToldOnce, ErrorKnown
<1> QED
  BY <1>4, <1>5 DEF IInv

LEMMA YieldsKept ==
  ASSUME IInv, WalkYields PROVE IInv'
<1> USE DEF IInv
<1>1. /\ producer = "pulling" /\ walk = "running" /\ produced < MaxEvents /\ produced' = produced + 1
      /\ UNCHANGED <<walk, failure, terminal, cancelled, signalled, returning, completed, delivered, completes, thrown>>
      /\ wakeConsumer
  BY DEF WalkYields, EndProducer, stopVars, outVars
<1>2. notifyConsumer' \in Readers \cup {None} /\ reader' \in [Readers -> {"idle", "parked", "woken"}]
  BY <1>1, Wakes
<1>3. CASE Over
  <2>1. producer' = "ended" /\ finished' = TRUE /\ UNCHANGED <<buffer, notifyProducer>>
    BY <1>3 DEF WalkYields, EndProducer
  <2>2. TypeOK'
    BY <1>1, <1>2, <2>1, StreamAssumption DEF TypeOK
  <2>3. Numbered' /\ Room' /\ AllKept' /\ ToldOnce' /\ ErrorKnown'
    BY <1>1, <2>1 DEF Numbered, Room, AllKept, ToldOnce, ErrorKnown, EndKnown
  <2>4. EndKnown'
    BY <1>1, <1>3, <2>1 DEF EndKnown, Over
  <2> QED
    BY <2>2, <2>3, <2>4
<1>4. CASE ~Over
  <2>1. /\ buffer' = Append(buffer, produced + 1) /\ UNCHANGED finished
        /\ \/ Full(buffer') /\ producer' = "parked" /\ notifyProducer' = TRUE
           \/ ~Full(buffer') /\ UNCHANGED <<producer, notifyProducer>>
    BY <1>4 DEF WalkYields, Park
  <2>2. /\ buffer \in Seq(1 .. MaxEvents) /\ delivered \in Seq(1 .. MaxEvents)
        /\ produced \in Nat /\ produced + 1 \in 1 .. MaxEvents
        /\ Len(delivered) \in Nat /\ Len(buffer) \in Nat
        /\ Len(delivered) + Len(buffer) = produced
    BY <1>1, StreamAssumption DEF TypeOK, AllKept
  <2>3. /\ buffer' \in Seq(1 .. MaxEvents) /\ Len(buffer') = Len(buffer) + 1 /\ buffer' # <<>>
        /\ \A i \in 1 .. Len(buffer) : buffer'[i] = buffer[i]
        /\ buffer'[Len(buffer) + 1] = produced + 1
    BY <2>1, <2>2
  <2>4. TypeOK'
    <3>1. produced' \in 0 .. MaxEvents
      BY <1>1, <2>2, StreamAssumption
    <3>2. producer' \in {"pulling", "parked", "woken", "ended"} /\ notifyProducer' \in BOOLEAN
      BY <2>1 DEF TypeOK
    <3> QED
      BY <1>1, <1>2, <2>1, <2>3, <3>1, <3>2 DEF TypeOK
  <2>5. Numbered'
    <3>1. ASSUME NEW i \in 1 .. Len(buffer') PROVE buffer'[i] = Len(delivered) + i
      <4>1. CASE i \in 1 .. Len(buffer)
        BY <2>3, <4>1 DEF Numbered
      <4>2. CASE i = Len(buffer) + 1
        BY <2>2, <2>3, <4>2
      <4> QED
        BY <2>2, <2>3, <4>1, <4>2
    <3> QED
      BY <1>1, <3>1 DEF Numbered
  <2>6. Room'
    BY <1>1, <2>1, <2>2, <2>3, CapacityPositive DEF Room, Full
  <2>7. AllKept' /\ EndKnown' /\ ToldOnce'
    BY <1>1, <1>4, <2>1, <2>2, <2>3 DEF AllKept, EndKnown, ToldOnce, Over
  <2>8. ErrorKnown'
    BY <1>1 DEF ErrorKnown
  <2> QED
    BY <2>4, <2>5, <2>6, <2>7, <2>8
<1> QED
  BY <1>3, <1>4

LEMMA StopsKept ==
  ASSUME IInv, WalkStops PROVE IInv'
<1> USE DEF IInv
<1>1. /\ producer = "pulling" /\ walk = "running" /\ producer' = "ended" /\ finished' = TRUE
      /\ UNCHANGED <<produced, notifyProducer, buffer, cancelled, signalled, returning, completed, delivered, completes, thrown>>
      /\ wakeConsumer
      /\ \/ walk' = "done" /\ terminal' = "walk" /\ failure' = failure
         \/ walk' \in {"failed", "aborted"} /\ failure' = TRUE /\ terminal' = terminal
  BY DEF WalkStops, EndProducer, stopVars, outVars
<1>2. TypeOK'
  BY <1>1, Wakes DEF TypeOK
<1>3. Numbered' /\ Room' /\ AllKept' /\ ToldOnce'
  BY <1>1 DEF Numbered, Room, AllKept, ToldOnce
<1>4. EndKnown'
  BY <1>1 DEF EndKnown
<1>5. ErrorKnown'
  <2>1. thrown = 0 /\ ~failure
    BY <1>1 DEF ErrorKnown
  <2>2. completes # <<>> => signalled
    BY <1>1 DEF ToldOnce, EndKnown
  <2>3. CASE walk' = "done" /\ failure' = failure
    BY <1>1, <2>1, <2>3 DEF ErrorKnown
  <2>4. CASE walk' \in {"failed", "aborted"} /\ failure' = TRUE
    BY <1>1, <2>1, <2>2, <2>4 DEF ErrorKnown
  <2> QED
    BY <1>1, <2>3, <2>4
<1> QED
  BY <1>2, <1>3, <1>4, <1>5

LEMMA ProducerWakesKept ==
  ASSUME IInv, ProducerWakes PROVE IInv'
<1> USE DEF IInv
<1>1. /\ producer = "woken" /\ producer' \in {"pulling", "parked", "woken", "ended"}
      /\ UNCHANGED <<walk, produced, failure, terminal, buffer, cancelled, signalled, returning, completed,
                     delivered, completes, thrown>>
      /\ \/ Over /\ wakeConsumer /\ producer' = "ended" /\ finished' = TRUE /\ notifyProducer' = notifyProducer
         \/ /\ ~Over /\ UNCHANGED <<finished, notifyConsumer, reader>>
            /\ \/ Full(buffer) /\ producer' = "parked" /\ notifyProducer' = TRUE
               \/ ~Full(buffer) /\ producer' = "pulling" /\ notifyProducer' = notifyProducer
  BY DEF ProducerWakes, EndProducer, Park, walkVars, stopVars, outVars, callVars
<1>2. TypeOK'
  <2>1. notifyConsumer' \in Readers \cup {None} /\ reader' \in [Readers -> {"idle", "parked", "woken"}]
    BY <1>1, Wakes DEF TypeOK
  <2>2. finished' \in BOOLEAN /\ notifyProducer' \in BOOLEAN
    BY <1>1, Zenon DEF TypeOK
  <2> QED
    BY <1>1, <2>1, <2>2 DEF TypeOK
<1>3. Numbered' /\ AllKept' /\ ToldOnce' /\ ErrorKnown'
  BY <1>1 DEF Numbered, AllKept, EndKnown, ToldOnce, ErrorKnown
<1>4. Room'
  <2>1. buffer \in Seq(1 .. MaxEvents) /\ Len(buffer) \in Nat
    BY DEF TypeOK
  <2> QED
    BY <1>1, <2>1, CapacityPositive DEF Room, Full
<1>5. EndKnown'
  BY <1>1 DEF EndKnown, Over
<1> QED
  BY <1>2, <1>3, <1>4, <1>5

\* A reader takes the event that is next in walk order.
LEMMA TakesKept ==
  ASSUME IInv, TakesEvent, NEW r \in Readers, reader' = [reader EXCEPT ![r] = "idle"],
         UNCHANGED <<walkVars, finished, terminal, notifyConsumer, stopVars>>
  PROVE  IInv'
<1> USE DEF IInv
<1>1. /\ buffer # <<>> /\ delivered' = Append(delivered, Head(buffer)) /\ buffer' = Tail(buffer)
      /\ producer' = (IF notifyProducer THEN "woken" ELSE producer) /\ notifyProducer' = FALSE
      /\ UNCHANGED <<failure, completed, completes, thrown, walk, produced, finished, terminal, notifyConsumer,
                     cancelled, signalled, returning>>
  BY DEF TakesEvent, wakeProducer, walkVars, stopVars
<1>2. /\ buffer \in Seq(1 .. MaxEvents) /\ delivered \in Seq(1 .. MaxEvents)
      /\ Len(buffer) \in Nat /\ Len(buffer) >= 1 /\ Len(delivered) \in Nat
  BY <1>1 DEF TypeOK
<1>head. Head(buffer) = buffer[1] /\ Head(buffer) \in 1 .. MaxEvents
  BY <1>1, <1>2, HeadIsFirst
<1>3. /\ delivered' \in Seq(1 .. MaxEvents) /\ Len(delivered') = Len(delivered) + 1
      /\ \A i \in 1 .. Len(delivered) : delivered'[i] = delivered[i]
      /\ delivered'[Len(delivered) + 1] = buffer[1]
  BY <1>1, <1>2, <1>head
<1>4. /\ buffer' \in Seq(1 .. MaxEvents) /\ Len(buffer') = Len(buffer) - 1
      /\ \A i \in 1 .. Len(buffer') : buffer'[i] = buffer[i + 1]
  BY <1>1, <1>2
<1>5. TypeOK'
  BY <1>1, <1>3, <1>4 DEF TypeOK
<1>6. Numbered'
  <2>1. buffer[1] = Len(delivered) + 1
    BY <1>2 DEF Numbered
  <2>2. ASSUME NEW i \in 1 .. Len(delivered') PROVE delivered'[i] = i
    <3>1. CASE i \in 1 .. Len(delivered)
      BY <1>3, <3>1 DEF Numbered
    <3>2. CASE i = Len(delivered) + 1
      BY <1>3, <2>1, <3>2
    <3> QED
      BY <1>2, <1>3, <3>1, <3>2
  <2>3. ASSUME NEW i \in 1 .. Len(buffer') PROVE buffer'[i] = Len(delivered') + i
    BY <1>2, <1>3, <1>4 DEF Numbered
  <2> QED
    BY <2>2, <2>3 DEF Numbered
<1>7. Room'
  BY <1>1, <1>2, <1>4, CapacityPositive DEF Room, TypeOK
<1>8. AllKept'
  <2>1. producer' = "ended" <=> producer = "ended"
    BY <1>1 DEF Room
  <2>2. Len(delivered') + Len(buffer') = Len(delivered) + Len(buffer)
    BY <1>2, <1>3, <1>4
  <2> QED
    BY <1>1, <2>1, <2>2 DEF AllKept
<1>9. EndKnown' /\ ToldOnce' /\ ErrorKnown'
  BY <1>1 DEF EndKnown, ToldOnce, ErrorKnown, Room, TypeOK
<1> QED
  BY <1>5, <1>6, <1>7, <1>8, <1>9

\* The terminal event: what it says of the walk, and that it is told once.
LEMMA CompletesTruthful ==
  ASSUME IInv, Completes
  PROVE  /\ buffer = <<>> /\ finished /\ completed' = TRUE /\ Len(completes') <= 1
         /\ completes' \in Seq({"walk", "aborted"})
         /\ \/ completed /\ completes' = completes
            \/ ~completed /\ completes = <<>> /\ completes' = <<Summary>>
<1> USE DEF IInv
<1>1. buffer = <<>> /\ finished /\ completed' = TRUE /\ completes' = completes \o TerminalEvents
  BY DEF Completes
<1>2. completes \in Seq({"walk", "aborted"}) /\ Len(completes) <= 1 /\ completed \in BOOLEAN
      /\ (completes # <<>> => completed)
  BY DEF TypeOK, ToldOnce
<1>3. Summary \in {"walk", "aborted"}
  BY DEF Summary
<1>4. CASE completed
  <2>1. TerminalEvents = <<>>
    BY <1>4 DEF TerminalEvents
  <2>2. completes' = completes
    BY <1>1, <1>2, <2>1
  <2> QED
    BY <1>1, <1>2, <1>4, <2>2
<1>5. CASE ~completed
  <2>1. completes = <<>> /\ TerminalEvents = <<Summary>>
    BY <1>2, <1>5 DEF TerminalEvents
  <2>2. completes' = <<Summary>>
    BY <1>1, <1>3, <2>1
  <2>3. completes' \in Seq({"walk", "aborted"}) /\ Len(completes') = 1
    BY <1>3, <2>2
  <2> QED
    BY <1>1, <1>5, <2>1, <2>2, <2>3
<1> QED
  BY <1>2, <1>4, <1>5

LEMMA AnsweredKept ==
  ASSUME IInv, NEW r \in Readers, Answered(r) PROVE IInv'
<1> USE DEF IInv
<1>1. /\ reader' = [reader EXCEPT ![r] = "idle"]
      /\ UNCHANGED <<walkVars, finished, terminal, notifyConsumer, stopVars>>
  BY DEF Answered
<1>2. CASE TakesEvent
  BY <1>1, <1>2, TakesKept
<1>3. CASE Throws
  <2>1. /\ buffer = <<>> /\ failure /\ failure' = FALSE /\ thrown' = thrown + 1
        /\ UNCHANGED <<producer, notifyProducer, buffer, completed, delivered, completes, walk, produced, finished,
                       terminal, notifyConsumer, cancelled, signalled, returning>>
    BY <1>1, <1>3 DEF Throws, queueVars, outVars, walkVars, stopVars
  <2>2. reader' \in [Readers -> {"idle", "parked", "woken"}]
    BY <1>1 DEF TypeOK
  <2>3. TypeOK'
    <3>1. failure' \in BOOLEAN
      BY <2>1
    <3>2. thrown' = 1
      BY <2>1 DEF ErrorKnown
    <3>3. thrown' \in Nat
      BY <3>2
    <3> QED
      BY <2>1, <2>2, <3>1, <3>3 DEF TypeOK
  <2> QED
    BY <2>1, <2>3 DEF Numbered, Room, AllKept, EndKnown, ToldOnce, ErrorKnown
<1>4. CASE Completes
  <2>1. /\ ~failure
        /\ UNCHANGED <<producer, notifyProducer, buffer, failure, delivered, thrown, walk, produced, finished,
                       terminal, notifyConsumer, cancelled, signalled, returning>>
    BY <1>1, <1>4 DEF Completes, queueVars, walkVars, stopVars
  <2>2. /\ buffer = <<>> /\ finished /\ completed' = TRUE /\ Len(completes') <= 1
        /\ completes' \in Seq({"walk", "aborted"})
    BY <1>4, CompletesTruthful
  <2>3. TypeOK'
    BY <1>1, <2>1, <2>2 DEF TypeOK
  <2> QED
    BY <2>1, <2>2, <2>3 DEF Numbered, Room, AllKept, EndKnown, ToldOnce, ErrorKnown
<1> QED
  BY <1>2, <1>3, <1>4 DEF Answered

LEMMA ParksKept ==
  ASSUME IInv, NEW r \in Readers, Parks(r) PROVE IInv'
<1> USE DEF IInv
<1>1. /\ reader' = [reader EXCEPT ![r] = "parked"] /\ notifyConsumer' = r
      /\ UNCHANGED <<walk, produced, finished, failure, terminal, producer, notifyProducer, buffer,
                     cancelled, signalled, returning, completed, delivered, completes, thrown>>
  BY DEF Parks, walkVars, endVars, queueVars, stopVars, outVars
<1>2. TypeOK'
  BY <1>1 DEF TypeOK
<1> QED
  BY <1>1, <1>2 DEF Numbered, Room, AllKept, EndKnown, ToldOnce, ErrorKnown

LEMMA AbortKept ==
  ASSUME IInv, Abort PROVE IInv'
<1> USE DEF IInv
<1>1. /\ signalled' = TRUE
      /\ UNCHANGED <<walk, produced, failure, buffer, cancelled, returning, completed, delivered, completes, thrown>>
      /\ \/ /\ ~finished /\ terminal' = "aborted" /\ finished' = TRUE /\ wakeConsumer
            /\ producer' = (IF notifyProducer THEN "woken" ELSE producer) /\ notifyProducer' = FALSE
         \/ finished /\ UNCHANGED <<terminal, finished, producer, notifyProducer, notifyConsumer, reader>>
  BY DEF Abort, Abortable, wakeProducer, walkVars, outVars, callVars
<1>2. TypeOK'
  <2>1. notifyConsumer' \in Readers \cup {None} /\ reader' \in [Readers -> {"idle", "parked", "woken"}]
    BY <1>1, Wakes DEF TypeOK
  <2>2. /\ finished' \in BOOLEAN /\ notifyProducer' \in BOOLEAN /\ terminal' \in {"none", "walk", "aborted"}
        /\ producer' \in {"pulling", "parked", "woken", "ended"}
    BY <1>1, Zenon DEF TypeOK
  <2> QED
    BY <1>1, <2>1, <2>2, Zenon DEF TypeOK
<1>3. Numbered' /\ ToldOnce' /\ ErrorKnown'
  BY <1>1 DEF Numbered, ToldOnce, ErrorKnown
<1>4. Room' /\ AllKept' /\ EndKnown'
  BY <1>1 DEF Room, AllKept, EndKnown, TypeOK
<1> QED
  BY <1>2, <1>3, <1>4

LEMMA ReturnKept ==
  ASSUME IInv, Return PROVE IInv'
<1> USE DEF IInv
<1>1. /\ returning = "no" /\ returning' = "waiting" /\ cancelled' = TRUE /\ completed' = TRUE /\ wakeConsumer
      /\ producer' = (IF notifyProducer THEN "woken" ELSE producer) /\ notifyProducer' = FALSE
      /\ UNCHANGED <<walk, produced, finished, failure, terminal, buffer, signalled, delivered, completes, thrown>>
  BY DEF Return, GiveUpTerminal, wakeProducer, walkVars, endVars
<1>2. TypeOK'
  BY <1>1, Wakes DEF TypeOK
<1>3. Numbered' /\ ToldOnce' /\ ErrorKnown'
  BY <1>1 DEF Numbered, ToldOnce, ErrorKnown
<1>4. Room' /\ AllKept' /\ EndKnown'
  BY <1>1 DEF Room, AllKept, EndKnown, TypeOK
<1> QED
  BY <1>2, <1>3, <1>4

LEMMA ReturnedKept ==
  ASSUME IInv, Returned PROVE IInv'
<1> USE DEF IInv
<1>1. /\ returning = "waiting" /\ producer = "ended" /\ returning' = "done" /\ buffer' = <<>>
      /\ UNCHANGED <<walk, produced, finished, failure, terminal, producer, notifyProducer, notifyConsumer, reader,
                     cancelled, signalled, completed, delivered, completes, thrown>>
  BY DEF Returned, walkVars, endVars, callVars, outVars
<1>2. TypeOK'
  BY <1>1 DEF TypeOK
<1>3. Len(buffer') = 0
  BY <1>1
<1> QED
  BY <1>1, <1>2, <1>3, CapacityPositive DEF Numbered, Room, AllKept, EndKnown, ToldOnce, ErrorKnown

\* The strengthened invariant holds whatever the walk, its readers, the signal
\* and return() do (streamTraversal).
THEOREM Inductive == Spec => []IInv
<1>1. ASSUME IInv, [Next]_vars PROVE IInv'
  <2>1. CASE UNCHANGED vars
    BY <1>1, <2>1 DEF IInv, TypeOK, Numbered, Room, AllKept, EndKnown, ToldOnce, ErrorKnown, vars, walkVars, endVars,
      queueVars, callVars, stopVars, outVars
  <2>2. ASSUME NEW r \in Readers, CallsNext(r) \/ ReaderWakes(r) PROVE IInv'
    BY <1>1, <2>2, AnsweredKept, ParksKept DEF CallsNext, ReaderWakes
  <2> QED
    BY <1>1, <2>1, <2>2, YieldsKept, StopsKept, ProducerWakesKept, AbortKept, ReturnKept, ReturnedKept
    DEF Next, Producer
<1> QED
  BY <1>1, Initial, PTL DEF Spec

\* Every variable of the streaming boundary keeps its type.
THEOREM TypeCorrect == Spec => []TypeOK
<1>1. IInv => TypeOK
  BY DEF IInv
<1> QED
  BY <1>1, Inductive, PTL

\* The readers together get the walk's events in order, from a buffer that is
\* never over its capacity and over which nobody waits for the other for ever.
THEOREM BufferFaithfulAlways == Spec => []BufferFaithful
<1>1. ASSUME IInv PROVE BufferFaithful
  <2> USE <1>1 DEF IInv
  <2>1. BufferBounded /\ NoMutualWait
    BY DEF BufferBounded, NoMutualWait, Room
  <2>2. /\ delivered \in Seq(1 .. MaxEvents) /\ buffer \in Seq(1 .. MaxEvents)
        /\ Len(delivered) \in Nat /\ Len(buffer) \in Nat
    BY DEF TypeOK
  <2>3. /\ delivered \o buffer \in Seq(1 .. MaxEvents)
        /\ Len(delivered \o buffer) = Len(delivered) + Len(buffer)
        /\ \A i \in 1 .. Len(delivered) + Len(buffer) :
             (delivered \o buffer)[i] = IF i <= Len(delivered) THEN delivered[i] ELSE buffer[i - Len(delivered)]
    BY <2>2, ConcatProperties
  <2>4. ASSUME NEW i \in 1 .. Len(delivered) + Len(buffer) PROVE (delivered \o buffer)[i] = i
    BY <2>2, <2>3 DEF Numbered
  <2>5. /\ DOMAIN (delivered \o buffer) = 1 .. Len(delivered) + Len(buffer)
        /\ delivered \o buffer = [i \in DOMAIN (delivered \o buffer) |-> (delivered \o buffer)[i]]
    BY <2>2, <2>3, LenProperties
  <2>6. InWalkOrder
    BY <2>4, <2>5, Zenon DEF InWalkOrder
  <2> QED
    BY <2>1, <2>6 DEF BufferFaithful
<1> QED
  BY <1>1, Inductive, PTL

\* A stream ends once and says truthfully how: its walk's own summary after
\* every event, an aborted one only of a walk that did not finish; no event
\* follows, and an error is thrown once, late only where the signal came first.
THEOREM EndsTruthfullyAlways == Spec => EndsTruthfully
<1>1. IInv => Len(completes) <= 1
  BY DEF IInv, ToldOnce
<1>2. ASSUME IInv, [Next]_vars
      PROVE  \/ UNCHANGED completes
             \/ /\ ~completed /\ completes = <<>> /\ completes' = <<Summary>> /\ finished /\ buffer = <<>>
                /\ ~failure /\ delivered' = delivered
  <2>1. ASSUME NEW r \in Readers, Answered(r), Completes
        PROVE  completes' = completes \/ (~completed /\ completes = <<>> /\ completes' = <<Summary>>
                                          /\ finished /\ buffer = <<>> /\ ~failure /\ delivered' = delivered)
    BY <1>2, <2>1, CompletesTruthful DEF Completes
  <2> QED
    BY <1>2, <2>1
    DEF vars, outVars, Next, Producer, WalkYields, WalkStops, ProducerWakes, CallsNext, ReaderWakes, Answered,
      TakesEvent, Throws, Parks, Abort, Return, Returned
<1>3. ASSUME IInv, [Next]_vars, returning # "no" PROVE completes' = completes
  BY <1>2, <1>3 DEF IInv, EndKnown
<1>4. ASSUME IInv, [Next]_vars, completes # <<>> PROVE delivered' = delivered
  <2>1. buffer = <<>>
    BY <1>4 DEF IInv, ToldOnce
  <2> QED
    BY <1>4, <2>1
    DEF vars, outVars, Next, Producer, WalkYields, WalkStops, ProducerWakes, CallsNext, ReaderWakes, Answered,
      TakesEvent, Throws, Completes, Parks, Abort, Return, Returned
<1>5. ASSUME IInv, [Next]_vars, completes' # completes
      PROVE  IF completes'[1] = "walk" THEN walk = "done" /\ Len(delivered) = produced
             ELSE walk # "done" /\ (signalled \/ thrown = 1)
  <2>1. /\ ~completed /\ completes'[1] = Summary /\ finished /\ Len(buffer) = 0 /\ ~failure
    BY <1>2, <1>5
  <2>2. ~cancelled /\ returning = "no"
    BY <1>5, <2>1 DEF IInv, EndKnown
  <2>3. CASE terminal = "walk"
    BY <1>5, <2>1, <2>2, <2>3 DEF IInv, EndKnown, AllKept, TypeOK, Summary
  <2>4. CASE terminal # "walk"
    BY <1>5, <2>1, <2>2, <2>4 DEF IInv, EndKnown, ErrorKnown, TypeOK, Summary
  <2> QED
    BY <2>3, <2>4
<1>6. ASSUME IInv, [Next]_vars, thrown' # thrown PROVE walk # "done" /\ (completes = <<>> \/ signalled)
  <2>1. failure
    BY <1>6
    DEF vars, outVars, Next, Producer, WalkYields, WalkStops, ProducerWakes, CallsNext, ReaderWakes, Answered,
      TakesEvent, Throws, Completes, Parks, Abort, Return, Returned
  <2> QED
    BY <1>6, <2>1 DEF IInv, ErrorKnown
<1>7. IInv => thrown <= 1
  BY DEF IInv, ErrorKnown
<1> QED
  BY <1>1, <1>3, <1>4, <1>5, <1>6, <1>7, Inductive, PTL
  DEF Spec, EndsTruthfully, OneComplete, SummaryTruthful, NothingAfterComplete, ErrorToldOnce

-----------------------------------------------------------------------------
(***************************************************************************)
(* The registries.                                                         *)
(***************************************************************************)

\* Once a lookup has found an adapter it always finds that one.
THEOREM LookupsStableAlways == RegistriesSpec => LookupsStable
<1>1. ASSUME [RegistriesNext]_registriesVars
      PROVE  \A options \in lookups, key \in {a.key : a \in Adapters} :
               LookupAdapter(options, key) # Undefined =>
                 LookupAdapter(options, key)' = LookupAdapter(options, key)
  <2>1. SUFFICES ASSUME NEW options \in lookups, NEW key \in {a.key : a \in Adapters},
                        LookupAdapter(options, key) # Undefined
                 PROVE  LookupAdapter(options, key)' = LookupAdapter(options, key)
    OBVIOUS
  <2>2. CASE UNCHANGED adapters
    BY <2>2 DEF LookupAdapter, AdaptersOf
  <2>3. ASSUME NEW a \in Adapters, RegisterAdapter(a)
        PROVE  LookupAdapter(options, key)' = LookupAdapter(options, key)
    <3>1. CASE options.adapters # Undefined
      BY <3>1 DEF LookupAdapter, AdaptersOf
    <3>2. CASE options.adapters = Undefined
      <4>1. key \in DOMAIN adapters
        BY <2>1, <3>2 DEF LookupAdapter, AdaptersOf
      <4>2. adapters' = adapters \/ adapters' = Put(adapters, a.key, a)
        BY <2>3 DEF RegisterAdapter
      <4>3. adapters' # adapters => a.key \notin DOMAIN adapters \/ adapters[a.key] = a
        BY <2>3 DEF RegisterAdapter, AdapterConflicts
      <4>4. key \in DOMAIN adapters' /\ adapters'[key] = adapters[key]
        BY <4>1, <4>2, <4>3 DEF Put
      <4> QED BY <4>1, <4>4, <3>2 DEF LookupAdapter, AdaptersOf
    <3> QED BY <3>1, <3>2
  <2> QED BY <1>1, <2>2, <2>3 DEF RegistriesNext, registriesVars, Register, Import, CreateLookup
<1> QED BY <1>1, PTL DEF RegistriesSpec, LookupsStable

\* Induction over the natural numbers, for a property that is a set.
LEMMA SetInduction ==
  ASSUME NEW S, 0 \in S, \A k \in Nat : k \in S => k + 1 \in S
  PROVE  \A n \in Nat : n \in S
<1>1. SUFFICES ASSUME NEW n \in Nat, n \notin S PROVE FALSE
  OBVIOUS
<1> DEFINE A == {k \in 0 .. n : k \in S}
           f == [k \in A |-> k + 1]
<1>2. \A k \in A : k + 1 \in A \ {0}
  BY <1>1
<1>3. f \in Injection(A, A \ {0})
  BY <1>2 DEF Injection, IsInjective
<1>4. IsFiniteSet(A) /\ Cardinality(A) \in Nat
  <2>1. IsFiniteSet(0 .. n)
    BY FS_Interval
  <2>2. A \in SUBSET (0 .. n)
    OBVIOUS
  <2>3. IsFiniteSet(A)
    BY <2>1, <2>2, FS_Subset
  <2> QED BY <2>3, FS_CardinalityType
<1>5. IsFiniteSet(A \ {0}) /\ Cardinality(A \ {0}) = Cardinality(A) - 1
  <2>1. 0 \in A
    BY <1>1
  <2> QED BY <2>1, <1>4, FS_RemoveElement
<1>6. Cardinality(A) <= Cardinality(A \ {0})
  BY <1>3, <1>5, FS_Injection
<1> QED BY <1>4, <1>5, <1>6

-----------------------------------------------------------------------------
(* What one registration does to the state of the schema registry.         *)

\* The committed dependencies are what the shared Ajv instance holds.
Agreeing(st) == \A id \in DOMAIN st.canonical : id \in DOMAIN st.ajv /\ st.ajv[id] = st.canonical[id]

\* Every map of a module and of a version leads to an entry under a known key.
Nested(map) ==
  \A m \in DOMAIN map :
    /\ \E v \in DOMAIN map[m] : TRUE
    /\ \A v \in DOMAIN map[m] :
         /\ \E k \in DOMAIN map[m][v] : TRUE
         /\ \A k \in DOMAIN map[m][v] : \E key \in Keys : key[1] = m /\ key[2] = v /\ key[3] = k

Resolves(e, held) ==
  /\ \A id \in e.schema.refs : id \in DOMAIN held /\ held[id] = e.meant[id]
  /\ \A i \in DOMAIN e.deps : e.deps[i].id \in DOMAIN held /\ held[e.deps[i].id] = e.deps[i].content

AllResolve(map, held) ==
  \A m \in DOMAIN map : \A v \in DOMAIN map[m] : \A k \in DOMAIN map[m][v] : Resolves(map[m][v][k], held)

Good(st) == Agreeing(st) /\ Nested(st.registry) /\ AllResolve(st.registry, st.ajv)

\* Nothing held is removed or replaced.
Holds(held, more) == \A id \in DOMAIN held : id \in DOMAIN more /\ more[id] = held[id]

LEMMA ResolvesStays ==
  ASSUME NEW map, NEW held, NEW more, AllResolve(map, held), Holds(held, more)
  PROVE  AllResolve(map, more)
BY DEF AllResolve, Resolves, Holds

LEMMA DepsAreLists ==
  ASSUME NEW r \in AllRegistrations
  PROVE  /\ Len(r.deps) \in Nat
         /\ DOMAIN r.deps = 1 .. Len(r.deps)
<1>1. r.deps \in Seq({r.deps[i] : i \in DOMAIN r.deps})
  BY RegistriesAssumption
<1> QED BY <1>1

\* Two new dependencies never share an $id.
LEMMA NewAreDistinct ==
  ASSUME NEW st, NEW r \in AllRegistrations,
         NEW i \in NewDependencies(st, r.deps), NEW k \in NewDependencies(st, r.deps),
         r.deps[i].id = r.deps[k].id
  PROVE  i = k
<1>1. i \in 1 .. Len(r.deps) /\ k \in 1 .. Len(r.deps) /\ Len(r.deps) \in Nat
  BY DepsAreLists DEF NewDependencies
<1>2. ASSUME i < k PROVE FALSE
  <2>1. i \in {j \in 1 .. (k - 1) : r.deps[j].id = r.deps[k].id}
    BY <1>1, <1>2
  <2>2. r.deps[i].content \in KnownBefore(st, r.deps, k)
    BY <2>1 DEF KnownBefore
  <2> QED BY <2>2 DEF NewDependencies
<1>3. ASSUME k < i PROVE FALSE
  <2>1. k \in {j \in 1 .. (i - 1) : r.deps[j].id = r.deps[i].id}
    BY <1>1, <1>3
  <2>2. r.deps[k].content \in KnownBefore(st, r.deps, i)
    BY <2>1 DEF KnownBefore
  <2> QED BY <2>2 DEF NewDependencies
<1> QED BY <1>1, <1>2, <1>3

\* After a preflight that passes, every dependency is committed or new.
LEMMA PreflightCovers ==
  ASSUME NEW st, NEW r \in AllRegistrations, ~PreflightFails(st, r.deps), NEW i \in DOMAIN r.deps
  PROVE  \/ r.deps[i].id \in DOMAIN st.canonical /\ st.canonical[r.deps[i].id] = r.deps[i].content
         \/ \E k \in NewDependencies(st, r.deps) :
              r.deps[k].id = r.deps[i].id /\ r.deps[k].content = r.deps[i].content
<1>1. Len(r.deps) \in Nat /\ DOMAIN r.deps = 1 .. Len(r.deps)
  BY DepsAreLists
<1>2. KnownBefore(st, r.deps, i) \subseteq {r.deps[i].content}
  BY DEF PreflightFails
<1> DEFINE Same == {j \in 1 .. i : r.deps[j].id = r.deps[i].id}
<1>3. PICK k \in Same : \A j \in Same : k <= j
  <2> DEFINE S == {n \in Nat : \A j \in Same : n <= j}
  <2>1. 0 \in S
    BY <1>1
  <2>2. i \in Same
    BY <1>1
  <2>3. i + 1 \notin S
    BY <1>1, <2>2
  <2>4. i + 1 \in Nat
    BY <1>1
  <2>5. \E n \in Nat : n \in S /\ n + 1 \notin S
    <3> HIDE DEF S
    <3> QED BY <2>1, <2>3, <2>4, SetInduction
  <2>6. PICK n \in Nat : n \in S /\ n + 1 \notin S
    BY <2>5
  <2>7. PICK j \in Same : ~(n + 1 <= j)
    BY <2>6
  <2>8. j = n
    BY <2>6, <2>7, <1>1
  <2> QED BY <2>6, <2>8
<1>4. k \in DOMAIN r.deps /\ r.deps[k].id = r.deps[i].id /\ k <= i /\ k \in Nat
  BY <1>1, <1>3
<1>5. CASE r.deps[i].id \in DOMAIN st.canonical
  <2>1. st.canonical[r.deps[i].id] \in KnownBefore(st, r.deps, i)
    BY <1>5 DEF KnownBefore
  <2> QED BY <2>1, <1>2, <1>5
<1>6. CASE r.deps[i].id \notin DOMAIN st.canonical
  <2>1. KnownBefore(st, r.deps, k) = {}
    <3>1. {j \in 1 .. (k - 1) : r.deps[j].id = r.deps[k].id} = {}
      <4>1. SUFFICES ASSUME NEW j \in 1 .. (k - 1), r.deps[j].id = r.deps[k].id PROVE FALSE
        OBVIOUS
      <4>2. j \in Same /\ j < k
        BY <4>1, <1>4, <1>1
      <4> QED BY <4>2, <1>3, <1>4
    <3> QED BY <3>1, <1>4, <1>6 DEF KnownBefore
  <2>2. k \in NewDependencies(st, r.deps)
    BY <2>1, <1>4 DEF NewDependencies
  <2>3. r.deps[k].content = r.deps[i].content
    <3>1. CASE k = i
      BY <3>1
    <3>2. CASE k < i
      <4>1. k \in {j \in 1 .. (i - 1) : r.deps[j].id = r.deps[i].id}
        BY <3>2, <1>4, <1>1, <1>3
      <4>2. r.deps[k].content \in KnownBefore(st, r.deps, i)
        BY <4>1 DEF KnownBefore
      <4> QED BY <4>2, <1>2
    <3> QED BY <3>1, <3>2, <1>4, <1>1
  <2> QED BY <2>2, <2>3, <1>4
<1> QED BY <1>5, <1>6

\* What the new dependencies leave behind in Ajv, and what is taken back of it.
LEMMA DependenciesKeep ==
  ASSUME NEW held, NEW deps, NEW new, \A i \in new : deps[i].id # Undefined,
         NEW h, h = AddDependencies(held, deps, new)
  PROVE  Holds(held, h.ajv) /\ h.added \cap DOMAIN held = {}
BY DEF AddDependencies, Holds, Occupied

Named(deps, new) == \A i \in new : deps[i].id # Undefined
AllHeld(deps, new, held) == \A k \in new : deps[k].id \in DOMAIN held /\ held[deps[k].id] = deps[k].content

\* When Ajv refused none of them, it holds them all.
LEMMA DependenciesAdded ==
  ASSUME NEW st, NEW r \in AllRegistrations, NEW new, new = NewDependencies(st, r.deps),
         NEW held, NEW h, h = AddDependencies(held, r.deps, new), h.ok,
         Named(r.deps, new)
  PROVE  AllHeld(r.deps, new, h.ajv)
<1> DEFINE reached == {i \in new : \A j \in new : j < i => ~Occupied(held, r.deps[j]) /\ r.deps[j].valid}
           taken == {i \in reached : ~Occupied(held, r.deps[i])}
           kept == {i \in taken : r.deps[i].valid}
           result == [id \in DOMAIN held \cup {r.deps[i].id : i \in taken} |->
                  IF id \in DOMAIN held THEN held[id]
                  ELSE r.deps[CHOOSE i \in taken : r.deps[i].id = id].content]
<1>1. h.ok = (kept = new) /\ h.ajv = result
  BY DEF AddDependencies
<1>2. taken = new
  BY <1>1
<1> SUFFICES ASSUME NEW k \in new
             PROVE  r.deps[k].id \in DOMAIN h.ajv /\ h.ajv[r.deps[k].id] = r.deps[k].content
  BY DEF AllHeld
<1>3. r.deps[k].id \notin DOMAIN held
  BY <1>2 DEF Occupied, Named
<1>4. (CHOOSE i \in taken : r.deps[i].id = r.deps[k].id) = k
  <2>1. \A i \in taken : r.deps[i].id = r.deps[k].id => i = k
    BY <1>2, NewAreDistinct
  <2>2. \E i \in taken : r.deps[i].id = r.deps[k].id
    BY <1>2
  <2> HIDE DEF taken
  <2> QED BY <2>1, <2>2
<1>5. r.deps[k].id \in DOMAIN result /\ result[r.deps[k].id] = r.deps[k].content
  <2>1. r.deps[k].id \in {r.deps[i].id : i \in taken}
    BY <1>2
  <2> HIDE DEF taken
  <2> QED BY <2>1, <1>3, <1>4
<1> QED BY <1>1, <1>5

LEMMA CompileKeeps ==
  ASSUME NEW h, NEW schema, NEW c, c = CompileDocument(h, schema)
  PROVE  /\ Holds(h.ajv, c.ajv)
         /\ c.added = h.added
         /\ c.ok => schema.refs \subseteq DOMAIN c.ajv
<1> DEFINE after == IF schema.id = Undefined \/ Occupied(h.ajv, schema) THEN h.ajv
                    ELSE Put(h.ajv, schema.id, schema.content)
<1>1. Holds(h.ajv, after)
  BY DEF Holds, Put, Occupied
<1>2. c = [ok |-> ~Occupied(h.ajv, schema) /\ schema.valid /\ schema.refs \subseteq DOMAIN after,
           added |-> h.added, ajv |-> after]
  BY DEF CompileDocument
<1> HIDE DEF after
<1>3. c.ajv = after /\ c.added = h.added
  BY <1>2
<1>4. c.ok = (~Occupied(h.ajv, schema) /\ schema.valid /\ schema.refs \subseteq DOMAIN after)
  BY <1>2
<1>5. c.ok => schema.refs \subseteq DOMAIN c.ajv
  BY <1>3, <1>4, Zenon
<1> QED BY <1>1, <1>3, <1>5

LEMMA HoldsOn ==
  ASSUME NEW a, NEW b, NEW c, Holds(a, b), Holds(b, c)
  PROVE  Holds(a, c)
BY DEF Holds

\* What is taken back was not there before.
LEMMA TakenBack ==
  ASSUME NEW held, NEW more, NEW S, Holds(held, more), S \cap DOMAIN held = {}
  PROVE  Holds(held, Without(more, S))
BY DEF Holds, Without

\* A published entry is found under its key, and no other entry changes.
LEMMA PublishedNested ==
  ASSUME NEW map, Nested(map), NEW key \in Keys, NEW e
  PROVE  Nested(Published(map, key, e))
<1> DEFINE kinds == Put(Child(Child(map, key[1]), key[2]), key[3], e)
           versions == Put(Child(map, key[1]), key[2], kinds)
           after == Put(map, key[1], versions)
<1>1. DOMAIN kinds = DOMAIN Child(Child(map, key[1]), key[2]) \cup {key[3]}
  BY DEF Put
<1>2. DOMAIN versions = DOMAIN Child(map, key[1]) \cup {key[2]}
       /\ \A v \in DOMAIN versions : versions[v] = IF v = key[2] THEN kinds ELSE Child(map, key[1])[v]
  <2> HIDE DEF kinds
  <2> QED BY DEF Put
<1>3. DOMAIN after = DOMAIN map \cup {key[1]}
       /\ \A m \in DOMAIN after : after[m] = IF m = key[1] THEN versions ELSE map[m]
  <2> HIDE DEF versions
  <2> QED BY DEF Put
<1>4. DOMAIN Empty = {}
  BY DEF Empty
<1>5. \A v \in DOMAIN Child(map, key[1]) : key[1] \in DOMAIN map /\ Child(map, key[1]) = map[key[1]]
  BY <1>4 DEF Child
<1>6. \A k \in DOMAIN Child(Child(map, key[1]), key[2]) :
        /\ key[2] \in DOMAIN Child(map, key[1])
        /\ Child(Child(map, key[1]), key[2]) = Child(map, key[1])[key[2]]
  BY <1>4 DEF Child
<1>7. after = Published(map, key, e)
  BY DEF Published
<1> HIDE DEF after, versions, kinds
<1>8. ASSUME NEW m \in DOMAIN after
      PROVE  /\ \E v \in DOMAIN after[m] : TRUE
             /\ \A v \in DOMAIN after[m] :
                  /\ \E k \in DOMAIN after[m][v] : TRUE
                  /\ \A k \in DOMAIN after[m][v] : \E x \in Keys : x[1] = m /\ x[2] = v /\ x[3] = k
  <2>1. CASE m # key[1]
    BY <2>1, <1>3 DEF Nested
  <2>2. CASE m = key[1]
    <3>1. after[m] = versions
      BY <2>2, <1>3
    <3>2. ASSUME NEW v \in DOMAIN versions
          PROVE  /\ \E k \in DOMAIN versions[v] : TRUE
                 /\ \A k \in DOMAIN versions[v] : \E x \in Keys : x[1] = m /\ x[2] = v /\ x[3] = k
      <4>1. CASE v # key[2]
        <5>1. v \in DOMAIN Child(map, key[1]) /\ versions[v] = Child(map, key[1])[v]
          BY <4>1, <1>2
        <5>2. key[1] \in DOMAIN map /\ Child(map, key[1]) = map[key[1]]
          BY <5>1, <1>5
        <5> QED BY <5>1, <5>2, <2>2 DEF Nested
      <4>2. CASE v = key[2]
        <5>1. versions[v] = kinds
          BY <4>2, <1>2
        <5>2. \A k \in DOMAIN Child(Child(map, key[1]), key[2]) :
                \E x \in Keys : x[1] = m /\ x[2] = v /\ x[3] = k
          <6> TAKE k \in DOMAIN Child(Child(map, key[1]), key[2])
          <6>1. key[2] \in DOMAIN Child(map, key[1]) /\ k \in DOMAIN Child(map, key[1])[key[2]]
            BY <1>6
          <6>2. key[1] \in DOMAIN map /\ Child(map, key[1]) = map[key[1]]
            BY <6>1, <1>5
          <6> QED BY <6>1, <6>2, <2>2, <4>2 DEF Nested
        <5> QED BY <5>1, <5>2, <1>1, <2>2, <4>2
      <4> QED BY <4>1, <4>2
    <3>3. key[2] \in DOMAIN versions
      BY <1>2
    <3> QED BY <3>1, <3>2, <3>3
  <2> QED BY <2>1, <2>2
<1> QED BY <1>7, <1>8 DEF Nested

LEMMA PublishedResolve ==
  ASSUME NEW map, NEW held, AllResolve(map, held), NEW key, NEW e, Resolves(e, held)
  PROVE  AllResolve(Published(map, key, e), held)
<1> DEFINE kinds == Put(Child(Child(map, key[1]), key[2]), key[3], e)
           versions == Put(Child(map, key[1]), key[2], kinds)
           after == Put(map, key[1], versions)
<1>1. /\ DOMAIN kinds = DOMAIN Child(Child(map, key[1]), key[2]) \cup {key[3]}
      /\ \A k \in DOMAIN kinds : kinds[k] = IF k = key[3] THEN e ELSE Child(Child(map, key[1]), key[2])[k]
  BY DEF Put
<1>2. /\ DOMAIN versions = DOMAIN Child(map, key[1]) \cup {key[2]}
      /\ \A v \in DOMAIN versions : versions[v] = IF v = key[2] THEN kinds ELSE Child(map, key[1])[v]
  <2> HIDE DEF kinds
  <2> QED BY DEF Put
<1>3. /\ DOMAIN after = DOMAIN map \cup {key[1]}
      /\ \A m \in DOMAIN after : after[m] = IF m = key[1] THEN versions ELSE map[m]
  <2> HIDE DEF versions
  <2> QED BY DEF Put
<1>4. DOMAIN Empty = {}
  BY DEF Empty
<1>5. \A v \in DOMAIN Child(map, key[1]) : key[1] \in DOMAIN map /\ Child(map, key[1]) = map[key[1]]
  BY <1>4 DEF Child
<1>6. \A k \in DOMAIN Child(Child(map, key[1]), key[2]) :
        /\ key[2] \in DOMAIN Child(map, key[1])
        /\ Child(Child(map, key[1]), key[2]) = Child(map, key[1])[key[2]]
  BY <1>4 DEF Child
<1>7. after = Published(map, key, e)
  BY DEF Published
<1> HIDE DEF after, versions, kinds
<1>8. ASSUME NEW m \in DOMAIN after, NEW v \in DOMAIN after[m], NEW k \in DOMAIN after[m][v]
      PROVE  Resolves(after[m][v][k], held)
  <2>1. CASE m # key[1]
    BY <2>1, <1>3 DEF AllResolve
  <2>2. CASE m = key[1] /\ v # key[2]
    <3>1. v \in DOMAIN Child(map, key[1]) /\ after[m][v] = Child(map, key[1])[v]
      BY <2>2, <1>2, <1>3
    <3>2. key[1] \in DOMAIN map /\ Child(map, key[1]) = map[key[1]]
      BY <3>1, <1>5
    <3> QED BY <3>1, <3>2 DEF AllResolve
  <2>3. CASE m = key[1] /\ v = key[2]
    <3>1. after[m][v] = kinds
      BY <2>3, <1>2, <1>3
    <3>2. CASE k = key[3]
      BY <3>1, <3>2, <1>1
    <3>3. CASE k # key[3]
      <4>1. k \in DOMAIN Child(Child(map, key[1]), key[2])
             /\ after[m][v][k] = Child(Child(map, key[1]), key[2])[k]
        BY <3>1, <3>3, <1>1
      <4>2. key[2] \in DOMAIN Child(map, key[1])
             /\ Child(Child(map, key[1]), key[2]) = Child(map, key[1])[key[2]]
        BY <4>1, <1>6
      <4>3. key[1] \in DOMAIN map /\ Child(map, key[1]) = map[key[1]]
        BY <4>2, <1>5
      <4> QED BY <4>1, <4>2, <4>3 DEF AllResolve
    <3> QED BY <3>2, <3>3
  <2> QED BY <2>1, <2>2, <2>3
<1> QED BY <1>7, <1>8 DEF AllResolve

\* One registration, whether it throws or not, keeps the registry good.
LEMMA RegisterKeeps ==
  ASSUME NEW st, Good(st), NEW r \in AllRegistrations
  PROVE  Good(RegisterModule(st, r))
<1> DEFINE new == NewDependencies(st, r.deps)
           h == AddDependencies(st.ajv, r.deps, new)
           c == IF h.ok THEN CompileDocument(h, r.schema) ELSE h
<1>1. CASE Taken(st, r.key) \/ PreflightFails(st, r.deps)
  <2>1. RegisterModule(st, r) = Thrown(st, st.ajv)
    BY <1>1, Zenon DEF RegisterModule
  <2> QED BY <2>1 DEF Thrown, Good, Agreeing
<1>2. CASE ~(Taken(st, r.key) \/ PreflightFails(st, r.deps))
  <2>1. \A i \in new : r.deps[i].id # Undefined
    BY <1>2 DEF PreflightFails, NewDependencies
  <2>2. Holds(st.ajv, h.ajv) /\ h.added \cap DOMAIN st.ajv = {}
    BY <2>1, DependenciesKeep
  <2>3. h.ok => /\ Holds(h.ajv, c.ajv)
                /\ c.added = h.added
                /\ c.ok => r.schema.refs \subseteq DOMAIN c.ajv
    <3> HIDE DEF h
    <3> QED BY CompileKeeps
  <2>4. Holds(st.ajv, c.ajv) /\ c.added \cap DOMAIN st.ajv = {}
    <3>1. CASE ~h.ok
      <4>1. c = h
        BY <3>1, Zenon
      <4> QED BY <4>1, <2>2
    <3>2. CASE h.ok
      <4> HIDE DEF c, h
      <4> QED BY <2>2, <2>3, <3>2, HoldsOn
    <3> QED BY <3>1, <3>2
  <2>5. CASE ~c.ok
    <3>1. RegisterModule(st, r) = Refused(st, r.key, c, r.deps)
      BY <1>2, <2>5, Zenon DEF RegisterModule
    <3> HIDE DEF c
    <3> DEFINE left == Without(c.ajv, c.added)
    <3>2. Refused(st, r.key, c, r.deps)
            = [registry |-> st.registry, canonical |-> st.canonical, ajv |-> left, failed |-> TRUE]
      BY DEF Refused, RolledBack, Thrown
    <3>3. Holds(st.ajv, left)
      BY <2>4, TakenBack
    <3> HIDE DEF left
    <3>4. AllResolve(st.registry, left)
      BY <3>3, ResolvesStays DEF Good
    <3>5. \A id \in DOMAIN st.canonical : id \in DOMAIN left /\ left[id] = st.canonical[id]
      BY <3>3 DEF Good, Agreeing, Holds
    <3> QED BY <3>1, <3>2, <3>4, <3>5 DEF Good, Agreeing
  <2>6. CASE c.ok
    <3>0. h.ok /\ c = CompileDocument(h, r.schema)
      <4>1. ~h.ok => c = h
        BY Zenon
      <4>2. h.ok
        BY <4>1, <2>6, Zenon
      <4> QED BY <4>2, Zenon
    <3> DEFINE ids == {r.deps[i].id : i \in new}
               e == [schema |-> r.schema, deps |-> r.deps, meant |-> [id \in r.schema.refs |-> c.ajv[id]]]
               known == [id \in DOMAIN st.canonical \cup ids |->
                           IF id \in ids THEN c.ajv[id] ELSE st.canonical[id]]
               map == Published(st.registry, r.key, e)
    <3>1. RegisterModule(st, r) = Committed(st, r, new, c)
      BY <1>2, <2>6, Zenon DEF RegisterModule
    <3>2. \A k \in new : r.deps[k].id \in DOMAIN c.ajv /\ c.ajv[r.deps[k].id] = r.deps[k].content
      <4>1. \A k \in new : r.deps[k].id \in DOMAIN h.ajv /\ h.ajv[r.deps[k].id] = r.deps[k].content
        <5>1. new = NewDependencies(st, r.deps) /\ h = AddDependencies(st.ajv, r.deps, new)
          OBVIOUS
        <5> HIDE DEF new, h
        <5>2. Named(r.deps, new) /\ h.ok
          BY <2>1, <3>0 DEF Named
        <5>3. AllHeld(r.deps, new, h.ajv)
          BY <5>1, <5>2, DependenciesAdded, Zenon
        <5> QED BY <5>3 DEF AllHeld
      <4> HIDE DEF h, c
      <4> QED BY <4>1, <2>3, <3>0 DEF Holds
    <3>3. r.schema.refs \subseteq DOMAIN c.ajv
      BY <2>3, <3>0, <2>6
    <3> HIDE DEF c, h
    <3>4. Committed(st, r, new, c) = [registry |-> map, canonical |-> known, ajv |-> c.ajv, failed |-> FALSE]
      BY DEF Committed
    <3>5. AllResolve(st.registry, c.ajv)
      BY <2>4, ResolvesStays DEF Good
    <3>6. Resolves(e, c.ajv)
      <4>1. \A id \in r.schema.refs : id \in DOMAIN c.ajv /\ c.ajv[id] = e.meant[id]
        BY <3>3
      <4>2. ASSUME NEW i \in DOMAIN r.deps
            PROVE  r.deps[i].id \in DOMAIN c.ajv /\ c.ajv[r.deps[i].id] = r.deps[i].content
        <5>1. \/ r.deps[i].id \in DOMAIN st.canonical /\ st.canonical[r.deps[i].id] = r.deps[i].content
              \/ \E k \in new : r.deps[k].id = r.deps[i].id /\ r.deps[k].content = r.deps[i].content
          <6> HIDE DEF new
          <6> QED BY <1>2, PreflightCovers DEF new
        <5> HIDE DEF new
        <5> QED BY <5>1, <3>2, <2>4 DEF Holds, Good, Agreeing
      <4> QED BY <4>1, <4>2 DEF Resolves
    <3>7. r.key \in Keys
      BY DEF Keys
    <3>8. Nested(map)
      <4> HIDE DEF e
      <4> QED BY <3>7, PublishedNested DEF Good
    <3>9. AllResolve(map, c.ajv)
      <4> HIDE DEF e
      <4> QED BY <3>5, <3>6, PublishedResolve
    <3>10. \A id \in DOMAIN known : id \in DOMAIN c.ajv /\ c.ajv[id] = known[id]
      BY <3>2, <2>4 DEF Good, Agreeing, Holds
    <3> HIDE DEF map, known
    <3> QED BY <3>1, <3>4, <3>8, <3>9, <3>10 DEF Good, Agreeing
  <2> QED BY <2>5, <2>6
<1> QED BY <1>1, <1>2

-----------------------------------------------------------------------------
(* The registrations of one import, one after the other.                   *)

AllUpto(k, st, list, after) ==
  after = [i \in 0 .. k |-> IF i = 0 THEN st ELSE AndThen(after[i - 1], list[i])]

LEMMA AllAt ==
  ASSUME NEW k \in Nat, NEW st, NEW list, NEW after, AllUpto(k, st, list, after), NEW i \in 0 .. k
  PROVE  after[i] = IF i = 0 THEN st ELSE AndThen(after[i - 1], list[i])
<1>1. \A h : h = [j \in 0 .. k |-> IF j = 0 THEN st ELSE AndThen(after[j - 1], list[j])]
        => h[i] = IF i = 0 THEN st ELSE AndThen(after[i - 1], list[i])
  OBVIOUS
<1> QED BY <1>1, Zenon DEF AllUpto

\* The recursion over the registrations has a solution.
LEMMA AllExists ==
  ASSUME NEW st, NEW list, NEW n \in Nat
  PROVE  \E after : AllUpto(n, st, list, after)
<1> DEFINE K == {k \in Nat : \E after : AllUpto(k, st, list, after)}
<1>1. 0 \in K
  <2> DEFINE one == [i \in 0 .. 0 |-> st]
  <2>1. one = [i \in 0 .. 0 |-> IF i = 0 THEN st ELSE AndThen(one[i - 1], list[i])]
    OBVIOUS
  <2> QED BY <2>1 DEF AllUpto
<1>2. ASSUME NEW k \in Nat, k \in K PROVE k + 1 \in K
  <2>1. PICK after : AllUpto(k, st, list, after)
    BY <1>2
  <2> DEFINE step(i) == IF i = 0 THEN st ELSE AndThen(after[i - 1], list[i])
             next == [i \in 0 .. (k + 1) |-> step(i)]
  <2>2. \A i \in 0 .. k : next[i] = after[i]
    BY <2>1, AllAt
  <2>3. \A i \in 0 .. (k + 1) : next[i] = IF i = 0 THEN st ELSE AndThen(next[i - 1], list[i])
    <3>1. ASSUME NEW i \in 0 .. (k + 1) PROVE next[i] = IF i = 0 THEN st ELSE AndThen(next[i - 1], list[i])
      <4>1. next[i] = step(i)
        OBVIOUS
      <4>2. i # 0 => next[i - 1] = after[i - 1]
        <5>1. i # 0 => i - 1 \in 0 .. k
          OBVIOUS
        <5> HIDE DEF next
        <5> QED BY <2>2, <5>1
      <4> HIDE DEF next
      <4> QED BY <4>1, <4>2
    <3> QED BY <3>1
  <2>4. next = [i \in 0 .. (k + 1) |-> next[i]]
    OBVIOUS
  <2> HIDE DEF next
  <2>5. AllUpto(k + 1, st, list, next)
    BY <2>3, <2>4 DEF AllUpto
  <2>6. k + 1 \in Nat /\ \E h : AllUpto(k + 1, st, list, h)
    BY <2>5
  <2> QED BY <2>6
<1>3. n \in K
  <2> HIDE DEF K
  <2> QED BY <1>1, <1>2, SetInduction
<1> QED BY <1>3

\* An import, however far it gets, keeps the registry good.
LEMMA RegisterAllKeeps ==
  ASSUME NEW st, Good(st), NEW list \in Seq(AllRegistrations)
  PROVE  Good(RegisterAll(st, list))
<1> DEFINE f == CHOOSE after : after = [i \in 0 .. Len(list) |-> IF i = 0 THEN st
                                                                  ELSE AndThen(after[i - 1], list[i])]
           K == {k \in Nat : k \in 0 .. Len(list) => Good(f[k])}
<1>0. Len(list) \in Nat
  OBVIOUS
<1>1. RegisterAll(st, list) = f[Len(list)]
  BY DEF RegisterAll
<1>2. AllUpto(Len(list), st, list, f)
  <2>1. \E after : AllUpto(Len(list), st, list, after)
    BY <1>0, AllExists
  <2> QED BY <2>1, Zenon DEF AllUpto
<1> HIDE DEF f
<1>3. 0 \in K
  <2>1. f[0] = st
    BY <1>0, <1>2, AllAt
  <2> QED BY <2>1
<1>4. ASSUME NEW k \in Nat, k \in K PROVE k + 1 \in K
  <2>1. SUFFICES ASSUME k + 1 \in 0 .. Len(list) PROVE Good(f[k + 1])
    OBVIOUS
  <2>2. f[k + 1] = AndThen(f[k], list[k + 1])
    <3>1. f[k + 1] = IF k + 1 = 0 THEN st ELSE AndThen(f[(k + 1) - 1], list[k + 1])
      BY <1>0, <1>2, <2>1, AllAt
    <3>2. k + 1 # 0 /\ (k + 1) - 1 = k
      OBVIOUS
    <3> QED BY <3>1, <3>2
  <2>3. Good(f[k])
    BY <1>4, <2>1, <1>0
  <2>4. list[k + 1] \in AllRegistrations
    BY <2>1, <1>0
  <2>5. Good(RegisterModule(f[k], list[k + 1]))
    BY <2>3, <2>4, RegisterKeeps
  <2> QED BY <2>2, <2>3, <2>5 DEF AndThen
<1>5. \A n \in Nat : n \in K
  <2> HIDE DEF K
  <2> QED BY <1>3, <1>4, SetInduction
<1> QED BY <1>0, <1>1, <1>5

-----------------------------------------------------------------------------
(* The registry in every reachable state.                                  *)

GoodRegistry == Good(SchemaState)

LEMMA InitGood == RegistriesInit => GoodRegistry
BY DEF RegistriesInit, GoodRegistry, Good, SchemaState, Agreeing, Nested, AllResolve, Empty

LEMMA BecomesGood ==
  ASSUME NEW st, Good(st), Becomes(st)
  PROVE  GoodRegistry'
BY DEF Becomes, GoodRegistry, Good, SchemaState, Agreeing

LEMMA NextGood == GoodRegistry /\ [RegistriesNext]_registriesVars => GoodRegistry'
<1> SUFFICES ASSUME GoodRegistry, [RegistriesNext]_registriesVars PROVE GoodRegistry'
  OBVIOUS
<1>1. ASSUME NEW r \in Registrations, Register(r) PROVE GoodRegistry'
  <2>1. r \in AllRegistrations
    BY DEF AllRegistrations
  <2>2. Good(RegisterModule(SchemaState, r))
    BY <2>1, RegisterKeeps DEF GoodRegistry
  <2> QED BY <1>1, <2>2, BecomesGood DEF Register
<1>2. ASSUME NEW name \in DOMAIN Modules, Import(name) PROVE GoodRegistry'
  <2>1. CASE name \in imported
    BY <1>2, <2>1 DEF Import, schemaVars, GoodRegistry, Good, SchemaState, Agreeing
  <2>2. CASE name \notin imported
    <3>1. Modules[name] \in Seq(AllRegistrations)
      BY RegistriesAssumption
    <3>2. Good(RegisterAll(SchemaState, Modules[name]))
      BY <3>1, RegisterAllKeeps DEF GoodRegistry
    <3>3. Becomes(RegisterAll(SchemaState, Modules[name]))
      BY <1>2, <2>2 DEF Import
    <3> QED BY <3>2, <3>3, BecomesGood
  <2> QED BY <2>1, <2>2
<1>3. CASE UNCHANGED schemaVars
  BY <1>3 DEF schemaVars, GoodRegistry, Good, SchemaState, Agreeing
<1> QED BY <1>1, <1>2, <1>3 DEF RegistriesNext, registriesVars, schemaVars, RegisterAdapter, CreateLookup

\* The error of a lookup tells the truth, also after registrations that failed.
LEMMA GoodLookup == GoodRegistry => LookupHonest
<1> SUFFICES ASSUME GoodRegistry, NEW key \in Keys
             PROVE  /\ LookupModule(key) = "unsupported_module" <=> \A other \in Registered : other[1] # key[1]
                    /\ LookupModule(key) = "unsupported_module_version" <=>
                         /\ \E other \in Registered : other[1] = key[1]
                         /\ \A other \in Registered : other[1] = key[1] => other[2] # key[2]
  BY DEF LookupHonest
<1>1. Nested(registry)
  BY DEF GoodRegistry, Good, SchemaState
<1>2. \A other : other \in Registered <=>
        /\ other \in Keys /\ other[1] \in DOMAIN registry /\ other[2] \in DOMAIN registry[other[1]]
        /\ other[3] \in DOMAIN registry[other[1]][other[2]]
  BY DEF Registered, LookupModule
<1>3. ASSUME NEW m \in DOMAIN registry
      PROVE  \E other \in Registered : other[1] = m
  BY <1>1, <1>2 DEF Nested
<1>4. ASSUME NEW m \in DOMAIN registry, NEW v \in DOMAIN registry[m]
      PROVE  \E other \in Registered : other[1] = m /\ other[2] = v
  BY <1>1, <1>2 DEF Nested
<1>5. LookupModule(key) = "unsupported_module" <=> key[1] \notin DOMAIN registry
  BY DEF LookupModule
<1>6. LookupModule(key) = "unsupported_module_version" <=>
        key[1] \in DOMAIN registry /\ key[2] \notin DOMAIN registry[key[1]]
  BY DEF LookupModule
<1> QED BY <1>2, <1>3, <1>4, <1>5, <1>6

LEMMA GoodEntries == GoodRegistry => EntriesResolve
<1> SUFFICES ASSUME GoodRegistry, NEW key \in Registered
             PROVE  Resolves(EntryOf(key), ajv)
  BY DEF EntriesResolve, Resolves
<1>1. key[1] \in DOMAIN registry /\ key[2] \in DOMAIN registry[key[1]]
       /\ key[3] \in DOMAIN registry[key[1]][key[2]]
  BY DEF Registered, LookupModule
<1>2. EntryOf(key) = registry[key[1]][key[2]][key[3]]
  BY <1>1 DEF EntryOf, Entry, Child, SchemaState
<1> QED BY <1>1, <1>2 DEF GoodRegistry, Good, SchemaState, AllResolve

\* What the schema registry says of itself, and what it holds, survive any
\* registration that fails, for any modules and any registrations.
THEOREM RegistryHonestAlways == RegistriesSpec => []RegistryHonest
<1>1. GoodRegistry => RegistryHonest
  BY GoodLookup, GoodEntries DEF RegistryHonest
<1> QED BY <1>1, InitGood, NextGood, PTL DEF RegistriesSpec
=============================================================================
