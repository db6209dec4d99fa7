-------------------------- MODULE StreamTraversal --------------------------
(***************************************************************************)
(* streamTraversal (traversal/v1.0/scheduler.ts): the boundary between an  *)
(* ordered walk and the consumer of its events.  A producer pulls the walk *)
(* into a bounded buffer and parks when it is full; next() calls take from *)
(* the buffer and park when it is empty.  Each side wakes the other        *)
(* through a single slot.  The caller's signal, an early return() and a    *)
(* failure of the walk may come at any time.                               *)
(*                                                                         *)
(* An event is its number in the walk.  The steps are the stretches        *)
(* between two awaits.                                                     *)
(***************************************************************************)
EXTENDS Integers, Sequences

CONSTANTS
  Readers,    \* callers of next(), one call of each at a time
  Capacity,   \* options.maxBufferedEvents
  MaxEvents,  \* a bound on the events of the walk
  None

ASSUME StreamAssumption ==
  /\ Capacity \in Nat /\ MaxEvents \in Nat
  /\ None \notin Readers

VARIABLES
  walk,            \* the generator: "running" or how it ended
  produced,        \* events it has yielded
  producer,        \* produce(): "pulling", "parked", "woken" or "ended"
  buffer,
  finished, completed, cancelled,
  failure,         \* an error of the walk nobody was told of yet
  terminal,        \* "none", "walk" (its own summary) or "aborted"
  notifyConsumer,  \* the next() call whose promise this slot resolves
  notifyProducer,  \* the slot of the producer is taken
  reader,          \* per caller of next(): "idle", "parked" or "woken"
  signalled,       \* the caller's signal fired
  returning,       \* return(): "no", "waiting" or "done"
  delivered,       \* the events the readers got
  completes,       \* the complete events they got: which summary
  thrown           \* how many of their calls threw

walkVars  == <<walk, produced>>
endVars   == <<finished, failure, terminal>>
queueVars == <<producer, notifyProducer, buffer>>
callVars  == <<notifyConsumer, reader>>
stopVars  == <<cancelled, signalled, returning>>
outVars   == <<completed, delivered, completes, thrown>>
vars == <<walkVars, endVars, queueVars, callVars, stopVars, outVars>>

capacity == IF Capacity > 1 THEN Capacity ELSE 1

Init ==
  /\ walk = "running" /\ produced = 0
  /\ finished = FALSE /\ failure = FALSE /\ terminal = "none"
  /\ producer = "pulling" /\ notifyProducer = FALSE /\ buffer = <<>>
  /\ notifyConsumer = None /\ reader = [r \in Readers |-> "idle"]
  /\ cancelled = FALSE /\ signalled = FALSE /\ returning = "no"
  /\ completed = FALSE /\ delivered = <<>> /\ completes = <<>> /\ thrown = 0

-----------------------------------------------------------------------------
(* The two slots.                                                          *)

\* Mutant: nobody is woken.
wakeConsumer_Lost == UNCHANGED callVars

wakeConsumer ==
  /\ notifyConsumer' = None
  /\ reader' = [r \in Readers |-> IF r = notifyConsumer THEN "woken" ELSE reader[r]]

\* Mutant: a parked producer stays parked.
wakeProducer_Lost == UNCHANGED <<producer, notifyProducer>>

wakeProducer ==
  /\ producer' = IF notifyProducer THEN "woken" ELSE producer
  /\ notifyProducer' = FALSE

-----------------------------------------------------------------------------
(* The producer.                                                           *)

Full(b) == Len(b) >= capacity

Park ==
  /\ producer' = "parked" /\ notifyProducer' = TRUE

\* produce() comes to its finally block.
EndProducer ==
  /\ producer' = "ended" /\ finished' = TRUE
  /\ wakeConsumer

Over == finished \/ cancelled

\* The walk yields an event; one that comes after the end is dropped.
WalkYields ==
  /\ producer = "pulling" /\ walk = "running" /\ produced < MaxEvents
  /\ produced' = produced + 1
  /\ IF Over
     THEN EndProducer /\ UNCHANGED <<buffer, notifyProducer>>
     ELSE /\ buffer' = Append(buffer, produced + 1)
          /\ IF Full(buffer') THEN Park ELSE UNCHANGED <<producer, notifyProducer>>
          /\ wakeConsumer
          /\ UNCHANGED finished
  /\ UNCHANGED <<walk, failure, terminal, stopVars, outVars>>

\* The walk is over: with its summary, because its waiting was cut (by the
\* caller's signal or by return()'s onCancel), or with an error.  What cuts the
\* waiting is an AbortedError, and its name is "AadpClientError": isAbortError,
\* which goes by the name, takes it for a failure like any other.
WalkStops ==
  /\ producer = "pulling" /\ walk = "running"
  /\ \/ walk' = "done" /\ terminal' = "walk" /\ UNCHANGED failure
     \/ /\ walk' = "failed" \/ (walk' = "aborted" /\ (signalled \/ cancelled))
        /\ failure' = TRUE /\ UNCHANGED terminal
  /\ EndProducer
  /\ UNCHANGED <<produced, notifyProducer, buffer, stopVars, outVars>>

\* The loop around the parked promise, and the check after it.
ProducerWakes ==
  /\ producer = "woken"
  /\ IF Over
     THEN EndProducer /\ UNCHANGED notifyProducer
     ELSE /\ IF Full(buffer) THEN Park ELSE producer' = "pulling" /\ UNCHANGED notifyProducer
          /\ UNCHANGED <<finished, callVars>>
  /\ UNCHANGED <<walkVars, failure, terminal, buffer, stopVars, outVars>>

-----------------------------------------------------------------------------
(* The consumer: one turn of next()'s loop.                                *)

TakesEvent ==
  /\ buffer # <<>>
  /\ delivered' = Append(delivered, Head(buffer)) /\ buffer' = Tail(buffer)
  /\ wakeProducer
  /\ UNCHANGED <<failure, completed, completes, thrown>>

\* The walk's error is thrown once.
Throws ==
  /\ buffer = <<>> /\ failure
  /\ failure' = FALSE /\ thrown' = thrown + 1
  /\ UNCHANGED <<queueVars, completed, delivered, completes>>

Summary == IF terminal = "walk" THEN "walk" ELSE "aborted"

\* The terminal event, unless it was emitted or given up.
TerminalEvents == IF completed THEN <<>> ELSE <<Summary>>

Completes ==
  /\ buffer = <<>> /\ ~failure /\ finished
  /\ completed' = TRUE
  /\ completes' = completes \o TerminalEvents
  /\ UNCHANGED <<queueVars, failure, delivered, thrown>>

Answered(r) ==
  /\ TakesEvent \/ Throws \/ Completes
  /\ reader' = [reader EXCEPT ![r] = "idle"]
  /\ UNCHANGED <<walkVars, finished, terminal, notifyConsumer, stopVars>>

\* The one slot there is now wakes this call.
Parks(r) ==
  /\ buffer = <<>> /\ ~failure /\ ~finished
  /\ reader' = [reader EXCEPT ![r] = "parked"]
  /\ notifyConsumer' = r
  /\ UNCHANGED <<walkVars, endVars, queueVars, stopVars, outVars>>

CallsNext(r)   == reader[r] = "idle"  /\ (Answered(r) \/ Parks(r))
ReaderWakes(r) == reader[r] = "woken" /\ (Answered(r) \/ Parks(r))

-----------------------------------------------------------------------------
(* Cancellation.                                                           *)

\* Mutant: the signal overrides a walk that already ended.
Abortable_Always == TRUE

Abortable == ~finished

\* The caller's signal: an aborted summary, unless the stream is over.
Abort ==
  /\ ~signalled /\ signalled' = TRUE
  /\ IF Abortable
     THEN terminal' = "aborted" /\ finished' = TRUE /\ wakeProducer /\ wakeConsumer
     ELSE UNCHANGED <<terminal, finished, producer, notifyProducer, callVars>>
  /\ UNCHANGED <<walkVars, failure, buffer, cancelled, returning, outVars>>

GiveUpTerminal == completed' = TRUE

\* return() up to its first await: onCancel, then both sides are woken.
Return ==
  /\ returning = "no" /\ returning' = "waiting"
  /\ cancelled' = TRUE /\ GiveUpTerminal
  /\ wakeProducer /\ wakeConsumer
  /\ UNCHANGED <<walkVars, endVars, buffer, signalled, delivered, completes, thrown>>

\* The generator's own return() and the producer have settled.
Returned ==
  /\ returning = "waiting" /\ producer = "ended"
  /\ returning' = "done" /\ buffer' = <<>>
  /\ UNCHANGED <<walkVars, endVars, producer, notifyProducer, callVars, cancelled, signalled, outVars>>

-----------------------------------------------------------------------------

Producer == WalkYields \/ WalkStops \/ ProducerWakes

Next ==
  \/ Producer
  \/ \E r \in Readers : CallsNext(r) \/ ReaderWakes(r)
  \/ Abort \/ Return \/ Returned

Spec == Init /\ [][Next]_vars

\* The walk answers (its requests time out), and a resolved promise resumes
\* whoever awaits it.  Nobody is obliged to call.
Fairness ==
  /\ WF_vars(Producer) /\ WF_vars(Returned)
  /\ \A r \in Readers : WF_vars(ReaderWakes(r))

FairSpec == Spec /\ Fairness

-----------------------------------------------------------------------------
(* Properties.                                                             *)

TypeOK ==
  /\ walk \in {"running", "done", "aborted", "failed"}
  /\ produced \in 0 .. MaxEvents
  /\ producer \in {"pulling", "parked", "woken", "ended"}
  /\ buffer \in Seq(1 .. MaxEvents) /\ delivered \in Seq(1 .. MaxEvents)
  /\ finished \in BOOLEAN /\ completed \in BOOLEAN /\ cancelled \in BOOLEAN
  /\ failure \in BOOLEAN /\ signalled \in BOOLEAN /\ notifyProducer \in BOOLEAN
  /\ terminal \in {"none", "walk", "aborted"}
  /\ notifyConsumer \in Readers \cup {None}
  /\ reader \in [Readers -> {"idle", "parked", "woken"}]
  /\ returning \in {"no", "waiting", "done"}
  /\ completes \in Seq({"walk", "aborted"}) /\ thrown \in Nat

\* "At most maxBufferedEvents events are held at once."
BufferBounded == Len(buffer) <= capacity

\* "It never reorders an event": the readers get the walk's events from the
\* first on, none twice and none left out, whichever call takes them.
InWalkOrder == delivered \o buffer = [i \in 1 .. Len(delivered) + Len(buffer) |-> i]

\* The two sides never wait for each other: a parked producer left an event for
\* a reader to take, and the slot through which taking it wakes the producer.
NoMutualWait == producer = "parked" => buffer # <<>> /\ notifyProducer

\* What lies between the walk and its readers: a bounded buffer in walk order,
\* over which the two sides never wait for each other.
BufferFaithful == BufferBounded /\ InWalkOrder /\ NoMutualWait

\* "Exactly one complete", and none for a consumer that broke out.
OneComplete ==
  /\ Len(completes) <= 1
  /\ [][returning # "no" => completes' = completes]_vars

\* No event of the walk follows the terminal event, however late it answers.
NothingAfterComplete == [][completes # <<>> => delivered' = delivered]_vars

\* A walk's error is told to one call, and before the terminal event, unless it
\* was the caller's signal that ended the stream: then the walk, cut by the same
\* signal, may fail when the terminal event is out, and a later call throws.
ErrorToldOnce ==
  /\ thrown <= 1
  /\ [][thrown' # thrown => walk # "done" /\ (completes = <<>> \/ signalled)]_vars

\* A consumer tells "walked everything" from "stopped early" by the summary:
\* the walk's own summary comes after every event it yielded, and an aborted
\* one only of a walk that did not finish, where the caller's signal fired or
\* the error was thrown before.
SummaryTruthful ==
  [][completes' # completes =>
       IF completes'[1] = "walk" THEN walk = "done" /\ Len(delivered) = produced
       ELSE walk # "done" /\ (signalled \/ thrown = 1)]_vars

\* A stream ends once, and what its readers are told of the end is true: one
\* terminal event, no event after it, and no error of the walk told twice.
EndsTruthfully == OneComplete /\ SummaryTruthful /\ NothingAfterComplete /\ ErrorToldOnce

\* A next() call is answered, whatever the walk, the signal and return() do,
\* unless an overlapping call has taken its slot.
EveryNextAnswered == \A r \in Readers :
  (notifyConsumer = r \/ reader[r] = "woken")
    ~> (reader[r] = "idle" \/ notifyConsumer \in Readers \ {r})

\* return() settles although the walk was waiting for the network or parked.
ReturnSettles == (returning = "waiting") ~> (returning = "done")

\* Both at once: nobody who called the iterator is left waiting.
CallsAnswered == EveryNextAnswered /\ ReturnSettles

-----------------------------------------------------------------------------
(* Promised, and not kept.                                                 *)

\* "A caller's abort is a stop reason, not a failure of the walk": no call
\* throws because of it.  The signal cuts the walk, the walk rejects, and the
\* next call that finds the buffer empty throws.
AbortIsNoFailure == [][thrown' # thrown => walk # "aborted"]_vars

\* "The iterator always ends with exactly one complete event": once that is out
\* a call only says done.  The signal ends the stream, a reader takes the
\* terminal event, then the walk rejects and the next call throws.
CompleteIsLast == [][completes # <<>> => thrown' = thrown]_vars
=============================================================================
