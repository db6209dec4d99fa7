--------------------------- MODULE MapConcurrent ---------------------------
(***************************************************************************)
(* mapConcurrent (client/scheduler.ts): an async generator that runs a     *)
(* mapper over an async source with a bounded window of calls in flight    *)
(* and yields the results in source order.  The steps are the stretches    *)
(* between two awaits of the generator; the mapper calls settle whenever   *)
(* they like.  With concurrency 1 a path of its own is taken.              *)
(***************************************************************************)
EXTENDS Integers, FiniteSets

CONSTANTS
  Concurrencies,  \* values of options.concurrency
  MaxItems        \* a bound on the length of the source

ASSUME MapAssumption ==
  /\ Concurrencies \subseteq Nat \ {0}
  /\ MaxItems \in Nat

VARIABLES
  concurrency, \* options.concurrency of this call
  pc,          \* where the generator is
  source,      \* the source iterator: "open", "ended" (inputDone) or "broken"
  started,     \* nextIndex
  task,        \* per index: the mapper call and then its entry of `results`
  inFlight,    \* the keys of the map inFlight
  yieldIndex,
  held,        \* the result taken from `results` and not yielded yet is there
  sawError,
  delivered    \* results the consumer received

mapVars == <<concurrency, pc, source, started, task, inFlight, yieldIndex, held, sawError, delivered>>

Item  == 0 .. MaxItems - 1
Ended == {"returned", "failed", "closed", "internalError"}
Serial == concurrency = 1

MapInit ==
  /\ concurrency \in Concurrencies
  /\ pc = "start" /\ source = "open"
  /\ started = 0 /\ yieldIndex = 0 /\ delivered = 0
  /\ task = [i \in Item |-> "none"]
  /\ inFlight = {} /\ held = FALSE /\ sawError = FALSE

-----------------------------------------------------------------------------
(* The window.                                                             *)

\* Mutant: one call too many.
MayStart_Wider == Cardinality(inFlight) <= concurrency /\ source = "open" /\ ~sawError

\* fillWindow's loop condition and startNext's early return.
MayStart == Cardinality(inFlight) < concurrency /\ source = "open" /\ ~sawError

\* Mutant: an exhausted source ends the map, whatever is still in flight.
LoopHead_InputDone == IF source = "ended" \/ inFlight = {} THEN "returned" ELSE "waiting"

\* The main loop's head: the next result is awaited, or there is none.
LoopHead == IF inFlight = {} THEN "returned"
            ELSE IF yieldIndex \in inFlight THEN "waiting" ELSE "internalError"

\* The consumer asks for the next result.
Resume ==
  /\ ~Serial
  /\ \/ pc = "start" /\ pc' = "filling"
     \/ pc = "yielded" /\ pc' = LoopHead
  /\ UNCHANGED <<concurrency, source, started, task, inFlight, yieldIndex, held, sawError, delivered>>

Pull ==
  /\ pc = "filling" /\ MayStart
  /\ pc' = "pulling"
  /\ UNCHANGED <<concurrency, source, started, task, inFlight, yieldIndex, held, sawError, delivered>>

\* iterator.next() resolved with an item: its mapper starts, whatever else
\* has settled in the meantime.
Pulled ==
  /\ ~Serial /\ pc = "pulling" /\ started < MaxItems
  /\ pc' = "filling"
  /\ started' = started + 1
  /\ task' = [task EXCEPT ![started] = "running"]
  /\ inFlight' = inFlight \cup {started}
  /\ UNCHANGED <<concurrency, source, yieldIndex, held, sawError, delivered>>

SourceEnds ==
  /\ ~Serial /\ pc = "pulling"
  /\ source' = "ended" /\ pc' = "filling"
  /\ UNCHANGED <<concurrency, started, task, inFlight, yieldIndex, held, sawError, delivered>>

\* iterator.next() rejected: so does fillWindow, and the generator with it,
\* the result it holds included.
SourceFails ==
  /\ pc = "pulling"
  /\ source' = "broken" /\ pc' = "failed"
  /\ held' = FALSE
  /\ UNCHANGED <<concurrency, started, task, inFlight, yieldIndex, sawError, delivered>>

\* The window is full, or cannot grow: the held result is yielded, or the loop
\* is entered for the first time.
Filled ==
  /\ pc = "filling" /\ ~MayStart
  /\ held' = FALSE
  /\ IF held THEN pc' = "yielded" /\ delivered' = delivered + 1
             ELSE pc' = LoopHead /\ UNCHANGED delivered
  /\ UNCHANGED <<concurrency, source, started, task, inFlight, yieldIndex, sawError>>

\* A mapper call settles, on its own schedule, even when nobody listens.
Settle(i) == \E r \in {"ok", "err"} :
  /\ ~Serial /\ task[i] = "running"
  /\ task' = [task EXCEPT ![i] = r]
  /\ sawError' = (sawError \/ r = "err")
  /\ UNCHANGED <<concurrency, pc, source, started, inFlight, yieldIndex, held, delivered>>

\* Mutant: the generator waits for a full window.
Takes_Full(i) == i = yieldIndex /\ task[i] \in {"ok", "err"} /\ Cardinality(inFlight) = concurrency

\* `await pending`: the result of yieldIndex, and no other.
Takes(i) == i = yieldIndex /\ task[i] \in {"ok", "err"}

Take == \E i \in Item :
  /\ pc = "waiting" /\ Takes(i)
  /\ inFlight' = inFlight \ {i}
  /\ yieldIndex' = yieldIndex + 1
  /\ IF task[i] = "ok" THEN pc' = "filling" /\ held' = TRUE
                       ELSE pc' = "failed" /\ UNCHANGED held
  /\ UNCHANGED <<concurrency, source, started, task, sawError, delivered>>

-----------------------------------------------------------------------------
(* concurrency 1: for await (item of source) yield await mapper(item).     *)

SerialResume ==
  /\ Serial /\ pc \in {"start", "yielded"}
  /\ pc' = "pulling"
  /\ UNCHANGED <<concurrency, source, started, task, inFlight, yieldIndex, held, sawError, delivered>>

SerialPulled ==
  /\ Serial /\ pc = "pulling" /\ started < MaxItems
  /\ pc' = "mapping"
  /\ started' = started + 1
  /\ task' = [task EXCEPT ![started] = "running"]
  /\ UNCHANGED <<concurrency, source, inFlight, yieldIndex, held, sawError, delivered>>

SerialEnds ==
  /\ Serial /\ pc = "pulling"
  /\ source' = "ended" /\ pc' = "returned"
  /\ UNCHANGED <<concurrency, started, task, inFlight, yieldIndex, held, sawError, delivered>>

SerialMapped == \E r \in {"ok", "err"} :
  /\ pc = "mapping"
  /\ task' = [task EXCEPT ![started - 1] = r]
  /\ IF r = "ok" THEN pc' = "yielded" /\ delivered' = delivered + 1
                 ELSE pc' = "failed" /\ UNCHANGED delivered
  /\ UNCHANGED <<concurrency, source, started, inFlight, yieldIndex, held, sawError>>

-----------------------------------------------------------------------------

\* The consumer breaks out, between two results or before the first.
Close ==
  /\ pc \in {"start", "yielded"}
  /\ pc' = "closed"
  /\ UNCHANGED <<concurrency, source, started, task, inFlight, yieldIndex, held, sawError, delivered>>

Generator == Pull \/ Pulled \/ SourceEnds \/ SourceFails \/ Filled \/ Take
               \/ SerialPulled \/ SerialEnds \/ SerialMapped

MapNext == Resume \/ SerialResume \/ Close \/ Generator \/ \E i \in Item : Settle(i)

MapSpec == MapInit /\ [][MapNext]_mapVars

\* The generator runs whenever it can, the source answers and every mapper call
\* settles (both are requests with a timeout).  Nobody has to ask.
MapFairness == WF_mapVars(Generator) /\ \A i \in Item : WF_mapVars(Settle(i))

FairMap == MapSpec /\ MapFairness

-----------------------------------------------------------------------------
(* Properties.                                                             *)

MapTypeOK ==
  /\ concurrency \in Concurrencies
  /\ pc \in {"start", "filling", "pulling", "waiting", "mapping", "yielded"} \cup Ended
  /\ source \in {"open", "ended", "broken"}
  /\ started \in 0 .. MaxItems
  /\ task \in [Item -> {"none", "running", "ok", "err"}]
  /\ inFlight \subseteq Item
  /\ yieldIndex \in 0 .. MaxItems
  /\ held \in BOOLEAN /\ sawError \in BOOLEAN
  /\ delivered \in 0 .. MaxItems

\* At most `concurrency` mapper calls are in flight, also after the generator
\* has ended.
WindowBounded == Cardinality({i \in Item : task[i] = "running"}) <= concurrency

\* "index ... was not in flight" is never thrown: the index to yield next is
\* always in flight or already consumed.
NoSchedulerError == pc # "internalError"

\* A failing item costs at most one window of requests: nothing starts
\* `concurrency` or more places behind it.
BlastRadius == \A i \in Item : task[i] = "err" => started <= i + concurrency

\* "Once any in-flight call rejects, no further item is pulled from source."
NoPullAfterError == [][sawError => pc' # "pulling" \/ pc = "pulling"]_mapVars

\* Neither a slow consumer nor a slow item lets the map run ahead: one window,
\* and the result in hand.
ReadAheadBounded == started <= delivered + concurrency + 1

\* The consumer sees the ordered map of the source, whatever finishes first.
Ordered == INSTANCE OrderedMap WITH
  given <- started,
  verdict <- [i \in Item |-> IF task[i] = "running" THEN "none" ELSE task[i]],
  stream <- IF pc = "returned" THEN "done"
            ELSE IF pc \in Ended THEN pc ELSE "open"
ImplementsOrderedMap == Ordered!Spec

\* Whoever asks for a result is answered: a window that is full, a failed item
\* or an exhausted source never leave the consumer waiting.
EveryRequestAnswered ==
  (pc \in {"filling", "pulling", "waiting", "mapping"})
    ~> (pc \in {"yielded", "returned", "failed"})

(* Promised, and not kept; see "Where the code and its words disagree".   *)
\* "Once any in-flight call rejects ... the in-flight window stops growing."
WindowStopsGrowing == [][sawError => inFlight' \subseteq inFlight]_mapVars
=============================================================================
