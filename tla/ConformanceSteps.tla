-------------------------- MODULE ConformanceSteps --------------------------
(***************************************************************************)
(* What the body of a conformance check is made of.  A check is a sequence *)
(* of steps; what it reads of the documents is left open, what it asks     *)
(* for, keeps, and does about a stop or an abort is not.                   *)
(***************************************************************************)
EXTENDS Sequences, SequencesExt

Step ==
  [does   |-> "judges",       \* asks, judges, walks, needs, uses, keeps, declares
   of     |-> "free",         \* the budget a request is charged to, or what is needed
   gets   |-> {},             \* documents kept when the step succeeds
   may    |-> {},             \* verdicts it may give on what it sees
   given  |-> {},             \* options and documents without which it is passed over
   unless |-> {},             \* any of them makes it pass over
   maybe  |-> FALSE,          \* what it saw before decides whether it asks at all
   fault  |-> "failed",       \* the request failed
   stop   |-> "inconclusive", \* the run's budget ended
   abort  |-> "inconclusive"] \* the caller's signal fired

Needs(x)    == [Step EXCEPT !.does = "needs", !.of = x]
Uses(x)     == [Step EXCEPT !.does = "uses", !.of = x]
Keeps(x)    == [Step EXCEPT !.does = "keeps", !.gets = {x}]
Asks(b)     == [Step EXCEPT !.does = "asks", !.of = b]
Gets(b, x)  == [Asks(b) EXCEPT !.gets = {x}]
Walks(b)    == [Step EXCEPT !.does = "walks", !.of = b]
Maybe(s)    == [s EXCEPT !.maybe = TRUE]
Judges(S)   == [Step EXCEPT !.may = S]
Declares(v) == [Step EXCEPT !.does = "declares", !.may = {v}]

Given(X, s)  == [s EXCEPT !.given = @ \cup X]
Unless(X, s) == [s EXCEPT !.unless = @ \cup X]

GivenAll(X, steps)  == [i \in DOMAIN steps |-> Given(X, steps[i])]
UnlessAny(X, steps) == [i \in DOMAIN steps |-> Unless(X, steps[i])]

\* What a step throws is swallowed, and the check goes on without it.
Swallow(s) == [s EXCEPT !.fault = "next", !.stop = "next", !.abort = "next",
                        !.may = IF @ = {} THEN {} ELSE {"next"}]
Swallowed(steps) == [i \in DOMAIN steps |-> Swallow(steps[i])]

\* What a request meets may leave its check running: passed over, noted for its
\* end, or contained in the result of a traversal.
GoingOn == {"next", "note", "contained"}

Check(id, requires, body) == [id |-> id, requires |-> requires, body |-> body]
=============================================================================
