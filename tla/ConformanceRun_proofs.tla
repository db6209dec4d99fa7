----------------------- MODULE ConformanceRun_proofs -----------------------
(***************************************************************************)
(* Proofs about ConformanceRun, for any limits and any suites: the pages   *)
(* and entities that all checks of a run ask for together stay within what *)
(* the caller allowed; and, for checks with the discipline of              *)
(* ConformanceSchedule, no check reads a document nobody captured, and a   *)
(* run that exits with 0 was finished.                                     *)
(***************************************************************************)
EXTENDS ConformanceSchedule, SequenceTheorems, TLAPS

Limited == DOMAIN Limit

LEMMA LimitsAreNumbers ==
  /\ Limited = {"page", "entity"} /\ Limited \subseteq Budgets
  /\ \A b \in Limited : Limit[b] \in Nat
BY RunAssumption DEF Limited, Limit, Budgets

\* Nothing goes out that was not charged, and what is charged over a limit
\* does not go out.
SentWasCharged ==
  /\ charged \in [Budgets -> Nat] /\ sent \in [Budgets -> Nat]
  /\ \A b \in Limited : sent[b] <= charged[b] /\ sent[b] <= Limit[b]

LEMMA InitSent == Init => SentWasCharged
BY LimitsAreNumbers DEF Init, SentWasCharged

LEMMA Counted ==
  ASSUME SentWasCharged, NEW b, Charge(b),
         UNCHANGED sent \/ (~Exceeded(b) /\ Send(b))
  PROVE  SentWasCharged'
<1>1. CASE b \notin Limited
  <2>1. charged' = charged
    BY <1>1 DEF Charge, SentWasCharged, Limited
  <2>2. sent' = sent
    BY <1>1 DEF Send, SentWasCharged, Limited
  <2> QED BY <2>1, <2>2 DEF SentWasCharged
<1>2. CASE b \in Limited
  <2>1. charged' = [charged EXCEPT ![b] = @ + 1]
    BY <1>2 DEF Charge, Limited
  <2>2. b \in Budgets
    BY <1>2, LimitsAreNumbers
  <2>3. \/ UNCHANGED sent
        \/ charged[b] + 1 <= Limit[b] /\ sent' = [sent EXCEPT ![b] = @ + 1]
    <3>1. Limit[b] \in Nat /\ charged[b] \in Nat
      BY <1>2, <2>2, LimitsAreNumbers DEF SentWasCharged
    <3> QED BY <1>2, <3>1 DEF Send, Exceeded, Limited
  <2> QED BY <1>2, <2>1, <2>2, <2>3, LimitsAreNumbers DEF SentWasCharged
<1> QED BY <1>1, <1>2

LEMMA Uncounted ==
  ASSUME SentWasCharged, UNCHANGED <<charged, sent>>
  PROVE  SentWasCharged'
BY DEF SentWasCharged

LEMMA NextSent ==
  ASSUME SentWasCharged, [Next]_vars
  PROVE  SentWasCharged'
<1>1. CASE SkipAborted \/ SkipBlocked \/ Begin \/ Finish \/ PassOver \/ Need \/ Use \/ Keep \/ Declare \/ Judge
  BY <1>1, Uncounted
  DEF SkipAborted, SkipBlocked, Begin, Finish, PassOver, Need, Use, Keep, Declare, Judge, Untouched
<1>2. ASSUME NEW s, Stop(s) \/ Cancelled(s) \/ Fault(s) PROVE SentWasCharged'
  BY <1>2, Counted DEF Stop, Cancelled, Fault, GoesOut
<1>3. CASE Ask
  <2>1. CASE Stop(Doing) \/ Cancelled(Doing) \/ Fault(Doing)
    BY <1>2, <2>1
  <2>2. CASE GoesOut(Doing) /\ Charge(Doing.of) /\ Send(Doing.of)
    BY <2>2, Counted DEF GoesOut
  <2>3. CASE Untouched
    BY <2>3, Uncounted DEF Untouched
  <2> QED BY <1>3, <2>1, <2>2, <2>3 DEF Ask
<1>4. CASE NextPage
  <2>1. CASE Stop(Doing) \/ Cancelled(Doing) \/ Fault(Doing)
    BY <1>2, <2>1
  <2>2. CASE UNCHANGED <<charged, sent>>
    BY <2>2, Uncounted
  <2>3. CASE GoesOut(Doing) /\ Charge(Doing.of) /\ Send(Doing.of)
    BY <2>3, Counted DEF GoesOut
  <2> QED BY <1>4, <2>1, <2>2, <2>3 DEF NextPage
<1>5. CASE TurnPage \/ Abort \/ UNCHANGED vars
  BY <1>5, Uncounted DEF TurnPage, Abort, vars
<1> QED BY <1>1, <1>3, <1>4, <1>5 DEF Next, Run

\* Sitemap pages and entities asked for by all the checks of a run together
\* stay within the caller's maxPages and maxEntities, because the one place
\* that charges counts before it compares (budget.ts chargeDiscoveryBudget).
THEOREM RequestsWithinLimitsAlways == Spec => []RequestsWithinLimits
<1>1. SentWasCharged => RequestsWithinLimits
  BY DEF SentWasCharged, RequestsWithinLimits, Limited
<1>2. Spec => []SentWasCharged
  BY InitSent, NextSent, PTL DEF Spec
<1> QED BY <1>1, <1>2, PTL

-----------------------------------------------------------------------------
(* What a step does to the check that is running.                          *)

There == Certain(Checks)

\* What of a suite stays as it is while it runs; a signal stays fired.
Same == UNCHANGED <<suite, opts>> /\ (aborted => aborted')

\* What a request met and its check has to answer for.
Matters(s, v) ==
  \/ v = s.fault /\ s.fault # "contained"
  \/ v = s.stop /\ s.of \notin Own
  \/ v = s.abort /\ aborted

\* A request that met something, or another step.
Excused(s) ==
  /\ s.does \in {"asks", "walks"}
  /\ \/ Matters(s, "next") /\ kept' = kept
     \/ Matters(s, "contained") /\ kept' = kept
     \/ Matters(s, "note") /\ kept' = kept \cup {"unreachable"}

Held == UNCHANGED <<kept, cut, lost>>

Passes == /\ PassedOver(Doing) /\ Held
Does ==
  /\ ~PassedOver(Doing) /\ Doing.does # "declares"
  /\ \/ UNCHANGED <<cut, lost>> /\ kept' \in {kept, kept \cup Doing.gets, kept \cup {"unreachable"}}
     \/ Excused(Doing)
  /\ Secures(Doing) => kept' = kept \cup Doing.gets

InBody == InCheck /\ step <= Len(Body)

\* The check goes on to its next step.
MovesOn ==
  /\ InBody /\ Same
  /\ step' = step + 1 /\ UNCHANGED <<at, results>>
  /\ Passes \/ Does

Recorded(v) == results' = Append(results, v) /\ at' = at + 1 /\ step' = 0

\* The check ends with a verdict of the step at hand.
EndsAt(v) ==
  /\ InBody /\ Same /\ Recorded(v)
  /\ v \in Ends(Doing) /\ kept' = kept
  /\ \/ UNCHANGED <<cut, lost>>
     \/ Doing.does \in {"asks", "walks"} /\ Matters(Doing, v) /\ v \notin GoingOn
EndsBadly == \E v \in Ends(Doing) : EndsAt(v)

EndsWell == InCheck /\ step > Len(Body) /\ Same /\ Held /\ Recorded("passed")

\* The check is not begun.
IsSkipped ==
  /\ Running /\ step = 0 /\ Same /\ Held
  /\ Recorded("inconclusive") \/ (~aborted /\ Blocking /\ Recorded("skipped"))

Begins ==
  /\ Running /\ step = 0 /\ ~aborted /\ ~Blocking /\ Same /\ Held
  /\ step' = 1 /\ UNCHANGED <<at, results>>

Stays == Same /\ Held /\ UNCHANGED <<at, step, results>>

StepKinds == MovesOn \/ EndsBadly \/ EndsWell \/ IsSkipped \/ Begins \/ Stays

LEMMA Ending ==
  ASSUME NEW s, s = Doing, s.does \in {"asks", "walks"}, NEW v \in Troubles(s), InBody, Same, ~PassedOver(s),
         EndsWith(v), UNCHANGED <<cut, lost>> \/ Matters(s, v)
  PROVE  MovesOn \/ EndsBadly
<1>1. CASE v \in {"next", "contained"}
  <2>1. kept' = kept /\ Onward
    BY <1>1 DEF EndsWith
  <2>2. ~Secures(Doing)
    BY <1>1 DEF Secures, GoingOn
  <2>3. Does
    BY <1>1, <2>1, <2>2 DEF Does, Excused
  <2> QED BY <2>1, <2>3 DEF Onward, MovesOn
<1>2. CASE v = "note"
  <2>1. kept' = kept \cup {"unreachable"} /\ Onward
    BY <1>2 DEF EndsWith
  <2>2. ~Secures(Doing)
    BY <1>2 DEF Secures, GoingOn
  <2>3. Does
    BY <1>2, <2>1, <2>2 DEF Does, Excused
  <2> QED BY <2>1, <2>3 DEF Onward, MovesOn
<1>3. CASE v \notin GoingOn
  <2>1. Recorded(v) /\ kept' = kept
    BY <1>3 DEF EndsWith, Record, Recorded, GoingOn
  <2>2. v \in Ends(Doing)
    BY <1>3 DEF Ends, Among
  <2> QED BY <1>3, <2>1, <2>2 DEF EndsBadly, EndsAt
<1> QED BY <1>1, <1>2, <1>3 DEF GoingOn

LEMMA Meets ==
  ASSUME NEW s, s = Doing, s.does \in {"asks", "walks"}, InBody, ~PassedOver(s),
         Stop(s) \/ Cancelled(s) \/ Fault(s)
  PROVE  MovesOn \/ EndsBadly
<1>1. Same
  BY DEF Stop, Cancelled, Fault, Same
<1>2. CASE Stop(s)
  <2>1. EndsWith(s.stop) /\ (UNCHANGED <<cut, lost>> \/ Matters(s, s.stop))
    BY <1>2 DEF Stop, OnStop, Matters
  <2> QED BY <1>1, <2>1, Ending DEF Troubles
<1>3. CASE Cancelled(s)
  <2>1. EndsWith(s.abort) /\ Matters(s, s.abort)
    BY <1>3 DEF Cancelled, OnAbort, Matters
  <2> QED BY <1>1, <2>1, Ending DEF Troubles
<1>4. CASE Fault(s)
  <2>1. EndsWith(s.fault) /\ (UNCHANGED <<cut, lost>> \/ Matters(s, s.fault))
    BY <1>4 DEF Fault, Matters
  <2> QED BY <1>1, <2>1, Ending DEF Troubles
<1> QED BY <1>2, <1>3, <1>4

LEMMA KindsOfSteps == [Next]_vars => StepKinds
<1>1. ASSUME SkipAborted \/ SkipBlocked PROVE IsSkipped
  BY <1>1 DEF SkipAborted, SkipBlocked, IsSkipped, Record, Recorded, Untouched, Same, Held
<1>2. ASSUME Begin PROVE Begins
  BY <1>2 DEF Begin, Begins, Untouched, Same, Held
<1>3. ASSUME Finish PROVE EndsWell
  BY <1>3 DEF Finish, EndsWell, Record, Recorded, Untouched, Same, Held
<1>4. ASSUME PassOver PROVE MovesOn
  BY <1>4 DEF PassOver, MovesOn, Passes, Onward, Untouched, Same, Held, InBody
<1>5. ASSUME Need PROVE MovesOn \/ EndsBadly
  <2>1. CASE Onward
    BY <1>5, <2>1 DEF Need, At, MovesOn, Does, Secures, Onward, Untouched, Same, InBody
  <2>2. CASE Record("inconclusive")
    BY <1>5, <2>2 DEF Need, At, EndsBadly, EndsAt, Ends, Among, Record, Recorded, Untouched, Same, InBody
  <2> QED BY <1>5, <2>1, <2>2 DEF Need
<1>6. ASSUME Use PROVE MovesOn \/ EndsBadly
  <2>1. CASE Onward
    BY <1>6, <2>1 DEF Use, At, MovesOn, Does, Secures, Onward, Untouched, Same, InBody
  <2>2. CASE Record("failed")
    BY <1>6, <2>2 DEF Use, At, EndsBadly, EndsAt, Ends, Among, Record, Recorded, Untouched, Same, InBody
  <2> QED BY <1>6, <2>1, <2>2 DEF Use
<1>7. ASSUME Keep PROVE MovesOn
  BY <1>7 DEF Keep, At, MovesOn, Does, Onward, Same, InBody
<1>8. ASSUME Declare PROVE EndsBadly
  <2>1. PICK v \in Doing.may : Record(v)
    BY <1>8 DEF Declare
  <2> QED BY <1>8, <2>1 DEF Declare, At, EndsBadly, EndsAt, Ends, Among, Record, Recorded, Untouched, Same, InBody
<1>9. ASSUME Judge PROVE MovesOn \/ EndsBadly
  <2>1. CASE Onward /\ kept' = kept \cup Doing.gets
    BY <1>9, <2>1 DEF Judge, At, MovesOn, Does, Onward, Same, InBody
  <2>2. ASSUME NEW v \in Doing.may, IF v = "next" THEN Onward ELSE Record(v), UNCHANGED kept PROVE MovesOn \/ EndsBadly
    <3>1. CASE v = "next"
      BY <1>9, <2>2, <3>1 DEF Judge, At, MovesOn, Does, Secures, Onward, Same, InBody
    <3>2. CASE v # "next"
      BY <1>9, <2>2, <3>2 DEF Judge, At, EndsBadly, EndsAt, Ends, Among, Record, Recorded, Same, InBody
    <3> QED BY <3>1, <3>2
  <2> QED BY <1>9, <2>1, <2>2 DEF Judge
<1>10. ASSUME Ask PROVE MovesOn \/ EndsBadly
  <2>1. InBody /\ Doing.does = "asks" /\ ~PassedOver(Doing)
    BY <1>10 DEF Ask, At, InBody
  <2>2. CASE Stop(Doing) \/ Cancelled(Doing) \/ Fault(Doing)
    BY <2>1, <2>2, Meets
  <2>3. CASE kept' = kept \cup Doing.gets /\ Onward
             /\ UNCHANGED <<suite, opts, spent, aborted, cut, lost, contained, trouble>>
    BY <2>1, <2>3 DEF MovesOn, Does, Onward, Same
  <2>4. CASE Doing.maybe /\ Onward /\ Untouched
    <3>1. ~Secures(Doing)
      BY <2>1, <2>4 DEF Secures
    <3> QED BY <2>1, <2>4, <3>1 DEF MovesOn, Does, Onward, Untouched, Same
  <2> QED BY <1>10, <2>2, <2>3, <2>4 DEF Ask
<1>11. ASSUME NextPage PROVE MovesOn \/ EndsBadly \/ Stays
  <2>1. InBody /\ Doing.does = "walks" /\ ~PassedOver(Doing)
    BY <1>11 DEF NextPage, At, InBody
  <2>2. CASE Stop(Doing) \/ Cancelled(Doing) \/ Fault(Doing)
    BY <2>1, <2>2, Meets
  <2>3. CASE UNCHANGED <<suite, opts, at, step, results, pages, kept, spent, aborted, cut, lost, contained, trouble>>
    BY <2>3 DEF Stays, Same, Held
  <2> QED BY <1>11, <2>2, <2>3 DEF NextPage
<1>12. ASSUME TurnPage PROVE MovesOn \/ EndsBadly \/ Stays
  <2>1. InBody /\ Doing.does = "walks" /\ ~PassedOver(Doing) /\ Same /\ Held
    BY <1>12 DEF TurnPage, At, InBody, Same, Held
  <2>2. CASE step' = step + 1 /\ UNCHANGED <<at, results, trouble>>
    BY <2>1, <2>2 DEF MovesOn, Does, Secures, Held
  <2>3. CASE UNCHANGED <<at, step, results, trouble>>
    BY <2>1, <2>3 DEF Stays
  <2>4. CASE Record("failed")
    BY <2>1, <2>4 DEF EndsBadly, EndsAt, Ends, Among, Record, Recorded, Held
  <2> QED BY <1>12, <2>2, <2>3, <2>4 DEF TurnPage
<1>13. ASSUME Abort \/ UNCHANGED vars PROVE Stays
  BY <1>13 DEF Abort, Stays, Same, Held, vars
<1> QED
  BY <1>1, <1>2, <1>3, <1>4, <1>5, <1>6, <1>7, <1>8, <1>9, <1>10, <1>11, <1>12, <1>13 DEF Next, Run, StepKinds

-----------------------------------------------------------------------------
(* What holds of a run of disciplined checks.                              *)

RunType ==
  /\ suite \in Suites /\ opts \in OptionSets
  /\ at \in Nat /\ at >= 1 /\ step \in Nat
  /\ results \in Seq(Verdicts) /\ Len(results) = at - 1
  /\ InCheck => step <= Len(Body) + 1

\* A document that comes with another is there only where that one is.
NeverAlone == \A pair \in Together : pair[1] \in kept => pair[2] \in kept

\* What is certain is there, and so is what a check that went well ensures.
CertainIsKept == InCheck => There[at][step] \subseteq kept
EnsuredIsKept ==
  \A j \in DOMAIN results : results[j] \in Through => Ensured(Checks[j], There[j]) \subseteq kept

NoSkip(check) == check.requires = {} /\ \A n \in DOMAIN check.body : "skipped" \notin Ends(check.body[n])
NeverSkipped == \A j \in DOMAIN results : NoSkip(Checks[j]) => results[j] # "skipped"

\* Whatever cut a check short or failed it a request has been told, or will be.
Alarmed == \E j \in DOMAIN results : results[j] \in Alarms
Noted == InCheck /\ "unreachable" \in kept /\ Tells(Body, step)
\* After an abort the next check is not begun, which says so.
Warned == aborted /\ Running /\ (step = 0 \/ at < Len(Checks))
ToldOrNoted == cut \cup lost # {} => Alarmed \/ Noted \/ Warned

RunInv == RunType /\ NeverAlone /\ CertainIsKept /\ EnsuredIsKept /\ NeverSkipped /\ ToldOrNoted

\* The checks at hand have the discipline.
LEMMA HaveDiscipline ==
  ASSUME RunType
  PROVE  /\ Disciplined(Checks, There) /\ Ordered(Checks)
         /\ opts \cap (Documents \cup {"unreachable"}) = {}
         /\ Running => at \in DOMAIN Checks /\ Justified(Checks, There, at)
         /\ InBody => /\ step \in DOMAIN Body /\ step \in 1 .. Len(Body)
                      /\ WellMade(Doing) /\ KeptTogether(Doing, There[at][step])
                      /\ UsesCertain(Doing, There[at][step]) /\ Accountable(Checks, There, at, step)
<1>1. Disciplined(Checks, There)
  BY SchedulesAssumption DEF RunType, Checks, There
<1>2. Ordered(Checks)
  BY <1>1 DEF Disciplined
<1>3. ASSUME Running PROVE at \in DOMAIN Checks /\ Justified(Checks, There, at)
  <2>1. at \in DOMAIN Checks
    BY <1>2, <1>3 DEF Running, Ordered, RunType
  <2> QED BY <1>1, <2>1 DEF Disciplined
<1>4. ASSUME InBody
      PROVE  /\ step \in DOMAIN Body /\ step \in 1 .. Len(Body)
             /\ WellMade(Doing) /\ KeptTogether(Doing, There[at][step])
             /\ UsesCertain(Doing, There[at][step]) /\ Accountable(Checks, There, at, step)
  <2>1. Running
    BY <1>4 DEF InBody, InCheck
  <2>2. step \in DOMAIN Body /\ step \in 1 .. Len(Body)
    BY <1>3, <1>4, <2>1 DEF InBody, InCheck, Justified, RunType, Body, Current
  <2> QED BY <1>1, <1>3, <2>1, <2>2 DEF Disciplined, Body, Current, Doing
<1> QED BY <1>1, <1>2, <1>3, <1>4, SchedulesAssumption DEF RunType

LEMMA SameChecks ==
  ASSUME Same
  PROVE  Checks' = Checks /\ There' = There
<1>1. Checks' = Checks
  BY DEF Same, Checks
<1> QED BY <1>1 DEF There

LEMMA SameCheck ==
  ASSUME Same, at' = at
  PROVE  Body' = Body /\ Running' = Running /\ There'[at'] = There[at]
BY SameChecks DEF Body, Current, Running

LEMMA TypeInit == Init => RunType
<1> SUFFICES ASSUME Init PROVE RunType
  OBVIOUS
<1>1. <<>> \in Seq(Verdicts) /\ Len(<<>>) = 0
  OBVIOUS
<1> QED BY <1>1 DEF Init, RunType, InCheck

LEMMA RecordedType ==
  ASSUME RunType, Same, NEW v \in Verdicts, Recorded(v)
  PROVE  /\ RunType' /\ ~InCheck'
         /\ Len(results') = Len(results) + 1 /\ results'[Len(results')] = v
         /\ \A j \in DOMAIN results : j \in DOMAIN results' /\ results'[j] = results[j]
         /\ \A j \in DOMAIN results' : j \in DOMAIN results \/ j = at
         /\ results'[at] = v
<1>1. /\ results' \in Seq(Verdicts) /\ Len(results') = Len(results) + 1
      /\ \A j \in 1 .. Len(results) : results'[j] = results[j]
      /\ results'[Len(results) + 1] = v
  BY AppendProperties DEF RunType, Recorded
<1>2. DOMAIN results = 1 .. Len(results) /\ DOMAIN results' = 1 .. Len(results')
  BY <1>1, LenProperties DEF RunType
<1>3. ~InCheck'
  BY DEF Recorded, InCheck
<1>4. RunType'
  BY <1>1, <1>3 DEF RunType, Same, Recorded
<1> QED BY <1>1, <1>2, <1>3, <1>4 DEF RunType, Recorded

\* The verdict of a check that ends.
LEMMA Verdict ==
  ASSUME RunType, NEW v,
         \/ EndsAt(v)
         \/ EndsWell /\ v = "passed"
         \/ IsSkipped /\ Recorded(v) /\ v \in {"skipped", "inconclusive"}
  PROVE  v \in Verdicts /\ Recorded(v) /\ Same /\ kept' = kept
<1>1. CASE EndsAt(v)
  BY <1>1, HaveDiscipline DEF EndsAt, WellMade
<1>2. CASE ~EndsAt(v)
  BY <1>2 DEF EndsWell, IsSkipped, Verdicts, Held
<1> QED BY <1>1, <1>2

LEMMA TypeStep == RunType /\ StepKinds => RunType'
<1> SUFFICES ASSUME RunType, StepKinds PROVE RunType'
  OBVIOUS
<1>1. CASE MovesOn
  <2>1. step' = step + 1 /\ step <= Len(Body) /\ Same /\ UNCHANGED <<at, results>> /\ Body' = Body
    BY <1>1, SameCheck DEF MovesOn, InBody
  <2>2. Len(Body) \in Nat
    BY <1>1, HaveDiscipline DEF MovesOn, InBody, InCheck, Justified, Body, Current
  <2> QED BY <2>1, <2>2 DEF RunType, Same
<1>2. CASE Begins
  <2>1. step' = 1 /\ Same /\ UNCHANGED <<at, results>> /\ Body' = Body
    BY <1>2, SameCheck DEF Begins
  <2>2. Len(Body) \in Nat
    BY <1>2, HaveDiscipline DEF Begins, Justified, Body, Current
  <2> QED BY <2>1, <2>2 DEF RunType, Same
<1>3. CASE Stays
  <2>1. Body' = Body /\ Running' = Running
    BY <1>3, SameCheck DEF Stays
  <2> QED BY <1>3, <2>1 DEF RunType, Stays, Same, InCheck
<1>4. CASE EndsBadly
  BY <1>4, Verdict, RecordedType DEF EndsBadly
<1>5. CASE EndsWell
  BY <1>5, Verdict, RecordedType DEF EndsWell
<1>6. CASE IsSkipped
  BY <1>6, Verdict, RecordedType DEF IsSkipped
<1> QED BY <1>1, <1>2, <1>3, <1>4, <1>5, <1>6 DEF StepKinds

-----------------------------------------------------------------------------
(* What is certain is there.                                               *)

LEMMA KeptGrows ==
  ASSUME StepKinds
  PROVE  kept \subseteq kept'
BY DEF StepKinds, MovesOn, Passes, Does, Excused, EndsBadly, EndsAt, EndsWell, IsSkipped, Begins, Stays, Held

LEMMA AloneStep == ASSUME RunInv, StepKinds PROVE NeverAlone'
<1>1. CASE kept' = kept \/ kept' = kept \cup {"unreachable"}
  BY <1>1 DEF RunInv, NeverAlone, Together
<1>2. CASE InBody /\ ~PassedOver(Doing) /\ kept' = kept \cup Doing.gets
  <2>1. SUFFICES ASSUME NEW pair \in Together, pair[1] \in kept' PROVE pair[2] \in kept'
    BY DEF NeverAlone
  <2>2. CASE pair[1] \in kept
    BY <1>2, <2>1, <2>2 DEF RunInv, NeverAlone
  <2>3. CASE pair[1] \in Doing.gets
    <3>1. pair[2] \in Doing.given \cup There[at][step]
      BY <1>2, <2>3, HaveDiscipline DEF RunInv, KeptTogether
    <3>2. pair[2] \in opts \cup kept
      BY <1>2, <3>1 DEF RunInv, CertainIsKept, InBody, PassedOver, Have
    <3>3. pair[2] \in Documents
      BY <2>1 DEF Together, Documents
    <3> QED BY <1>2, <3>2, <3>3, HaveDiscipline DEF RunInv
  <2> QED BY <1>2, <2>1, <2>2, <2>3
<1> QED
  BY <1>1, <1>2 DEF StepKinds, MovesOn, Passes, Does, Excused, EndsBadly, EndsAt, EndsWell, IsSkipped, Begins, Stays, Held

\* A step that is passed over though its documents would add to what is certain
\* finds them there.
LEMMA AddsKept ==
  ASSUME RunInv, MovesOn, NEW x \in Adds(Doing, There[at][step])
  PROVE  x \in kept'
<1>1. /\ x \in Doing.gets /\ Secures(Doing) /\ Doing.given \subseteq There[at][step]
      /\ \A y \in Doing.unless : Gives(y, x)
  BY DEF Adds
<1>2. CASE Does
  BY <1>1, <1>2 DEF Does
<1>3. CASE Passes
  <2>1. Doing.given \subseteq kept
    BY <1>1 DEF RunInv, CertainIsKept, MovesOn, InBody
  <2>2. PICK y \in Doing.unless : y \in opts \cup kept
    BY <1>3, <2>1 DEF Passes, PassedOver, Have
  <2>3. y \in Documents /\ (y = x \/ <<y, x>> \in Together)
    BY <1>1, <2>2 DEF Gives
  <2>4. y \in kept
    BY <2>2, <2>3, HaveDiscipline DEF RunInv
  <2>5. x \in kept
    <3>1. CASE <<y, x>> \in Together
      <4>1. <<y, x>>[1] \in kept => <<y, x>>[2] \in kept
        BY <3>1 DEF RunInv, NeverAlone
      <4> QED BY <2>4, <4>1
    <3> QED BY <2>3, <2>4, <3>1
  <2> QED BY <1>3, <2>5 DEF Passes, Held
<1> QED BY <1>2, <1>3 DEF MovesOn

\* A check is begun only after those that it requires went well.
LEMMA RequiredWentWell ==
  ASSUME RunInv, Begins, NEW j \in 1 .. at - 1, Checks[j].id \in Current.requires
  PROVE  j \in DOMAIN results /\ results[j] \in Through
<1>1. j \in DOMAIN results /\ results[j] \in Verdicts
  <2>1. DOMAIN results = 1 .. (at - 1)
    BY LenProperties DEF RunInv, RunType
  <2> QED BY <2>1, ElementOfSeq, LenProperties DEF RunInv, RunType
<1>2. Ordered(Checks) /\ DOMAIN results \subseteq DOMAIN Checks
  <2>1. Ordered(Checks) /\ at \in DOMAIN Checks
    BY HaveDiscipline DEF RunInv, Begins
  <2>2. DOMAIN results = 1 .. (at - 1)
    BY LenProperties DEF RunInv, RunType
  <2> QED BY <2>1, <2>2 DEF Ordered, RunInv, RunType
<1>3. \A i \in DOMAIN results : Checks[i].id = Checks[j].id => i = j
  BY <1>1, <1>2 DEF Ordered
<1>4. (CHOOSE i \in DOMAIN results : Checks[i].id = Checks[j].id) = j
  BY <1>1, <1>3
<1>5. StatusOf(Checks[j].id) = results[j]
  BY <1>4 DEF StatusOf
<1>6. StatusOf(Checks[j].id) \notin {"failed", "skipped", "inconclusive"}
  BY DEF Begins, Blocking
<1> QED BY <1>1, <1>5, <1>6 DEF Verdicts, Through

LEMMA CertainStep == ASSUME RunInv, StepKinds PROVE CertainIsKept'
<1>1. CASE MovesOn
  <2>1. There'[at'] = There[at] /\ step' = step + 1
    BY <1>1, SameCheck DEF MovesOn
  <2>2. There[at][step + 1] \subseteq There[at][step] \cup Adds(Doing, There[at][step])
    BY <1>1, HaveDiscipline DEF RunInv, MovesOn, InBody, InCheck, Justified, Body, Current, Doing
  <2>3. There[at][step] \subseteq kept'
    BY <1>1, KeptGrows DEF RunInv, CertainIsKept, MovesOn, InBody, StepKinds
  <2>4. Adds(Doing, There[at][step]) \subseteq kept'
    BY <1>1, AddsKept
  <2> QED BY <2>1, <2>2, <2>3, <2>4 DEF CertainIsKept
<1>2. CASE Begins
  <2>1. There'[at'] = There[at] /\ step' = 1 /\ kept' = kept
    BY <1>2, SameCheck DEF Begins, Held
  <2>2. ASSUME NEW x \in There[at][1] PROVE x \in kept
    <3>1. PICK j \in 1 .. at - 1 : Checks[j].id \in Current.requires /\ x \in Ensured(Checks[j], There[j])
      BY <1>2, <2>2, HaveDiscipline DEF RunInv, Begins, Justified, Current
    <3> QED BY <1>2, <3>1, RequiredWentWell DEF RunInv, EnsuredIsKept
  <2> QED BY <2>1, <2>2 DEF CertainIsKept
<1>3. CASE Stays
  <2>1. There'[at'] = There[at] /\ Running' = Running /\ step' = step /\ kept' = kept
    BY <1>3, SameCheck DEF Stays, Held
  <2> QED BY <2>1 DEF RunInv, CertainIsKept, InCheck
<1>4. CASE EndsBadly \/ EndsWell \/ IsSkipped
  BY <1>4 DEF EndsBadly, EndsAt, EndsWell, IsSkipped, Recorded, CertainIsKept, InCheck
<1> QED BY <1>1, <1>2, <1>3, <1>4 DEF StepKinds

\* A check that ends well has what it ensures.
LEMMA EnsuresAtEnd ==
  ASSUME RunInv, InCheck, step \in GoodEnds(Body)
  PROVE  Ensured(Current, There[at]) \subseteq kept
BY DEF RunInv, CertainIsKept, Ensured, Body

LEMMA EnsuredStep == ASSUME RunInv, StepKinds PROVE EnsuredIsKept'
<1>1. CASE UNCHANGED results /\ Same
  <2>1. Checks' = Checks /\ There' = There
    BY <1>1, SameChecks
  <2> QED BY <1>1, <2>1, KeptGrows DEF RunInv, EnsuredIsKept
<1>2. ASSUME NEW v \in Verdicts, Recorded(v), Same, v \in Through => Ensured(Current, There[at]) \subseteq kept
      PROVE  EnsuredIsKept'
  <2>1. Checks' = Checks /\ There' = There
    BY <1>2, SameChecks
  <2>2. SUFFICES ASSUME NEW j \in DOMAIN results', results'[j] \in Through
        PROVE  Ensured(Checks[j], There[j]) \subseteq kept'
    BY <2>1 DEF EnsuredIsKept
  <2>3. CASE j \in DOMAIN results
    BY <1>2, <2>2, <2>3, RecordedType, KeptGrows DEF RunInv, EnsuredIsKept
  <2>4. CASE j = at
    BY <1>2, <2>2, <2>4, RecordedType, KeptGrows DEF RunInv, Current
  <2> QED BY <1>2, <2>2, <2>3, <2>4, RecordedType DEF RunInv
<1>3. CASE EndsBadly
  <2>1. PICK v \in Ends(Doing) : EndsAt(v)
    BY <1>3 DEF EndsBadly
  <2>2. v \in Verdicts /\ Recorded(v) /\ Same
    BY <2>1, Verdict DEF RunInv
  <2>3. v \in Through => step \in GoodEnds(Body)
    <3>1. step \in 1 .. Len(Body) /\ Len(Body) \in Nat
      BY <2>1, HaveDiscipline DEF EndsAt, InBody, InCheck, RunInv, Justified, Body, Current
    <3> QED BY <2>1, <3>1 DEF GoodEnds, Doing
  <2> QED BY <1>2, <2>1, <2>2, <2>3, EnsuresAtEnd DEF EndsAt, InBody
<1>4. CASE EndsWell
  <2>1. step \in GoodEnds(Body)
    <3>1. Len(Body) \in Nat
      BY <1>4, HaveDiscipline DEF EndsWell, InCheck, RunInv, Justified, Body, Current
    <3>2. step = Len(Body) + 1
      BY <1>4, <3>1 DEF EndsWell, RunInv, RunType
    <3> QED BY <3>1, <3>2 DEF GoodEnds
  <2> QED BY <1>2, <1>4, <2>1, Verdict, EnsuresAtEnd DEF EndsWell, RunInv
<1>5. CASE IsSkipped
  <2>1. PICK v \in {"skipped", "inconclusive"} : Recorded(v)
    BY <1>5 DEF IsSkipped
  <2> QED BY <1>2, <1>5, <2>1, Verdict DEF RunInv, Through
<1> QED BY <1>1, <1>3, <1>4, <1>5 DEF StepKinds, MovesOn, Begins, Stays

LEMMA SkippedStep == ASSUME RunInv, StepKinds PROVE NeverSkipped'
<1>1. CASE UNCHANGED results /\ Same
  <2>1. Checks' = Checks
    BY <1>1, SameChecks
  <2> QED BY <1>1, <2>1 DEF RunInv, NeverSkipped
<1>2. ASSUME NEW v \in Verdicts, Recorded(v), Same, NoSkip(Current) => v # "skipped"
      PROVE  NeverSkipped'
  <2>1. Checks' = Checks
    BY <1>2, SameChecks
  <2>2. SUFFICES ASSUME NEW j \in DOMAIN results', NoSkip(Checks[j])
        PROVE  results'[j] # "skipped"
    BY <2>1 DEF NeverSkipped
  <2>3. CASE j \in DOMAIN results
    BY <1>2, <2>2, <2>3, RecordedType DEF RunInv, NeverSkipped
  <2>4. CASE j = at
    BY <1>2, <2>2, <2>4, RecordedType DEF RunInv, Current
  <2> QED BY <1>2, <2>2, <2>3, <2>4, RecordedType DEF RunInv
<1>3. CASE EndsBadly
  <2>1. PICK v \in Ends(Doing) : EndsAt(v)
    BY <1>3 DEF EndsBadly
  <2>2. v \in Verdicts /\ Recorded(v) /\ Same
    BY <2>1, Verdict DEF RunInv
  <2>3. step \in DOMAIN Body
    BY <2>1, HaveDiscipline DEF EndsAt, RunInv
  <2>4. NoSkip(Current) => v # "skipped"
    BY <2>1, <2>3 DEF NoSkip, Body, Doing
  <2> QED BY <1>2, <2>2, <2>4
<1>4. CASE EndsWell
  BY <1>2, <1>4, Verdict DEF EndsWell, RunInv
<1>5. CASE IsSkipped
  <2>1. CASE Recorded("inconclusive")
    BY <1>2, <1>5, <2>1, Verdict DEF RunInv
  <2>2. CASE Blocking /\ Recorded("skipped")
    BY <1>2, <1>5, <2>2, Verdict DEF RunInv, Blocking, NoSkip
  <2> QED BY <1>5, <2>1, <2>2 DEF IsSkipped
<1> QED BY <1>1, <1>3, <1>4, <1>5 DEF StepKinds, MovesOn, Begins, Stays

-----------------------------------------------------------------------------
(* Whatever went wrong is told.                                            *)

\* If another check was to get a document and did not, it says why.
LEMMA MissingIsAlarmed ==
  ASSUME RunInv, Running, NEW x, x \notin kept, Elsewhere(Checks, There, at, x)
  PROVE  Alarmed
<1>1. PICK j \in 1 .. at - 1 : x \in Ensured(Checks[j], There[j]) /\ NoSkip(Checks[j])
  BY DEF Elsewhere, NoSkip
<1>2. j \in DOMAIN results /\ results[j] \in Verdicts
  <2>1. DOMAIN results = 1 .. (at - 1)
    BY LenProperties DEF RunInv, RunType
  <2> QED BY <2>1, ElementOfSeq, LenProperties DEF RunInv, RunType
<1>3. results[j] \notin Through
  BY <1>1, <1>2 DEF RunInv, EnsuredIsKept
<1>4. results[j] # "skipped"
  BY <1>1, <1>2 DEF RunInv, NeverSkipped
<1> QED BY <1>2, <1>3, <1>4 DEF Alarmed, Alarms, Verdicts, Through

LEMMA AlarmsStay ==
  ASSUME RunInv, StepKinds, Alarmed
  PROVE  Alarmed'
<1>1. CASE UNCHANGED results
  BY <1>1 DEF Alarmed
<1>2. ASSUME NEW v \in Verdicts, Recorded(v), Same PROVE Alarmed'
  BY <1>2, RecordedType DEF RunInv, Alarmed
<1>3. CASE EndsBadly
  BY <1>2, <1>3, Verdict DEF RunInv, EndsBadly
<1>4. CASE EndsWell
  BY <1>2, <1>4, Verdict DEF RunInv, EndsWell
<1>5. CASE IsSkipped
  BY <1>2, <1>5, Verdict DEF RunInv, IsSkipped
<1> QED BY <1>1, <1>3, <1>4, <1>5 DEF StepKinds, MovesOn, Begins, Stays

LEMMA RecordsAlarm ==
  ASSUME RunInv, NEW v \in Verdicts, Recorded(v), Same, v \in Alarms
  PROVE  Alarmed'
<1>1. at \in DOMAIN results' /\ results'[at] = v
  <2>1. results'[at] = v /\ Len(results') = Len(results) + 1 /\ RunType'
    BY RecordedType DEF RunInv
  <2> QED BY <2>1, LenProperties DEF RunInv, RunType
<1> QED BY <1>1 DEF Alarmed

\* What was noted is still to be told after a step that tells nothing.
LEMMA StillTells ==
  ASSUME RunInv, MovesOn, "unreachable" \in kept, Tells(Body, step)
  PROVE  Tells(Body, step + 1)
<1>1. step \in Nat /\ step \in 1 .. Len(Body) /\ Len(Body) \in Nat
  BY HaveDiscipline DEF RunInv, RunType, MovesOn, InBody, InCheck, Justified, Body, Current
<1>2. PICK m \in step .. Len(Body) :
        /\ Body[m].does = "declares" /\ Body[m].given \subseteq {"unreachable"} /\ Body[m].unless = {}
        /\ \A k \in step .. m : Ends(Body[k]) \subseteq Alarms
  BY DEF Tells
<1>3. m # step
  <2>1. SUFFICES ASSUME m = step PROVE FALSE
    OBVIOUS
  <2>2. ~PassedOver(Doing) /\ Doing.does = "declares"
    BY <1>2, <2>1 DEF PassedOver, Doing, Have
  <2> QED BY <2>2 DEF MovesOn, Passes, Does
<1>4. m \in step + 1 .. Len(Body) /\ \A k \in step + 1 .. m : k \in step .. m
  BY <1>1, <1>2, <1>3
<1> QED BY <1>2, <1>4 DEF Tells

\* A fired signal has the next check say so, if the one that runs does not.
LEMMA WarnedStep ==
  ASSUME RunInv, StepKinds, Warned
  PROVE  Alarmed' \/ Warned'
<1>1. at \in Nat /\ step \in Nat /\ Len(Checks) \in Nat
  BY HaveDiscipline DEF RunInv, RunType, Ordered
<1>2. ASSUME Same PROVE aborted' /\ Checks' = Checks
  BY <1>2, SameChecks DEF Same, Warned
<1>3. CASE MovesOn
  <2>1. at < Len(Checks) /\ at' = at /\ Same
    BY <1>3 DEF MovesOn, InBody, InCheck, Warned
  <2> QED BY <1>1, <1>2, <2>1 DEF Warned, Running
<1>4. CASE EndsBadly \/ EndsWell
  <2>1. at < Len(Checks) /\ at' = at + 1 /\ step' = 0 /\ Same
    BY <1>4 DEF EndsBadly, EndsAt, EndsWell, InBody, InCheck, Warned, Recorded
  <2> QED BY <1>1, <1>2, <2>1 DEF Warned, Running
<1>5. CASE IsSkipped
  <2>1. Recorded("inconclusive") /\ Same
    BY <1>5 DEF IsSkipped, Warned
  <2> QED BY <2>1, RecordsAlarm DEF Verdicts, Alarms
<1>6. CASE Begins
  BY <1>6 DEF Begins, Warned
<1>7. CASE Stays
  <2>1. at' = at /\ step' = step /\ Same
    BY <1>7 DEF Stays
  <2> QED BY <1>1, <1>2, <2>1 DEF Warned, Running
<1> QED BY <1>3, <1>4, <1>5, <1>6, <1>7 DEF StepKinds

\* Its check answers for whatever a request met and matters.
LEMMA MattersIsAnswered ==
  ASSUME RunInv, InBody, Doing.does \in {"asks", "walks"}, NEW v, Matters(Doing, v)
  PROVE  Answers(Checks, There, at, step, v) \/ (v = "next" /\ aborted /\ at < Len(Checks))
<1>1. Doing = Checks[at].body[step] /\ Accountable(Checks, There, at, step)
  BY HaveDiscipline DEF RunInv, Doing, Body, Current
<1> QED BY <1>1 DEF Accountable, Matters

\* What a request met is answered for by its check, or by the next one.
LEMMA ExcusedIsTold ==
  ASSUME RunInv, MovesOn, Does, Excused(Doing)
  PROVE  Alarmed \/ Noted' \/ Warned
<1>1. InBody /\ Doing = Checks[at].body[step] /\ Body = Checks[at].body /\ Doing.does \in {"asks", "walks"}
  BY DEF MovesOn, Doing, Body, Current, Excused
<1>2. ASSUME NEW v, Matters(Doing, v)
      PROVE  Answers(Checks, There, at, step, v) \/ (v = "next" /\ Warned)
  BY <1>1, <1>2, MattersIsAnswered DEF Warned, InBody, InCheck
<1>3. CASE Matters(Doing, "next") /\ ~Warned
  <2>1. Answers(Checks, There, at, step, "next")
    BY <1>2, <1>3
  <2>2. \E x \in Doing.unless : Elsewhere(Checks, There, at, x)
    BY <1>1, <2>1 DEF Answers, Alarms
  <2>3. \A x \in Doing.unless : x \notin kept
    BY DEF Does, PassedOver, Have
  <2> QED BY <1>1, <2>2, <2>3, MissingIsAlarmed DEF InBody, InCheck
<1>5. CASE Matters(Doing, "contained")
  <2>1. Answers(Checks, There, at, step, "contained")
    BY <1>2, <1>5
  <2> QED BY <2>1 DEF Answers, Alarms
<1>4. CASE Matters(Doing, "note") /\ kept' = kept \cup {"unreachable"}
  <2>0. Answers(Checks, There, at, step, "note")
    BY <1>2, <1>4
  <2>1. Tells(Body, step + 1)
    BY <1>1, <2>0 DEF Answers, Alarms
  <2>2. Body' = Body /\ Running' = Running /\ step' = step + 1
    BY SameCheck DEF MovesOn
  <2>3. InCheck'
    BY <1>1, <2>2 DEF InBody, InCheck, RunInv, RunType
  <2>4. Tells(Body, step)'
    BY <2>1, <2>2 DEF Tells
  <2> QED BY <1>4, <2>3, <2>4 DEF Noted
<1> QED BY <1>3, <1>4, <1>5 DEF Excused

LEMMA ToldStep == ASSUME RunInv, StepKinds PROVE ToldOrNoted'
<1>0. CASE Warned
  BY <1>0, WarnedStep DEF ToldOrNoted
<1> DEFINE Open == ~Alarmed /\ ~Warned
<1>1. CASE Alarmed
  BY <1>1, AlarmsStay DEF ToldOrNoted
<1>2. CASE Open /\ MovesOn /\ Held /\ cut \cup lost # {}
  <2>1. Noted
    BY <1>2 DEF RunInv, ToldOrNoted
  <2>2. Tells(Body, step + 1)
    BY <1>2, <2>1, StillTells DEF Noted
  <2>3. Body' = Body /\ Running' = Running /\ step' = step + 1
    BY <1>2, SameCheck DEF MovesOn
  <2>4. InCheck'
    BY <2>1, <2>3 DEF Noted, InCheck, RunInv, RunType
  <2>5. Tells(Body, step)'
    BY <2>2, <2>3 DEF Tells
  <2> QED BY <1>2, <2>1, <2>4, <2>5 DEF Noted, Held, ToldOrNoted
<1>3. CASE Open /\ MovesOn /\ Does
  <2>1. CASE Excused(Doing)
    BY <1>3, <2>1, ExcusedIsTold DEF ToldOrNoted
  <2>2. CASE UNCHANGED <<cut, lost>> /\ cut \cup lost # {}
    <3>1. Noted
      BY <1>3, <2>2 DEF RunInv, ToldOrNoted
    <3>2. Tells(Body, step + 1)
      BY <1>3, <3>1, StillTells DEF Noted
    <3>3. Body' = Body /\ Running' = Running /\ step' = step + 1
      BY <1>3, SameCheck DEF MovesOn
    <3>4. InCheck'
      BY <3>1, <3>3 DEF Noted, InCheck, RunInv, RunType
    <3>5. Tells(Body, step)'
      BY <3>2, <3>3 DEF Tells
    <3>6. "unreachable" \in kept'
      BY <1>3, <3>1, KeptGrows DEF Noted, StepKinds
    <3> QED BY <3>4, <3>5, <3>6 DEF Noted, ToldOrNoted
  <2>3. CASE UNCHANGED <<cut, lost>> /\ cut \cup lost = {}
    BY <2>3 DEF ToldOrNoted
  <2> QED BY <1>3, <2>1, <2>2, <2>3 DEF Does
<1>4. CASE Open /\ EndsBadly
  <2>1. PICK v \in Ends(Doing) : EndsAt(v)
    BY <1>4 DEF EndsBadly
  <2>2. v \in Verdicts /\ Recorded(v) /\ Same
    BY <2>1, Verdict DEF RunInv
  <2>3. CASE UNCHANGED <<cut, lost>> /\ cut \cup lost # {}
    <3>1. Noted
      BY <1>4, <2>3 DEF RunInv, ToldOrNoted
    <3>2. step \in Nat /\ step \in 1 .. Len(Body) /\ Len(Body) \in Nat
      BY <2>1, HaveDiscipline DEF RunInv, RunType, EndsAt, InBody, InCheck, Justified, Body, Current
    <3>3. Ends(Doing) \subseteq Alarms
      BY <3>1, <3>2 DEF Noted, Tells, Doing
    <3> QED BY <2>1, <2>2, <3>3, RecordsAlarm DEF ToldOrNoted
  <2>4. CASE UNCHANGED <<cut, lost>> /\ cut \cup lost = {}
    BY <2>4 DEF ToldOrNoted
  <2>5. CASE Doing.does \in {"asks", "walks"} /\ Matters(Doing, v) /\ v \notin GoingOn
    <3>1. Answers(Checks, There, at, step, v)
      BY <2>1, <2>5, MattersIsAnswered DEF EndsAt, GoingOn
    <3>2. v \in Alarms
      BY <2>5, <3>1 DEF Answers, GoingOn
    <3> QED BY <2>2, <3>2, RecordsAlarm DEF ToldOrNoted
  <2> QED BY <2>1, <2>3, <2>4, <2>5 DEF EndsAt
<1>5. CASE Open /\ (EndsWell \/ IsSkipped \/ Begins)
  <2>1. ~Noted
    <3>1. CASE EndsWell
      <4>1. Len(Body) \in Nat
        BY <3>1, HaveDiscipline DEF EndsWell, InCheck, RunInv, Justified, Body, Current
      <4> QED BY <3>1, <4>1 DEF EndsWell, Noted, Tells, RunInv, RunType
    <3>2. CASE IsSkipped \/ Begins
      BY <3>2 DEF IsSkipped, Begins, Noted, InCheck
    <3> QED BY <1>5, <3>1, <3>2
  <2>2. cut \cup lost = {} /\ Held
    BY <1>5, <2>1 DEF RunInv, ToldOrNoted, EndsWell, IsSkipped, Begins
  <2> QED BY <2>2 DEF Held, ToldOrNoted
<1>6. CASE Open /\ Stays
  <2>1. Body' = Body /\ Running' = Running /\ step' = step
    BY <1>6, SameCheck DEF Stays
  <2> QED BY <1>6, <2>1 DEF RunInv, Stays, Held, ToldOrNoted, Alarmed, Noted, InCheck, Tells
<1>7. CASE Open /\ MovesOn /\ Held /\ cut \cup lost = {}
  BY <1>7 DEF Held, ToldOrNoted
<1> QED BY <1>0, <1>1, <1>2, <1>3, <1>4, <1>5, <1>6, <1>7 DEF StepKinds, MovesOn, Passes

LEMMA RunInvInit == Init => RunInv
BY TypeInit
DEF Init, RunInv, NeverAlone, Together, CertainIsKept, EnsuredIsKept, NeverSkipped, ToldOrNoted, InCheck

LEMMA RunInvStep == RunInv /\ [Next]_vars => RunInv'
<1>1. SUFFICES ASSUME RunInv, StepKinds PROVE RunInv'
  BY KindsOfSteps
<1>2. RunType'
  BY <1>1, TypeStep DEF RunInv
<1> QED
  BY <1>1, <1>2, AloneStep, CertainStep, EnsuredStep, SkippedStep, ToldStep DEF RunInv

\* In every run of the suites, whatever documents are kept for certain are kept
\* (Certain is read off the checks alone), and what cut a check short or failed
\* it a request has a verdict that says so, or will have (runner.ts runCheck).
THEOREM RunInvariant == Spec => []RunInv
BY RunInvInit, RunInvStep, PTL DEF Spec

\* No check reads a document that no check before it captured: the prerequisites
\* and the order of the checks are enough, whatever the deployment answers,
\* whenever a budget ends, and whenever the caller aborts (checks.ts required).
THEOREM NoRunnerBugAlways == Spec => []NoRunnerBug
<1>1. RunInv => NoRunnerBug
  <2> SUFFICES ASSUME RunInv, At("uses") PROVE Doing.of \in kept
    BY DEF NoRunnerBug
  <2>1. InBody /\ Doing.does = "uses"
    BY DEF At, InBody
  <2>2. Doing.of \in There[at][step]
    BY <2>1, HaveDiscipline DEF RunInv, UsesCertain
  <2> QED BY <2>1, <2>2 DEF RunInv, CertainIsKept, InBody
<1> QED BY <1>1, RunInvariant, PTL

\* A run that exits with 0 under failOnWarning was finished: no stop and no abort
\* cut a check of it short, and no request of it failed but one whose failure a
\* traversal contained below its root (report.ts exitCodeFor).
THEOREM CleanExitMeansFinishedAlways == Spec => []CleanExitMeansFinished
<1>1. RunInv => CleanExitMeansFinished
  <2> SUFFICES ASSUME RunInv, Over, ExitCode(TRUE) = 0 PROVE cut = {} /\ lost = {}
    BY DEF CleanExitMeansFinished
  <2>1. Status(TRUE) # "failed" /\ Status(TRUE) # "inconclusive"
    <3>1. 3 # 0 /\ 2 # 0 /\ 1 # 0 /\ 4 # 0
      OBVIOUS
    <3> QED BY <3>1, Zenon DEF ExitCode
  <2>2. Results("failed") = {} /\ Results("warning") = {} /\ Results("inconclusive") = {}
    BY <2>1 DEF Status
  <2>3. ~Alarmed
    BY <2>2 DEF Results, Alarmed, Alarms
  <2>4. ~Noted /\ ~Warned
    BY DEF Over, Noted, Warned, InCheck
  <2> QED BY <2>3, <2>4 DEF RunInv, ToldOrNoted
<1> QED BY <1>1, RunInvariant, PTL
=============================================================================
