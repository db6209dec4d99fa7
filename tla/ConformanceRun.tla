--------------------------- MODULE ConformanceRun ---------------------------
(***************************************************************************)
(* The conformance runner: the checks of a suite one after the other       *)
(* against a deployment that may answer anything, with one budget for the  *)
(* run and a signal the caller may fire at any time.  The five suites      *)
(* share this loop and differ in their checks and in the options they      *)
(* accept.                                                                 *)
(***************************************************************************)
EXTENDS CoreChecks, ModuleChecks, GraphChecks, RunOptions, Integers, FiniteSets

CONSTANTS
  Suites,      \* which suites are run
  OptionSets,  \* which options the caller supplies
  MaxPages, MaxEntities,
  MaxTrouble   \* bound: what a run meets besides good answers

ASSUME RunAssumption == {MaxPages, MaxEntities, MaxTrouble} \subseteq Nat

VARIABLES
  suite, opts,
  at,        \* the check that is next or running
  step,      \* its step, 0 before it is begun
  kept,      \* RunState: the documents captured so far
  results,   \* a verdict per check, in order
  charged,   \* requests charged per budget dimension
  spent,     \* the deadline or the bytes of the run are used up
  aborted,   \* options.signal
  pages,     \* pages the walk of the running check has turned, up to MaxPages
  inHand,    \* it has a page and has not turned it
  sent,      \* history: requests that went out per budget dimension
  cut,       \* history: checks a stop or an abort cut short
  lost,      \* history: checks a request failed
  contained, \* history: checks in which a traversal contained such a failure
  trouble

vars == <<suite, opts, at, step, kept, results, charged, spent, aborted, pages, inHand, sent, cut, lost, contained,
          trouble>>

ChecksOf(s) ==
  CASE s = "core"     -> CHECKS
    [] s = "answer"   -> ANSWER_CHECKS
    [] s = "evidence" -> EVIDENCE_CHECKS
    [] s = "graph"    -> GRAPH_TRAVERSAL_CHECKS
    [] OTHER          -> Scheduled(s)
Checks == ChecksOf(suite)

Verdicts == {"passed", "failed", "warning", "skipped", "inconclusive"}
Budgets  == {"free", "own", "ownPages", "page", "entity"}
Own      == {"own", "ownPages"}  \* not the run's: a traversal's, a pagination walk's
Limit    == [page |-> MaxPages, entity |-> MaxEntities]

\* A walk with a budget of its own: the module suites sample few pages, unless
\* the caller names a number.
WalkPages == IF "maxPages=0" \in opts THEN 0 ELSE MaxPages

Init ==
  /\ suite \in Suites /\ opts \in OptionSets /\ Usable(suite, opts)
  /\ at = 1 /\ step = 0 /\ kept = {} /\ results = <<>>
  /\ charged = [b \in Budgets |-> 0] /\ sent = charged
  /\ spent = FALSE /\ aborted = FALSE /\ pages = 0 /\ inHand = FALSE
  /\ cut = {} /\ lost = {} /\ contained = {} /\ trouble = 0

Running == at <= Len(Checks)
Current == Checks[at]
Body    == Current.body
Doing   == Body[step]

(**************************** the loop *************************************)
\* record: an inconclusive verdict is a skip with a mark.
Record(v) ==
  /\ results' = Append(results, v)
  /\ at' = at + 1 /\ step' = 0 /\ pages' = 0 /\ inHand' = FALSE

Untouched == UNCHANGED <<suite, opts, kept, charged, spent, aborted, sent, cut, lost, contained, trouble>>

StatusOf(id) == results[CHOOSE i \in DOMAIN results : Checks[i].id = id]

\* Mutant: a check that was skipped counts as passed for those that require it.
Blocking_OnlyFailed == \E id \in Current.requires : StatusOf(id) = "failed"
\* A prerequisite with a warning is still a pass.
Blocking == \E id \in Current.requires : StatusOf(id) \in {"failed", "skipped", "inconclusive"}

SkipAborted ==
  /\ Running /\ step = 0 /\ aborted
  /\ Record("inconclusive") /\ Untouched

SkipBlocked ==
  /\ Running /\ step = 0 /\ ~aborted /\ Blocking
  /\ Record("skipped") /\ Untouched

Begin ==
  /\ Running /\ step = 0 /\ ~aborted /\ ~Blocking
  /\ step' = 1
  /\ UNCHANGED <<at, results, pages, inHand>> /\ Untouched

(*************************** the running check ******************************)
InCheck == Running /\ step > 0

\* A body that comes to its end has passed.
Finish ==
  /\ InCheck /\ step > Len(Body)
  /\ Record("passed") /\ Untouched

Have == opts \cup kept
PassedOver(s) == s.unless \cap Have # {} \/ ~(s.given \subseteq Have)

At(kind) == InCheck /\ step <= Len(Body) /\ Doing.does = kind /\ ~PassedOver(Doing)
Onward   == step' = step + 1 /\ UNCHANGED <<at, results, pages, inHand>>

PassOver ==
  /\ InCheck /\ step <= Len(Body) /\ PassedOver(Doing)
  /\ Onward /\ Untouched

\* An option that was not supplied ends the check without a verdict.
Need ==
  /\ At("needs")
  /\ IF Doing.of \in opts THEN Onward ELSE Record("inconclusive")
  /\ Untouched

\* required(): a document nobody captured is a bug of the runner, thrown and
\* recorded as a failed check.
Use ==
  /\ At("uses")
  /\ IF Doing.of \in kept THEN Onward ELSE Record("failed")
  /\ Untouched

Keep ==
  /\ At("keeps")
  /\ kept' = kept \cup Doing.gets /\ Onward
  /\ UNCHANGED <<suite, opts, charged, spent, aborted, sent, cut, lost, contained, trouble>>

Declare ==
  /\ At("declares")
  /\ \E v \in Doing.may : Record(v)
  /\ Untouched

Troubled == trouble < MaxTrouble /\ trouble' = trouble + 1

\* What the documents show is left open.
Judge ==
  /\ At("judges")
  /\ \/ Onward /\ kept' = kept \cup Doing.gets /\ UNCHANGED trouble
     \/ \E v \in Doing.may :
          /\ Troubled /\ UNCHANGED kept
          /\ IF v = "next" THEN Onward ELSE Record(v)
  /\ UNCHANGED <<suite, opts, charged, spent, aborted, sent, cut, lost, contained>>

(***************************** requests *************************************)
\* Mutant: the counter is compared before it is counted.
Exceeded_Late(b) ==
  \/ b \in DOMAIN Limit /\ charged[b] > Limit[b]
  \/ b = "ownPages" /\ pages > WalkPages
\* chargeDiscoveryBudget counts and then compares.
Exceeded(b) ==
  \/ b \in DOMAIN Limit /\ charged[b] + 1 > Limit[b]
  \/ b = "ownPages" /\ pages + 1 > WalkPages

Charge(b) == charged' = [charged EXCEPT ![b] = IF b \in DOMAIN Limit THEN @ + 1 ELSE @]
Send(b)   == sent' = [sent EXCEPT ![b] = IF b \in DOMAIN Limit THEN @ + 1 ELSE @]

\* How an ended request ends its step: on, with a note, or with a verdict.
EndsWith(v) ==
  CASE v \in {"next", "contained"} -> Onward /\ UNCHANGED kept
    [] v = "note" -> Onward /\ kept' = kept \cup {"unreachable"}
    [] OTHER      -> Record(v) /\ UNCHANGED kept

\* Mutant: a stop skips the check and does not mark it.
OnStop_Unmarked(s) == IF s.stop = "inconclusive" THEN "skipped" ELSE s.stop
OnStop(s)  == s.stop
OnAbort(s) == s.abort

\* The run's own budget ends; a walk of its own may end by its own limits.
Stop(s) ==
  /\ \/ Exceeded(s.of) /\ UNCHANGED <<spent, trouble>>
     \/ spent /\ s.of \notin Own /\ UNCHANGED <<spent, trouble>>
     \/ ~(spent /\ s.of \notin Own) /\ Troubled /\ spent' = (spent \/ s.of \notin Own)
  /\ Charge(s.of) /\ EndsWith(OnStop(s))
  /\ cut' = IF s.of \in Own THEN cut ELSE cut \cup {at}
  /\ UNCHANGED <<suite, opts, aborted, sent, lost, contained>>

Cancelled(s) ==
  /\ aborted /\ ~Exceeded(s.of)
  /\ Charge(s.of) /\ EndsWith(OnAbort(s))
  /\ cut' = cut \cup {at}
  /\ UNCHANGED <<suite, opts, spent, aborted, sent, lost, contained, trouble>>

GoesOut(s) == ~aborted /\ ~(spent /\ s.of \notin Own) /\ ~Exceeded(s.of)

Fault(s) ==
  /\ GoesOut(s) /\ Troubled
  /\ Charge(s.of) /\ Send(s.of) /\ EndsWith(s.fault)
  /\ IF s.fault = "contained"
     THEN contained' = contained \cup {at} /\ UNCHANGED lost
     ELSE lost' = lost \cup {at} /\ UNCHANGED contained
  /\ UNCHANGED <<suite, opts, spent, aborted, cut>>

Ask ==
  /\ At("asks")
  /\ \/ Stop(Doing) \/ Cancelled(Doing) \/ Fault(Doing)
     \/ Doing.maybe /\ Onward /\ Untouched
     \/ /\ GoesOut(Doing)
        /\ Charge(Doing.of) /\ Send(Doing.of)
        /\ kept' = kept \cup Doing.gets /\ Onward
        /\ UNCHANGED <<suite, opts, spent, aborted, cut, lost, contained, trouble>>

\* The walk of a paged collection; the first page of the core suite is the one
\* its own check has captured.
Reusable == suite = "core" /\ pages = 0 /\ "firstSitemap" \in kept

NextPage ==
  /\ At("walks") /\ ~inHand
  /\ \/ ~Reusable /\ (Stop(Doing) \/ Cancelled(Doing) \/ Fault(Doing))
     \/ /\ Reusable \/ GoesOut(Doing)
        /\ IF Reusable THEN UNCHANGED <<charged, sent>> ELSE Charge(Doing.of) /\ Send(Doing.of)
        /\ inHand' = TRUE
        /\ UNCHANGED <<suite, opts, at, step, results, pages, kept, spent, aborted, cut, lost, contained, trouble>>

\* cursor.next is null, or one not seen before; or it was seen before, or the
\* page breaks the contract.
TurnPage ==
  /\ At("walks") /\ inHand
  /\ \/ /\ step' = step + 1 /\ pages' = 0 /\ inHand' = FALSE
        /\ UNCHANGED <<at, results, trouble>>
     \/ /\ inHand' = FALSE /\ pages' = IF pages < MaxPages THEN pages + 1 ELSE pages
        /\ UNCHANGED <<at, step, results, trouble>>
     \/ Troubled /\ Record("failed")
  /\ UNCHANGED <<suite, opts, kept, charged, spent, aborted, sent, cut, lost, contained>>

\* The caller fires its signal, between two steps or while one waits.
Abort ==
  /\ Running /\ ~aborted
  /\ Troubled /\ aborted' = TRUE
  /\ UNCHANGED <<suite, opts, at, step, kept, results, charged, spent, pages, inHand, sent, cut, lost, contained>>

Run == \/ SkipAborted \/ SkipBlocked \/ Begin \/ Finish \/ PassOver
       \/ Need \/ Use \/ Keep \/ Declare \/ Judge \/ Ask \/ NextPage \/ TurnPage

Next == Run \/ Abort

Spec     == Init /\ [][Next]_vars
FairSpec == Spec /\ WF_vars(Run)

(****************************** the report **********************************)
Results(v) == {i \in DOMAIN results : results[i] = v}

\* Only the core suite has a fatal outcome.
Fatal ==
  CASE suite = "core" /\ results[1] = "failed" -> "unreachable"
    [] suite = "core" /\ results[2] = "failed" -> "unsupported_version"
    [] OTHER -> "none"

Status(failOnWarning) ==
  IF Results("failed") # {} \/ Fatal # "none" \/ (failOnWarning /\ Results("warning") # {}) THEN "failed"
  ELSE IF Results("inconclusive") # {} THEN "inconclusive" ELSE "passed"

ExitCode(failOnWarning) ==
  IF Fatal = "unsupported_version" THEN 3
  ELSE IF Fatal = "unreachable" THEN 2
  ELSE IF Status(failOnWarning) = "failed" THEN 1
  ELSE IF Status(failOnWarning) = "inconclusive" THEN 4 ELSE 0

Over == ~Running

(***************************** properties ***********************************)
\* Types of the variables.
TypeOK ==
  /\ at \in 1 .. Len(Checks) + 1 /\ Len(results) = at - 1
  /\ step \in 0 .. (IF Running THEN Len(Body) + 1 ELSE 0)
  /\ \A i \in DOMAIN results : results[i] \in Verdicts
  /\ cut \cup lost \cup contained \subseteq 1 .. Len(Checks)

\* A run that CI lets through without a warning (exit code 0 under
\* failOnWarning) was finished: no stop and no abort cut a check of it short,
\* and no request of it failed, whatever the checks did about their errors, but
\* below the root of a traversal, which contains such failures.
CleanExitMeansFinished ==
  Over /\ ExitCode(TRUE) = 0 => cut = {} /\ lost = {}

\* No check reads a document that no check before it captured: required()
\* never throws its "runner bug", which would be recorded as a failed check.
\* It follows from nothing but the prerequisites and the order of the checks.
NoRunnerBug ==
  At("uses") => Doing.of \in kept

\* Sitemap pages and entities asked for by all the checks of a run together,
\* pagination, validators and negative targets included, stay within the
\* caller's maxPages and maxEntities.
RequestsWithinLimits ==
  \A b \in DOMAIN Limit : sent[b] <= Limit[b]

\* A run comes to its report, also against a deployment that always has one
\* more page.
RunEnds == <>Over

(* Promised, and not kept; see "Where the code and its words disagree".   *)
\* A check that a stop or an abort cut short blames nobody and certifies
\* nothing: it is recorded as skipped and inconclusive.
CutShortIsInconclusive ==
  \A i \in cut : i \in DOMAIN results => results[i] = "inconclusive"

\* "unauthorized", "forbidden": "failed or partial, depending on the edge
\* requirement".  A run exits with 0 although a target below the root of its
\* traversals answered nothing else.
ContainedIsTold ==
  Over /\ ExitCode(TRUE) = 0 => contained = {}
=============================================================================
