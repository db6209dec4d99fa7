------------------------ MODULE ConformanceSchedule ------------------------
(***************************************************************************)
(* What the order of a suite's checks and their prerequisites guarantee,   *)
(* read off the checks alone: which documents are kept for certain when a  *)
(* step is reached, and that whoever swallows an error answers for it.     *)
(* The five suites have this discipline (SchedulesAssumption, evaluated    *)
(* with the checks of every suite that is run); ConformanceRun_proofs      *)
(* shows what follows from it for every run.                               *)
(***************************************************************************)
EXTENDS ConformanceRun

\* RunState: what the checks of all suites keep.  No option has such a name.
Documents ==
  {"manifestRaw", "manifest", "index", "firstSitemap", "firstEntity", "moduleDeclaration", "sampleEntity",
   "relationSet", "collection", "registry", "claimEntity", "evidenceEntity"}

\* A relation set and a collection are kept only where their entity is.
Together == {<<"relationSet", "sampleEntity">>, <<"collection", "sampleEntity">>}

Through == {"passed", "warning"}
Alarms  == {"failed", "warning", "inconclusive"}

Among(kinds, s, V) == IF s.does \in kinds THEN V ELSE {}
Troubles(s) == {s.fault, s.stop, s.abort}

\* The verdicts with which a step may end its check.
Ends(s) ==
  Among({"needs"}, s, {"inconclusive"}) \cup Among({"uses", "walks"}, s, {"failed"})
    \cup Among({"declares"}, s, s.may) \cup Among({"judges"}, s, s.may \ {"next"})
    \cup Among({"asks", "walks"}, s, Troubles(s) \ GoingOn)

\* A step that keeps its documents, if it is not passed over and goes on.
Secures(s) ==
  \/ s.does = "keeps"
  \/ s.does = "judges" /\ "next" \notin s.may
  \/ s.does = "asks" /\ ~s.maybe /\ Troubles(s) \cap GoingOn = {}

\* Whoever has y has x.
Gives(y, x) == y \in Documents /\ (y = x \/ <<y, x>> \in Together)

\* What a step adds to the documents that are there for certain.
Adds(s, there) ==
  {x \in s.gets : Secures(s) /\ s.given \subseteq there /\ \A y \in s.unless : Gives(y, x)}

\* Where a check may end well: after its last step, or by a warning.
GoodEnds(body) == {n \in 1 .. Len(body) + 1 : n <= Len(body) => Ends(body[n]) \cap Through # {}}
Ensured(check, there) == {x \in Documents : \A n \in GoodEnds(check.body) : x \in there[n]}

\* The documents that are there for certain before each step of a body.
Within(body, first) ==
  LET upto[n \in 1 .. Len(body) + 1] ==
        IF n = 1 THEN first
        ELSE LET known == upto[n - 1] IN known \cup Adds(body[n - 1], known)
  IN  [n \in 1 .. Len(body) + 1 |-> upto[n]]

\* ... of each check, which may rely on those that it requires.
Certain(checks) ==
  LET certain[i \in DOMAIN checks] ==
        LET required == {j \in 1 .. i - 1 : checks[j].id \in checks[i].requires}
            first == UNION {Ensured(checks[j], certain[j]) : j \in required}
        IN  Within(checks[i].body, first)
  IN  [i \in DOMAIN checks |-> certain[i]]

-----------------------------------------------------------------------------
(* The discipline of a list of checks, and of what is certain in them.     *)

\* Checks have names of their own, and require what ran before.
Ordered(checks) ==
  /\ Len(checks) \in Nat /\ DOMAIN checks = 1 .. Len(checks)
  /\ \A i, j \in DOMAIN checks : checks[i].id = checks[j].id => i = j
  /\ \A i \in DOMAIN checks : \A id \in checks[i].requires : \E j \in 1 .. i - 1 : checks[j].id = id

WellMade(s) ==
  /\ s.gets \subseteq Documents
  /\ Ends(s) \subseteq Verdicts

\* What is certain is what a prerequisite ensures or an earlier step adds.
Justified(checks, there, i) ==
  LET body == checks[i].body IN
  /\ Len(body) \in Nat /\ DOMAIN body = 1 .. Len(body)
  /\ \A x \in there[i][1] : \E j \in 1 .. i - 1 :
       checks[j].id \in checks[i].requires /\ x \in Ensured(checks[j], there[j])
  /\ \A n \in DOMAIN body : there[i][n + 1] \subseteq there[i][n] \cup Adds(body[n], there[i][n])

\* A document that comes with another is kept only where that one is.
KeptTogether(s, there) ==
  \A pair \in Together : pair[1] \in s.gets => pair[2] \in s.given \cup there

\* A document is used only where it is certain.
UsesCertain(s, there) == s.does = "uses" => s.of \in there

\* From its n-th step on a check can only end badly, if it ends at all, and
\* says so in the end if anything was unreachable.
Tells(body, n) ==
  \E m \in n .. Len(body) :
    /\ body[m].does = "declares" /\ body[m].given \subseteq {"unreachable"} /\ body[m].unless = {}
    /\ \A k \in n .. m : Ends(body[k]) \subseteq Alarms

\* A check that requires nothing and never skips ensures x.
Elsewhere(checks, there, i, x) ==
  \E j \in 1 .. i - 1 :
    /\ x \in Ensured(checks[j], there[j]) /\ checks[j].requires = {}
    /\ \A n \in DOMAIN checks[j].body : "skipped" \notin Ends(checks[j].body[n])

\* What a request meets ends its check badly; or it is noted and told in the
\* end; or the step was to get what a check before this one must have missed.
\* Nobody answers for what a traversal contains and for the end of a budget of
\* its own; after an abort the next check does, if there is one.
Answers(checks, there, i, n, v) ==
  \/ v \in Alarms
  \/ v = "note" /\ Tells(checks[i].body, n + 1)
  \/ v = "next" /\ \E x \in checks[i].body[n].unless : Elsewhere(checks, there, i, x)

Accountable(checks, there, i, n) ==
  LET s == checks[i].body[n] IN
  s.does \in {"asks", "walks"} =>
    /\ s.fault = "contained" \/ Answers(checks, there, i, n, s.fault)
    /\ s.of \in Own \/ Answers(checks, there, i, n, s.stop)
    /\ Answers(checks, there, i, n, s.abort) \/ (s.abort = "next" /\ i < Len(checks))

Disciplined(checks, there) ==
  /\ Ordered(checks)
  /\ \A i \in DOMAIN checks :
       /\ Justified(checks, there, i)
       /\ \A n \in DOMAIN checks[i].body :
            /\ WellMade(checks[i].body[n])
            /\ KeptTogether(checks[i].body[n], there[i][n])
            /\ UsesCertain(checks[i].body[n], there[i][n])
            /\ Accountable(checks, there, i, n)

\* The suites that are run have the discipline, and options are not documents.
ASSUME SchedulesAssumption ==
  /\ \A s \in Suites : Disciplined(ChecksOf(s), Certain(ChecksOf(s)))
  /\ \A o \in OptionSets : o \cap (Documents \cup {"unreachable"}) = {}
=============================================================================
