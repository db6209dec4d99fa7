---------------------------- MODULE ResolveOnce ----------------------------
(***************************************************************************)
(* What the shared resolution layer promises its callers, with no fetch,   *)
(* no waiter count and no cancellation in sight: a key settles at most     *)
(* once, with an outcome or with a budget stop, and everyone who asks for  *)
(* it is told exactly that, unless he gives up himself.                    *)
(***************************************************************************)
CONSTANTS Keys, Callers, Outcome, None, Stop(_)

VARIABLES
  settled,  \* the outcome a key settled with
  spent,    \* keys that settled with a budget stop
  gone,     \* callers that cancelled
  target,   \* the key a caller asked for
  told      \* what a caller was told

vars == <<settled, spent, gone, target, told>>

Init ==
  /\ settled = [k \in Keys |-> None]
  /\ spent = {} /\ gone = {}
  /\ target = [c \in Callers |-> None]
  /\ told = [c \in Callers |-> None]

Open(k) == settled[k] = None /\ k \notin spent

Settle(k) ==
  /\ Open(k)
  /\ \/ \E o \in Outcome : settled' = [settled EXCEPT ![k] = o] /\ UNCHANGED spent
     \/ spent' = spent \cup {k} /\ UNCHANGED settled
  /\ UNCHANGED <<gone, target, told>>

\* All that a caller of k may hear.
Truth(c, k) ==
  (IF settled[k] # None THEN {settled[k]} ELSE {})
    \cup (IF k \in spent THEN {Stop("budget")} ELSE {})
    \cup (IF c \in gone THEN {Stop("aborted")} ELSE {})

Ask(c, k) ==
  /\ target[c] = None
  /\ target' = [target EXCEPT ![c] = k]
  /\ \E a \in Truth(c, k) \cup {None} : told' = [told EXCEPT ![c] = a]
  /\ UNCHANGED <<settled, spent, gone>>

Tell(c) ==
  /\ target[c] # None /\ told[c] = None
  /\ \E a \in Truth(c, target[c]) : told' = [told EXCEPT ![c] = a]
  /\ UNCHANGED <<settled, spent, gone, target>>

Cancel(c) ==
  /\ c \notin gone
  /\ gone' = gone \cup {c}
  /\ told' \in {told, [told EXCEPT ![c] = IF target[c] # None /\ told[c] = None
                                          THEN Stop("aborted") ELSE @]}
  /\ UNCHANGED <<settled, spent, target>>

Next ==
  \/ \E k \in Keys : Settle(k)
  \/ \E c \in Callers : Tell(c) \/ Cancel(c) \/ \E k \in Keys : Ask(c, k)

Spec == Init /\ [][Next]_vars
=============================================================================
