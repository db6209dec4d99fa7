----------------------------- MODULE DiscoverAll -----------------------------
(***************************************************************************)
(* The discovery walk of both clients: manifest, sitemap index, every page *)
(* of every sitemap, every entity.  iterateSitemap is the source of the    *)
(* ordered map whose calls fetch and verify entities, and one budget pays  *)
(* for all of it.  Version 0.1 is the walk with a window of one and no     *)
(* limit on sitemaps.  A publisher may serve anything.                     *)
(***************************************************************************)
EXTENDS Integers, Sequences, SequencesExt, FiniteSets

CONSTANTS
  Publishers,    \* what the publisher serves
  Limits,        \* [pages, entities, requests, sitemaps]
  Concurrencies, \* sizes of the window of calls
  None

ASSUME DiscoverAssumption ==
  /\ Concurrencies \subseteq Nat \ {0}
  /\ \A l \in Limits : {l.pages, l.entities, l.requests, l.sitemaps} \subseteq Nat

\* fetchAndValidateDocument looks for the faults of a document in this order.
FaultOrder == <<"status", "version", "schema", "checksum", "semantics">>

\* Every cursor a page can name is one a page is served for, if only one with
\* a fault, and none of them is the start, which has no cursor.
ServesPages(ref) ==
  /\ "first" \in DOMAIN ref.pages /\ None \notin DOMAIN ref.pages /\ IsFiniteSet(DOMAIN ref.pages)
  /\ \A c \in DOMAIN ref.pages :
       LET list == ref.pages[c].items
       IN  /\ ref.pages[c].next \in (DOMAIN ref.pages \ {"first"}) \cup {None}
           /\ list \in Seq(ToSet(list)) /\ None \notin ToSet(list)
           /\ \A i \in DOMAIN list : list[i].served.faults \subseteq ToSet(FaultOrder)

ASSUME PublishersAssumption ==
  \A p \in Publishers :
    /\ p.sitemaps \in Seq(ToSet(p.sitemaps))
    /\ \A s \in DOMAIN p.sitemaps : ServesPages(p.sitemaps[s])

VARIABLES
  publisher, limits, concurrency, version,
  at,        \* where the walk is
  sitemap,   \* number of the sitemap being walked
  cursor,    \* cursor of the page asked for last
  seen,      \* seenCursors
  items,     \* items of the page that are not pulled
  pageSent,  \* the page request went out
  calls,     \* mapper calls in yield order: [item, state]
  held,      \* a settled result that is not yielded yet
  sawError, inputDone,
  pagesFetched, entitiesYielded, requestsMade,
  late,      \* the deadline has passed
  delivered, \* what the consumer got
  failure    \* why the walk threw

walkVars   == <<at, sitemap, cursor, seen, items, pageSent>>
callVars   == <<calls, held, sawError, inputDone>>
budgetVars == <<pagesFetched, entitiesYielded, requestsMade>>
input      == <<publisher, limits, concurrency, version>>
vars == <<input, walkVars, callVars, budgetVars, late, delivered, failure>>

Init ==
  /\ publisher \in Publishers /\ limits \in Limits /\ concurrency \in Concurrencies
  /\ version \in {"0.1", "1.0"} /\ (version = "0.1" => concurrency = 1)
  /\ at = "manifest" /\ sitemap = 0 /\ cursor = None /\ seen = {} /\ items = <<>> /\ pageSent = FALSE
  /\ calls = <<>> /\ held = None /\ sawError = FALSE /\ inputDone = FALSE
  /\ pagesFetched = 0 /\ entitiesYielded = 0 /\ requestsMade = 0
  /\ late = FALSE /\ delivered = <<>> /\ failure = None

-----------------------------------------------------------------------------
(* Documents and the budget.                                               *)

Accepted(doc) == \A i \in DOMAIN FaultOrder : FaultOrder[i] \notin doc.faults
Rejection(doc) ==
  FaultOrder[CHOOSE i \in DOMAIN FaultOrder : /\ FaultOrder[i] \in doc.faults
                                             /\ \A j \in 1 .. i - 1 : FaultOrder[j] \notin doc.faults]

\* Every request is charged before it is sent.
Refused == late \/ requestsMade + 1 > limits.requests
Request == requestsMade' = requestsMade + 1

\* A request in flight is cut off by the deadline.
Answers(verdict) == {verdict} \cup IF late THEN {"budget"} ELSE {}

Throws(why) == at' = "failed" /\ failure' = why

DeadlinePasses ==
  /\ ~late /\ late' = TRUE
  /\ UNCHANGED <<input, walkVars, callVars, budgetVars, delivered, failure>>

-----------------------------------------------------------------------------
(* Manifest and sitemap index.                                             *)

\* A document at the head of the walk: refused, rejected or read.
ReadHead(doc, next) ==
  /\ Request
  /\ IF Refused THEN Throws("budget")
     ELSE IF ~Accepted(doc) THEN Throws(Rejection(doc))
     ELSE at' = next /\ UNCHANGED failure
  /\ UNCHANGED <<input, sitemap, cursor, seen, items, pageSent, callVars, pagesFetched,
                 entitiesYielded, late, delivered>>

\* Only version 1.0 checks the semantics of a manifest.
ReadManifest ==
  /\ at = "manifest"
  /\ ReadHead([faults |-> publisher.manifest.faults \ (IF version = "0.1" THEN {"semantics"} ELSE {})], "index")

ReadIndex == at = "index" /\ ReadHead(publisher.index, "sitemaps")

TooManySitemaps == version = "1.0" /\ Len(publisher.sitemaps) > limits.sitemaps

RefuseIndex ==
  /\ at = "sitemaps" /\ sitemap = 0 /\ TooManySitemaps
  /\ Throws("budget")
  /\ UNCHANGED <<input, sitemap, cursor, seen, items, pageSent, callVars, budgetVars, late, delivered>>

\* The next sitemap gets an iterator and a map of its own.
NextSitemap ==
  /\ at = "sitemaps" /\ (sitemap = 0 => ~TooManySitemaps) /\ sitemap < Len(publisher.sitemaps)
  /\ sitemap' = sitemap + 1 /\ at' = "pull"
  /\ cursor' = None /\ seen' = {} /\ items' = <<>> /\ pageSent' = FALSE
  /\ calls' = <<>> /\ held' = None /\ sawError' = FALSE /\ inputDone' = FALSE
  /\ UNCHANGED <<input, budgetVars, late, delivered, failure>>

Finish ==
  /\ at = "sitemaps" /\ (sitemap = 0 => ~TooManySitemaps) /\ sitemap = Len(publisher.sitemaps)
  /\ at' = "done"
  /\ UNCHANGED <<input, sitemap, cursor, seen, items, pageSent, callVars, budgetVars, late, delivered, failure>>

-----------------------------------------------------------------------------
(* iterateSitemap.                                                         *)

Ref  == publisher.sitemaps[sitemap]
Page == Ref.pages[cursor]

\* A pull goes on until it has an item; it starts only into a window with room.
Pulling == at = "item" \/ (at = "pull" /\ ~sawError /\ ~inputDone /\ Len(calls) < concurrency)

CursorRepeats(next) == next \in seen

OutOfPages == pagesFetched + 1 > limits.pages

\* The page at hand is used up: its cursor is followed, unless there is none,
\* it was followed before, or no further page may be asked for.
TurnPage ==
  /\ Pulling /\ items = <<>>
  /\ LET next == IF cursor = None THEN "first" ELSE Page.next
         refused == late \/ OutOfPages
     IN  /\ seen' = seen \cup ({next} \ {None, "first"})
         /\ inputDone' = (next = None)
         /\ pagesFetched' = pagesFetched + (IF next = None \/ CursorRepeats(next) \/ late THEN 0 ELSE 1)
         /\ IF next = None THEN at' = "pull" /\ UNCHANGED <<cursor, failure>>
            ELSE IF CursorRepeats(next) THEN Throws("cycle") /\ UNCHANGED cursor
            ELSE IF refused THEN Throws("budget") /\ UNCHANGED cursor
            ELSE at' = "page" /\ cursor' = next /\ UNCHANGED failure
  /\ pageSent' = FALSE
  /\ UNCHANGED <<input, sitemap, items, calls, held, sawError, entitiesYielded, requestsMade, late, delivered>>

SendPage ==
  /\ at = "page" /\ ~pageSent
  /\ Request
  /\ IF Refused THEN Throws("budget") /\ UNCHANGED pageSent
     ELSE pageSent' = TRUE /\ UNCHANGED <<at, failure>>
  /\ UNCHANGED <<input, sitemap, cursor, seen, items, callVars, pagesFetched, entitiesYielded, late, delivered>>

\* The page is what its index entry says it is, or it is not read.
PageVerdict ==
  IF ~Accepted(Page) THEN Rejection(Page) ELSE IF Page.type # Ref.type THEN "integrity" ELSE "ok"

PageArrives ==
  /\ at = "page" /\ pageSent
  /\ \E verdict \in Answers(PageVerdict) :
       IF verdict = "ok" THEN at' = "item" /\ items' = Page.items /\ UNCHANGED failure
                         ELSE Throws(verdict) /\ UNCHANGED items
  /\ UNCHANGED <<input, sitemap, cursor, seen, pageSent, callVars, budgetVars, late, delivered>>

-----------------------------------------------------------------------------
(* mapConcurrent over it, with fetchAndVerify as its mapper.               *)

\* The item pulled is mapped, though a call may have failed since it was asked
\* for.  A call over the entity limit rejects at once.
StartCall ==
  /\ Pulling /\ items # <<>>
  /\ LET refused == late \/ entitiesYielded + 1 > limits.entities
     IN  /\ calls' = Append(calls, [item |-> Head(items), state |-> IF refused THEN "budget" ELSE "new"])
         /\ sawError' = (sawError \/ refused)
  /\ entitiesYielded' = entitiesYielded + (IF late THEN 0 ELSE 1)
  /\ items' = Tail(items) /\ at' = "pull"
  /\ UNCHANGED <<input, sitemap, cursor, seen, pageSent, held, inputDone, pagesFetched, requestsMade,
                 late, delivered, failure>>

SendCall(i) ==
  /\ i \in DOMAIN calls /\ calls[i].state = "new"
  /\ Request
  /\ calls' = [calls EXCEPT ![i].state = IF Refused THEN "budget" ELSE "sent"]
  /\ sawError' = (sawError \/ Refused)
  /\ UNCHANGED <<input, walkVars, held, inputDone, pagesFetched, entitiesYielded, late, delivered, failure>>

\* Mutant: the checksum of an entity is not held against its listing.
Verified_AnyChecksum(item) ==
  item.served.id = item.id /\ item.served.type = Ref.type
\* The entity agrees with its item and with the namespace of its sitemap.
Verified(item) ==
  item.served.id = item.id /\ item.served.type = Ref.type /\ item.served.checksum = item.checksum

Verdict(item) ==
  IF ~Accepted(item.served) THEN Rejection(item.served)
  ELSE IF Verified(item) THEN "ok" ELSE "integrity"

CallSettles(i) ==
  /\ i \in DOMAIN calls /\ calls[i].state = "sent"
  /\ \E verdict \in Answers(Verdict(calls[i].item)) :
       /\ calls' = [calls EXCEPT ![i].state = verdict]
       /\ sawError' = (sawError \/ verdict # "ok")
  /\ UNCHANGED <<input, walkVars, held, inputDone, budgetVars, late, delivered, failure>>

\* Mutant: a window that never fills up is waited for.
WindowFilled_Full == at = "pull" /\ Len(calls) = concurrency
\* The window is full, or the source is dry, or a call failed.
WindowFilled == at = "pull" /\ (Len(calls) = concurrency \/ inputDone \/ sawError)

Pending(call) == call.state \in {"new", "sent"}

\* Mutant: the call that settles first is taken, wherever it stands.
Turn_Fastest == CHOOSE i \in DOMAIN calls : ~Pending(calls[i]) \/ \A j \in DOMAIN calls : Pending(calls[j])
\* The call whose result is yielded next.
Turn == 1

\* The call whose turn it is has settled.  The window is filled before its
\* value is yielded, unless it is a window of one.
TakeResult ==
  /\ WindowFilled /\ held = None /\ calls # <<>> /\ ~Pending(calls[Turn])
  /\ calls' = RemoveAt(calls, Turn)
  /\ IF calls[Turn].state = "ok"
     THEN /\ held' = calls[Turn].item
          /\ at' = IF concurrency = 1 THEN "yield" ELSE "pull"
          /\ UNCHANGED failure
     ELSE Throws(calls[Turn].state) /\ UNCHANGED held
  /\ UNCHANGED <<input, sitemap, cursor, seen, items, pageSent, sawError, inputDone, budgetVars, late, delivered>>

Yield ==
  /\ held # None /\ (at = "yield" \/ WindowFilled)
  /\ delivered' = Append(delivered, held) /\ held' = None /\ at' = "pull"
  /\ UNCHANGED <<input, sitemap, cursor, seen, items, pageSent, calls, sawError, inputDone, budgetVars, late, failure>>

\* The map ends when no call is in flight and none can be started.
SitemapEnds ==
  /\ at = "pull" /\ inputDone /\ calls = <<>> /\ held = None
  /\ at' = "sitemaps"
  /\ UNCHANGED <<input, sitemap, cursor, seen, items, pageSent, callVars, budgetVars, late, delivered, failure>>

-----------------------------------------------------------------------------

Walk == ReadManifest \/ ReadIndex \/ RefuseIndex \/ NextSitemap \/ Finish \/ TurnPage \/ SendPage
          \/ PageArrives \/ StartCall \/ TakeResult \/ Yield \/ SitemapEnds

Calls == \E i \in DOMAIN calls : SendCall(i) \/ CallSettles(i)

Next == Walk \/ Calls \/ DeadlinePasses

Spec == Init /\ [][Next]_vars

\* The consumer asks on, and every request ends by its timeout.
FairSpec == Spec /\ WF_vars(Walk) /\ WF_vars(Calls)

-----------------------------------------------------------------------------
(* Properties.                                                             *)

TypeOK ==
  /\ at \in {"manifest", "index", "sitemaps", "pull", "item", "page", "yield", "done", "failed"}
  /\ sitemap \in 0 .. Len(publisher.sitemaps)
  /\ Len(calls) <= concurrency
  /\ pagesFetched \in 0 .. limits.pages + 1
  /\ entitiesYielded \in 0 .. limits.entities + concurrency
  /\ Len(delivered) <= limits.entities
  /\ (at = "failed") = (failure # None)

\* The cursors of a sitemap in the order in which they lead to one another, as
\* far as its pages can be read and no cursor comes again.
Readable(ref, c) == Accepted(ref.pages[c]) /\ ref.pages[c].type = ref.type
Onward(ref, trail) ==
  LET next == ref.pages[Last(trail)].next
  IN  IF next = None \/ Contains(trail, next) \/ ~Readable(ref, Last(trail)) THEN trail ELSE Append(trail, next)
Chain(ref) ==
  LET chain[n \in 1 .. Cardinality(DOMAIN ref.pages)] ==
        IF n = 1 THEN <<"first">> ELSE Onward(ref, chain[n - 1])
  IN  chain[Cardinality(DOMAIN ref.pages)]

Listed(ref) == FlattenSeq([n \in DOMAIN Chain(ref) |-> ref.pages[Chain(ref)[n]].items])
Listing == FlattenSeq([s \in DOMAIN publisher.sitemaps |-> Listed(publisher.sitemaps[s])])

Good(item, ref) ==
  /\ item.served.faults = {} /\ item.served.id = item.id
  /\ item.served.checksum = item.checksum /\ item.served.type = ref.type

\* However many calls are in flight and in whatever order they settle, what was
\* delivered, what is held and what is in flight are the listing's items from
\* the first on.  So the failure of an entity surfaces at its own place, after
\* everything that comes before it.
InListedOrder ==
  LET story == delivered \o (IF held = None THEN <<>> ELSE <<held>>)
                 \o (IF at = "failed" THEN <<>> ELSE [i \in DOMAIN calls |-> calls[i].item])
  IN  IsPrefix(story, Listing)

\* A walk that ends without an error delivered all there is: every page of
\* every sitemap was there, of the right type, with no loop among the cursors,
\* and every entity is what its listing says.
CompleteMeansAll ==
  at = "done" =>
    /\ delivered = Listing
    /\ \A s \in DOMAIN publisher.sitemaps :
         LET ref == publisher.sitemaps[s]
         IN  /\ \A n \in DOMAIN Chain(ref) : Readable(ref, Chain(ref)[n])
             /\ ref.pages[Last(Chain(ref))].next = None
             /\ \A i \in DOMAIN Listed(ref) : Good(Listed(ref)[i], ref)

\* Whatever cursors a publisher hands out, the walk ends.
WalkEnds == <>(at \in {"done", "failed"})
=============================================================================
