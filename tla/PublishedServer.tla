--------------------------- MODULE PublishedServer ---------------------------
(***************************************************************************)
(* defineAADP().handleRequest() (server/runtime.ts, http.ts, cursor.ts),   *)
(* its readers and a shared cache in front of it.  The application's       *)
(* list(), get() and serialize() answer from a store that changes between  *)
(* requests, personalise what a protected type says, and may fail.         *)
(* A reader keeps its copies, revalidates them, and pages each sitemap,    *)
(* sometimes with a cursor that is not the one it was given for it.        *)
(***************************************************************************)
EXTENDS AadpRoutes

CONSTANTS Configs,      \* the raw route templates a deployment may configure
          Served,       \* the configurations whose traffic is explored
          Types,        \* the resource types, as text
          Ids,          \* every type's ids, in list() order
          SchemeOf,     \* the security scheme type each resource names, or None
          Principals, Records, PageSize, MaxAsked, MaxUpdates, None,
          Star           \* the "*" of an If-None-Match header

ASSUME BoundsAssumption == PageSize \in Nat \ {0} /\ MaxAsked \in Nat /\ MaxUpdates \in Nat
ASSUME ServedAssumption == Served \subseteq Configs
ASSUME ConfigsAssumption ==
  \A config \in Configs :
    config.index \in Seq(Segments) /\ config.sitemap \in Seq(Segments) /\ config.entity \in Seq(Segments)
ASSUME SchemesAssumption == SchemeOf \in [Types -> {None, "none", "api_key", "oauth2"}]

VARIABLES raw,      \* the configured templates
          store,    \* the application's records: [type -> [id -> record or None]]
          copies,   \* the readers' copies: [who, path, cursor, tag, body]
          shared,   \* the shared cache: [path, cursor, body]
          walk,     \* a pagination per type: [seen, next, dirty]
          reply,    \* the answer to the last request if it revalidated a copy
          asked, updates

InGrammar(text) == text \in Seq(Letters) /\ text # <<>>

\* defineResource() checks the types, and the schema of a sitemap its ids.
ASSUME NamesAssumption ==
  /\ \A type \in Types : InGrammar(type)
  /\ \A i \in DOMAIN Ids : InGrammar(Ids[i])
  /\ DOMAIN Ids = 1 .. Len(Ids) /\ Len(Ids) \in Nat

vars == <<raw, store, copies, shared, walk, reply, asked, updates>>
Config == CompileRoutes(raw)
IdSet == {Ids[i] : i \in DOMAIN Ids}

-----------------------------------------------------------------------------
(* Cursors: the application's own value wrapped with type and version.     *)

Version == "1.0"
Malformed == [type |-> None, version |-> None, raw |-> None]
EncodeCursor(type, raw_) == [type |-> type, version |-> Version, raw |-> raw_]

\* Mutant: any well-formed cursor is applied to any type.
CursorRejected_Shape(type, cursor) == cursor.raw = None

CursorRejected(type, cursor) == cursor.type # type \/ cursor.version # Version \/ cursor.raw = None

\* The application (external) pages what it has; its cursor for the second
\* page is the empty string, written 1: falsy, and still a cursor.
Listed(type) ==
  LET present == {i \in DOMAIN Ids : store[type][Ids[i]] # None}
  IN  [n \in 1 .. Cardinality(present) |->
         Ids[CHOOSE i \in present : Cardinality({j \in present : j <= i}) = n]]
NextRaw(type, raw_) == IF Len(Listed(type)) > (raw_ + 1) * PageSize THEN raw_ + 1 ELSE None
PageEnd(type, raw_) == IF NextRaw(type, raw_) = None THEN Len(Listed(type)) ELSE (raw_ + 1) * PageSize
PageFrom(type, raw_) == SubSeq(Listed(type), raw_ * PageSize + 1, PageEnd(type, raw_))

\* Nothing is none of the cursors, the malformed and the outdated ones included.
Cursors == [type : Types \cup {None}, version : {Version, "0.1", None}, raw : Nat \cup {None}]
ASSUME NoneAssumption == None \notin Nat \cup Cursors

\* Strictly null: an empty application cursor goes on the wire.
NextCursor(type, next) == IF next = None THEN None ELSE EncodeCursor(type, next)

-----------------------------------------------------------------------------
(* Documents and their checksums.                                          *)

\* Mutant: an API key is not what makes a resource protected.
IsProtected_Declared(type) == SchemeOf[type] = "oauth2"

IsProtected(type) == SchemeOf[type] \notin {None, "none"}

\* What the application's answer depends on, for a type it protects.
Audience(type, who) == IF SchemeOf[type] \in {None, "none"} THEN None ELSE who

IndexDoc == [kind |-> "sitemap-index", covered |-> Types, owner |-> None]

SitemapDoc(type, raw_, who) ==
  [kind |-> "sitemap", type |-> type, owner |-> Audience(type, who),
   covered |-> [i \in DOMAIN PageFrom(type, raw_) |->
                  [id |-> PageFrom(type, raw_)[i], data |-> store[type][PageFrom(type, raw_)[i]].data,
                   owner |-> Audience(type, who)]],
   next |-> NextCursor(type, NextRaw(type, raw_))]

EntityDoc(type, id, who) ==
  [kind |-> "entity", type |-> type, id |-> id, owner |-> Audience(type, who),
   covered |-> [data |-> store[type][id].data, owner |-> Audience(type, who)],
   ext |-> store[type][id].ext]

\* Mutant: the checksum of a page is taken over its ids alone.
Checksum_IdsOnly(doc) ==
  IF doc.kind = "sitemap" THEN [i \in DOMAIN doc.covered |-> doc.covered[i].id] ELSE doc.covered

\* A checksum stands for exactly what it was computed over.
Checksum(doc) == doc.covered

-----------------------------------------------------------------------------
(* Responses.                                                              *)

Failure(code) ==
  [status |-> IF code \in {"not_found", "unsupported_type"} THEN 404 ELSE IF code = "invalid_request" THEN 400
              ELSE IF code = "unauthorized" THEN 401 ELSE 502,
   body |-> None, tag |-> None, cache |-> None]

\* If-None-Match: "*", or a list of validators compared weakly.
IfNoneMatchHits(condition, tag) ==
  \E candidate \in condition : candidate.sum \in {Star, tag}

CacheControlFor(type) == IF IsProtected(type) THEN "private, no-store" ELSE "public"

CacheableResponse(request, doc, cacheControl) ==
  IF IfNoneMatchHits(request.condition, Checksum(doc))
  THEN [status |-> 304, body |-> None, tag |-> Checksum(doc), cache |-> cacheControl]
  ELSE [status |-> 200, body |-> doc, tag |-> Checksum(doc), cache |-> cacheControl]

\* What the application did instead of answering: it refused, it answered with
\* another record, or it failed (threw, returned no list, a cursor that is no
\* string, an id of another type, a bad extension key, an invalid document).
SitemapFaults == {"ok", "unauthorized", "upstream_unavailable"}
EntityFaults == SitemapFaults \cup {"other-record"}

\* The application (external) has no record of an id it does not list.
RecordOf(type, id) == IF id \in IdSet THEN store[type][id] ELSE None

Sitemap(request, type, fault) ==
  IF type \notin Types THEN Failure("unsupported_type")
  ELSE IF request.cursor # None /\ CursorRejected(type, request.cursor) THEN Failure("invalid_request")
  ELSE IF fault # "ok" THEN Failure(fault)
  ELSE CacheableResponse(request,
         SitemapDoc(type, IF request.cursor = None THEN 0 ELSE request.cursor.raw, request.who), CacheControlFor(type))

Entity(request, type, id, fault) ==
  IF type \notin Types THEN Failure("unsupported_type")
  ELSE IF ~InGrammar(id) THEN Failure("invalid_request")
  ELSE IF fault = "unauthorized" THEN Failure(fault)
  ELSE IF RecordOf(type, id) = None \/ fault = "other-record" THEN Failure("not_found")
  ELSE IF fault # "ok" THEN Failure(fault)
  ELSE CacheableResponse(request, EntityDoc(type, id, request.who), CacheControlFor(type))

Plain(status, body, cache) == [status |-> status, body |-> body, tag |-> None, cache |-> cache]

HandleGet(request, match, fault) ==
  IF request.path = BuildPath(WellKnown, [type |-> <<>>])
  THEN Plain(200, [kind |-> "manifest", owner |-> None], "public")
  ELSE CASE match.kind = "sitemap-index" -> CacheableResponse(request, IndexDoc, "public")
         [] match.kind = "sitemap"       -> Sitemap(request, match.type, fault)
         [] match.kind = "entity"        -> Entity(request, match.type, match.id, fault)
         [] OTHER                        -> Failure("not_found")

HandleRequest(request, fault) ==
  CASE request.method = "OPTIONS" -> Plain(204, None, None)
    [] request.method = "GET"     -> HandleGet(request, Match(Config, Pathname(request.path)), fault)
    [] OTHER                      -> Failure("not_found")

-----------------------------------------------------------------------------
(* Init and the steps of the readers, the cache and the application.       *)

NoReply == [key |-> <<>>, status |-> None]
FreshWalk == [seen |-> <<>>, next |-> None, started |-> FALSE, dirty |-> FALSE]

Init ==
  /\ raw \in {config \in Configs : Accepted(config)}
  /\ store = [t \in Types |-> [i \in IdSet |-> CHOOSE r \in Records : r # None]]
  /\ copies = {} /\ shared = {}
  /\ walk = [t \in Types |-> FreshWalk]
  /\ reply = NoReply
  /\ asked = 0 /\ updates = 0

\* The application writes or deletes a record; paginations under way saw the old list.
Update(type, id) ==
  /\ raw \in Served
  /\ updates < MaxUpdates /\ updates' = updates + 1
  /\ \E record \in Records :
       /\ record # store[type][id]
       /\ store' = [store EXCEPT ![type][id] = record]
  /\ walk' = [walk EXCEPT ![type].dirty = walk[type].started]
  /\ UNCHANGED <<raw, copies, shared, reply, asked>>

Request(who, path, cursor) ==
  [method |-> "GET", who |-> who, path |-> path, cursor |-> cursor, condition |-> {}]

\* The request that revalidates a copy; a CDN may have made its validator weak.
Conditional(c, weak) ==
  [Request(c.who, c.path, c.cursor) EXCEPT !.condition = {[weak |-> weak, sum |-> c.tag]}]

\* What a reader keeps of a full answer, and a shared cache of a public one.
Kept(request, body, tag) ==
  {c \in copies : <<c.who, c.path, c.cursor>> # <<request.who, request.path, request.cursor>>}
    \cup {[who |-> request.who, path |-> request.path, cursor |-> request.cursor, tag |-> tag, body |-> body]}

Stored(request, response) ==
  {e \in shared : <<e.path, e.cursor>> # <<request.path, request.cursor>>}
    \cup {[path |-> request.path, cursor |-> request.cursor, tag |-> response.tag, body |-> response.body]}

Asked(request, response) ==
  /\ raw \in Served
  /\ asked < MaxAsked /\ asked' = asked + 1
  /\ reply' = IF response.status \in {200, 304} /\ \E candidate \in request.condition : candidate.sum # Star
              THEN [key |-> <<request.who, request.path, request.cursor>>, status |-> response.status]
              ELSE NoReply
  /\ copies' = IF response.status = 200 THEN Kept(request, response.body, response.tag) ELSE copies
  /\ shared' = IF response.status = 200 /\ response.cache = "public" THEN Stored(request, response) ELSE shared
  /\ UNCHANGED <<raw, store, updates>>

AskEntity(who, type, id) ==
  /\ \E fault \in EntityFaults :
       LET request == Request(who, EntityPath(Config, type, id), None)
       IN  Asked(request, HandleRequest(request, fault))
  /\ UNCHANGED walk

\* A page of a pagination: the cursor in hand, or a stray one in its place.
Strays(type) == {Malformed, [EncodeCursor(type, 2) EXCEPT !.version = "0.1"]} \cup
                  {walk[t].next : t \in {u \in Types : walk[u].next # None}}

TurnPage(type, response) ==
  IF response.status # 200 THEN walk[type]
  ELSE [walk[type] EXCEPT !.started = TRUE, !.next = response.body.next,
          !.seen = @ \o [i \in DOMAIN response.body.covered |-> response.body.covered[i].id]]

AskPage(who, type) ==
  /\ ~walk[type].started \/ walk[type].next # None
  /\ \E cursor \in IF walk[type].started THEN Strays(type) \cup {walk[type].next} ELSE {None} :
       \E fault \in SitemapFaults :
         LET request == Request(who, SitemapPath(Config, type), cursor)
             response == HandleRequest(request, fault)
         IN  /\ Asked(request, response)
             /\ walk' = [walk EXCEPT ![type] = TurnPage(type, response)]

\* A revalidation; the pagination goes on from the copies it already has.
Revalidate(who) ==
  /\ \E c \in {d \in copies : d.who = who /\ d.tag # None}, weak \in BOOLEAN, fault \in EntityFaults :
       Asked(Conditional(c, weak), HandleRequest(Conditional(c, weak), fault))
  /\ UNCHANGED walk

AskOther(who, method, path) ==
  /\ \E condition \in {{}, {[weak |-> FALSE, sum |-> Star]}} :
       LET request == [Request(who, path, None) EXCEPT !.method = method, !.condition = condition]
       IN  Asked(request, HandleRequest(request, "ok"))
  /\ UNCHANGED walk

\* The shared cache answers any reader from what it stored.
SharedHit(who) ==
  /\ \E e \in shared :
       copies' = Kept([who |-> who, path |-> e.path, cursor |-> e.cursor], e.body, e.tag)
  /\ UNCHANGED <<raw, store, shared, walk, reply, asked, updates>>

OtherPaths == {IndexPath(Config), BuildPath(WellKnown, [type |-> <<>>]), <<<<"b">>>>, EntityPath(Config, <<"a">>, <<" ">>)}

Next ==
  \/ \E type \in Types, id \in IdSet : Update(type, id)
  \/ \E who \in Principals, type \in Types, id \in IdSet : AskEntity(who, type, id)
  \/ \E who \in Principals, type \in Types : AskPage(who, type)
  \/ \E who \in Principals, path \in OtherPaths : AskOther(who, "GET", path)
  \/ \E who \in Principals, method \in {"POST", "OPTIONS"} : AskOther(who, method, IndexPath(Config))
  \/ \E who \in Principals : Revalidate(who) \/ SharedHit(who)

Spec == Init /\ [][Next]_vars

-----------------------------------------------------------------------------
(* Properties.                                                             *)

\* Every state keeps the shapes the server, its readers and its store exchange.
TypeOK ==
  /\ Accepted(raw)
  /\ store \in [Types -> [IdSet -> Records]]
  /\ \A c \in copies : c.who \in Principals /\ c.body # None
  /\ \A e \in shared : e.body # None
  /\ \A t \in Types : walk[t].next = None \/ walk[t].next = EncodeCursor(t, walk[t].next.raw)
  /\ asked \in 0..MaxAsked /\ updates \in 0..MaxUpdates

\* Every URL the server publishes is, after the URL parser has had it, matched
\* back to the document it was built for, whatever templates are configured:
\* no accepted template shadows another, and none is published in a form an
\* inbound request cannot have (routes.ts builds and matches from one template).
RoutesRoundTrip ==
  /\ Match(Config, Pathname(IndexPath(Config))) = [kind |-> "sitemap-index"]
  /\ \A type \in Types :
       /\ Match(Config, Pathname(SitemapPath(Config, type))) = [kind |-> "sitemap", type |-> type]
       /\ \A id \in IdSet :
            Match(Config, Pathname(EntityPath(Config, type, id))) = [kind |-> "entity", type |-> type, id |-> id]

\* The document a copy was made of, as the server would build it now.
Gone == [kind |-> "gone", covered |-> None]
DocOf(c) ==
  CASE c.body.kind = "entity" ->
         IF RecordOf(c.body.type, c.body.id) = None THEN Gone ELSE EntityDoc(c.body.type, c.body.id, c.who)
    [] c.body.kind = "sitemap" -> SitemapDoc(c.body.type, IF c.cursor = None THEN 0 ELSE c.cursor.raw, c.who)
    [] OTHER -> IndexDoc

Revalidates(c) ==
  /\ asked' # asked
  /\ reply'.key = <<c.who, c.path, c.cursor>>

\* A reader that revalidates its copy is told "not modified" exactly when the
\* items, or the data, of that copy are still the server's: never over a stale
\* copy, and never a full answer for an unchanged one, even when a CDN made
\* the validator weak (http.ts cacheableJsonResponse).
RevalidationExact ==
  [][\A c \in copies : Revalidates(c) =>
       /\ reply'.status = 304 => c.body.covered = DocOf(c).covered
       /\ reply'.status = 200 => c.body.covered # DocOf(c).covered]_vars

\* What was personalised for one principal is never in the shared cache, nor,
\* through it, in the hands of another (runtime.ts cacheControlFor).
NeverSomeoneElses ==
  /\ \A e \in shared : e.body.owner = None
  /\ \A c \in copies : c.body.owner \in {None, c.who}

\* A pagination of a list that did not change ends with every item once, in
\* order, though the application's second cursor is the empty string and though
\* stray cursors of another type, of another version or of no shape at all were
\* tried on the way (cursor.ts decodeCursor, runtime.ts sitemap).
PagesComplete ==
  \A type \in Types :
    walk[type].started /\ walk[type].next = None /\ ~walk[type].dirty => walk[type].seen = Listed(type)

(* Promised, and not kept; see "Where the code and its words disagree".   *)
\* What the specification's strong validator promises: "not modified" means that
\* the reader's copy is the document the server would have sent, byte for byte.
NotModifiedMeansSame ==
  [][\A c \in copies : Revalidates(c) /\ reply'.status = 304 => c.body = DocOf(c)]_vars
=============================================================================
