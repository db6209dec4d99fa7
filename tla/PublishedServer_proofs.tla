----------------------- MODULE PublishedServer_proofs -----------------------
(***************************************************************************)
(* Proofs about PublishedServer: whatever templates are configured,        *)
(* whatever the application does, and whoever asks for what, nothing that  *)
(* was made for one principal is cached for another, a revalidation is     *)
(* answered with "not modified" exactly when the copy is still current,    *)
(* every published URL is matched back to what it was built for, and a     *)
(* pagination of a list that stays as it is loses and repeats nothing.     *)
(***************************************************************************)
EXTENDS PublishedServer, FiniteSetTheorems, SequenceTheorems, TLAPS

Routed(path) == Match(Config, Pathname(path))
ManifestPath == BuildPath(WellKnown, [type |-> <<>>])
KeyOf(c)     == <<c.who, c.path, c.cursor>>

\* The document the matcher finds behind a path, as far as its identity goes.
BodyOf(path, body) ==
  \/ Routed(path).kind = "sitemap-index" /\ body = IndexDoc
  \/ /\ Routed(path).kind = "sitemap" /\ body.kind = "sitemap"
     /\ body.type = Routed(path).type
  \/ /\ Routed(path).kind = "entity" /\ body.kind = "entity"
     /\ body.type = Routed(path).type /\ body.id = Routed(path).id

\* What is kept under a path is what the path stands for, and its validator is
\* the checksum of what is kept.  The manifest is served without one.
MadeFor(e) ==
  IF e.body.kind = "manifest" THEN e.tag = None
  ELSE e.path # ManifestPath /\ e.tag = e.body.covered /\ BodyOf(e.path, e.body)

CopiesMade == \A c \in copies : MadeFor(c)
SharedMade == \A e \in shared : MadeFor(e)
\* A reader keeps one copy of a document.
OneCopyEach == \A c, d \in copies : KeyOf(c) = KeyOf(d) => c = d

IInv == CopiesMade /\ SharedMade /\ OneCopyEach /\ NeverSomeoneElses

-----------------------------------------------------------------------------
(* What the server answers.                                                *)

\* The document a request is for, as the server builds it now.
DocFor(request, doc) ==
  \/ Routed(request.path).kind = "sitemap-index" /\ doc = IndexDoc
  \/ /\ Routed(request.path).kind = "sitemap"
     /\ doc = SitemapDoc(Routed(request.path).type, IF request.cursor = None THEN 0 ELSE request.cursor.raw,
                         request.who)
  \/ /\ Routed(request.path).kind = "entity"
     /\ RecordOf(Routed(request.path).type, Routed(request.path).id) # None
     /\ doc = EntityDoc(Routed(request.path).type, Routed(request.path).id, request.who)

\* A response that carries a document, or says it has not changed.
Documented(request, r) ==
  /\ request.path # ManifestPath
  /\ \E doc, cacheControl :
       /\ DocFor(request, doc)
       /\ doc.owner \in {None, request.who}
       /\ cacheControl = "public" => doc.owner = None
       /\ r = CacheableResponse(request, doc, cacheControl)

ManifestServed(request, r) ==
  request.path = ManifestPath /\ r = Plain(200, [kind |-> "manifest", owner |-> None], "public")

Answered(r) == r.status \in {200, 304}

LEMMA FailuresAnswerNothing ==
  ASSUME NEW code
  PROVE  ~Answered(Failure(code))
BY DEF Failure, Answered

\* A type whose documents may be stored by a shared cache has no audience.
LEMMA PublicHasNoAudience ==
  ASSUME NEW type, NEW who
  PROVE  /\ Audience(type, who) \in {None, who}
         /\ CacheControlFor(type) = "public" => Audience(type, who) = None
BY DEF Audience, CacheControlFor, IsProtected

LEMMA SitemapAnswers ==
  ASSUME NEW request, NEW type, NEW fault, Answered(Sitemap(request, type, fault))
  PROVE  Sitemap(request, type, fault) =
           CacheableResponse(request,
             SitemapDoc(type, IF request.cursor = None THEN 0 ELSE request.cursor.raw, request.who),
             CacheControlFor(type))
BY FailuresAnswerNothing, Zenon DEF Sitemap

LEMMA EntityAnswers ==
  ASSUME NEW request, NEW type, NEW id, NEW fault, Answered(Entity(request, type, id, fault))
  PROVE  /\ RecordOf(type, id) # None
         /\ Entity(request, type, id, fault) =
              CacheableResponse(request, EntityDoc(type, id, request.who), CacheControlFor(type))
BY FailuresAnswerNothing, Zenon DEF Entity

LEMMA GetAnswers ==
  ASSUME NEW request, NEW fault,
         Answered(HandleGet(request, Routed(request.path), fault))
  PROVE  \/ ManifestServed(request, HandleGet(request, Routed(request.path), fault))
         \/ Documented(request, HandleGet(request, Routed(request.path), fault))
<1> DEFINE match == Routed(request.path)
           r == HandleGet(request, match, fault)
           index == CacheableResponse(request, IndexDoc, "public")
           page  == Sitemap(request, match.type, fault)
           item  == Entity(request, match.type, match.id, fault)
           whole == Plain(200, [kind |-> "manifest", owner |-> None], "public")
<1>1. \/ request.path = ManifestPath /\ r = whole
      \/ request.path # ManifestPath /\ match.kind = "sitemap-index" /\ r = index
      \/ request.path # ManifestPath /\ match.kind = "sitemap" /\ r = page
      \/ request.path # ManifestPath /\ match.kind = "entity" /\ r = item
      \/ r = Failure("not_found")
  <2>1. ASSUME request.path = ManifestPath PROVE r = whole
    BY <2>1, Zenon DEF HandleGet, ManifestPath
  <2>2. ASSUME request.path # ManifestPath, match.kind = "sitemap-index" PROVE r = index
    BY <2>2, Zenon DEF HandleGet, ManifestPath
  <2>3. ASSUME request.path # ManifestPath, match.kind = "sitemap" PROVE r = page
    BY <2>3, Zenon DEF HandleGet, ManifestPath
  <2>4. ASSUME request.path # ManifestPath, match.kind = "entity" PROVE r = item
    BY <2>4, Zenon DEF HandleGet, ManifestPath
  <2>5. ASSUME request.path # ManifestPath, match.kind \notin {"sitemap-index", "sitemap", "entity"}
        PROVE r = Failure("not_found")
    BY <2>5, Zenon DEF HandleGet, ManifestPath
  <2> QED BY <2>1, <2>2, <2>3, <2>4, <2>5, Zenon
<1>2. Answered(r)
  OBVIOUS
<1> HIDE DEF r, match, index, page, item, whole
<1>3. CASE request.path = ManifestPath /\ r = whole
  BY <1>3 DEF r, match, whole, ManifestServed
<1>4. CASE request.path # ManifestPath /\ match.kind = "sitemap-index" /\ r = index
  <2>1. DocFor(request, IndexDoc) /\ IndexDoc.owner = None
    BY <1>4 DEF DocFor, match, IndexDoc
  <2>2. Documented(request, r)
    BY <1>4, <2>1 DEF Documented, index
  <2> QED BY <2>2 DEF r, match
<1>5. CASE request.path # ManifestPath /\ match.kind = "sitemap" /\ r = page
  <2> DEFINE doc == SitemapDoc(match.type, IF request.cursor = None THEN 0 ELSE request.cursor.raw, request.who)
  <2>1. r = CacheableResponse(request, doc, CacheControlFor(match.type))
    BY <1>2, <1>5, SitemapAnswers DEF page
  <2>2. doc.owner = Audience(match.type, request.who)
    BY DEF SitemapDoc
  <2>3. DocFor(request, doc)
    BY <1>5 DEF DocFor, match
  <2>4. Documented(request, r)
    <3> HIDE DEF doc
    <3> QED BY <1>5, <2>1, <2>2, <2>3, PublicHasNoAudience DEF Documented
  <2> QED BY <2>4 DEF r, match
<1>6. CASE request.path # ManifestPath /\ match.kind = "entity" /\ r = item
  <2> DEFINE doc == EntityDoc(match.type, match.id, request.who)
  <2>1. /\ RecordOf(match.type, match.id) # None
        /\ r = CacheableResponse(request, doc, CacheControlFor(match.type))
    BY <1>2, <1>6, EntityAnswers DEF item
  <2>2. doc.owner = Audience(match.type, request.who)
    BY DEF EntityDoc
  <2>3. DocFor(request, doc)
    BY <1>6, <2>1 DEF DocFor, match
  <2>4. Documented(request, r)
    <3> HIDE DEF doc
    <3> QED BY <1>6, <2>1, <2>2, <2>3, PublicHasNoAudience DEF Documented
  <2> QED BY <2>4 DEF r, match
<1>7. CASE r = Failure("not_found")
  BY <1>2, <1>7, FailuresAnswerNothing
<1> QED BY <1>1, <1>3, <1>4, <1>5, <1>6, <1>7

LEMMA RequestAnswers ==
  ASSUME NEW request, NEW fault,
         Answered(HandleRequest(request, fault))
  PROVE  \/ ManifestServed(request, HandleRequest(request, fault))
         \/ Documented(request, HandleRequest(request, fault))
<1>1. \/ HandleRequest(request, fault) = Plain(204, None, None)
      \/ HandleRequest(request, fault) = HandleGet(request, Routed(request.path), fault)
      \/ HandleRequest(request, fault) = Failure("not_found")
  BY Zenon DEF HandleRequest, Routed
<1>2. ~Answered(Plain(204, None, None))
  BY DEF Plain, Answered
<1> QED BY <1>1, <1>2, FailuresAnswerNothing, GetAnswers

-----------------------------------------------------------------------------
(* The inductive invariant.                                                *)

LEMMA CopyMade ==
  ASSUME NEW request, NEW fault, NEW e,
         HandleRequest(request, fault).status = 200,
         e.path = request.path,
         e.body = HandleRequest(request, fault).body,
         e.tag = HandleRequest(request, fault).tag
  PROVE  /\ MadeFor(e)
         /\ e.body.owner \in {None, request.who}
         /\ HandleRequest(request, fault).cache = "public" => e.body.owner = None
<1> DEFINE r == HandleRequest(request, fault)
<1>1. ManifestServed(request, r) \/ Documented(request, r)
  BY RequestAnswers DEF Answered
<1>2. r.status = 200 /\ e.path = request.path /\ e.body = r.body /\ e.tag = r.tag
  OBVIOUS
<1> HIDE DEF r
<1>3. CASE ManifestServed(request, r)
  BY <1>2, <1>3 DEF ManifestServed, Plain, MadeFor
<1>4. CASE Documented(request, r)
  <2>1. PICK doc, cacheControl :
          /\ DocFor(request, doc)
          /\ doc.owner \in {None, request.who}
          /\ cacheControl = "public" => doc.owner = None
          /\ r = CacheableResponse(request, doc, cacheControl)
    BY <1>4 DEF Documented
  <2>2. r.body = doc /\ r.tag = doc.covered /\ r.cache = cacheControl
    BY <1>2, <2>1 DEF CacheableResponse, Checksum
  <2>3. doc.kind # "manifest" /\ BodyOf(request.path, doc)
    <3> DEFINE path == request.path
    <3>1. CASE Routed(path).kind = "sitemap-index" /\ doc = IndexDoc
      <4>1. doc.kind # "manifest"
        BY <3>1 DEF IndexDoc
      <4> QED BY <3>1, <4>1 DEF BodyOf
    <3>2. CASE /\ Routed(path).kind = "sitemap"
               /\ doc = SitemapDoc(Routed(path).type, IF request.cursor = None THEN 0 ELSE request.cursor.raw,
                                  request.who)
      <4>1. doc.kind = "sitemap" /\ doc.type = Routed(path).type
        BY <3>2 DEF SitemapDoc
      <4> QED BY <3>2, <4>1 DEF BodyOf
    <3>3. CASE /\ Routed(path).kind = "entity"
               /\ doc = EntityDoc(Routed(path).type, Routed(path).id, request.who)
      <4>1. doc.kind = "entity" /\ doc.type = Routed(path).type /\ doc.id = Routed(path).id
        BY <3>3 DEF EntityDoc
      <4> QED BY <3>3, <4>1 DEF BodyOf
    <3> QED BY <2>1, <3>1, <3>2, <3>3 DEF DocFor
  <2>4. request.path # ManifestPath
    BY <1>4 DEF Documented
  <2>5. MadeFor(e)
    BY <1>2, <2>2, <2>3, <2>4 DEF MadeFor
  <2> QED BY <1>2, <2>1, <2>2, <2>5 DEF r
<1> QED BY <1>1, <1>3, <1>4 DEF r

\* The invariant is about what is kept under a path, and no step changes what
\* a path stands for.
LEMMA RoutesStay ==
  ASSUME raw' = raw, NEW e
  PROVE  MadeFor(e)' = MadeFor(e)
BY DEF MadeFor, BodyOf, Routed, Config, IndexDoc, ManifestPath

LEMMA AskedInv ==
  ASSUME IInv, NEW request, NEW fault,
         Asked(request, HandleRequest(request, fault))
  PROVE  IInv'
<1> DEFINE r == HandleRequest(request, fault)
           e == [who |-> request.who, path |-> request.path, cursor |-> request.cursor,
                 tag |-> r.tag, body |-> r.body]
           s == [path |-> request.path, cursor |-> request.cursor, tag |-> r.tag, body |-> r.body]
<1>1. /\ raw' = raw
      /\ copies' = IF r.status = 200 THEN Kept(request, r.body, r.tag) ELSE copies
      /\ shared' = IF r.status = 200 /\ r.cache = "public" THEN Stored(request, r) ELSE shared
  BY DEF Asked
<1>2. r.status = 200 =>
        /\ MadeFor(e) /\ e.body.owner \in {None, request.who}
        /\ r.cache = "public" => MadeFor(s) /\ s.body.owner = None
  <2>1. ASSUME r.status = 200 PROVE MadeFor(e) /\ e.body.owner \in {None, request.who}
    <3>1. e.path = request.path /\ e.body = r.body /\ e.tag = r.tag
      OBVIOUS
    <3> HIDE DEF e
    <3> QED BY <2>1, <3>1, CopyMade
  <2>2. ASSUME r.status = 200, r.cache = "public" PROVE MadeFor(s) /\ s.body.owner = None
    <3>1. s.path = request.path /\ s.body = r.body /\ s.tag = r.tag
      OBVIOUS
    <3> HIDE DEF s
    <3> QED BY <2>2, <3>1, CopyMade
  <2> QED BY <2>1, <2>2
<1> HIDE DEF r
<1>3. \A c \in copies' : c \in copies \/ (r.status = 200 /\ c = e)
  BY <1>1 DEF Kept
<1>4. \A c \in shared' : c \in shared \/ (r.status = 200 /\ r.cache = "public" /\ c = s)
  BY <1>1 DEF Stored
<1>5. \A c, d \in copies' : KeyOf(c) = KeyOf(d) => c = d
  <2>1. CASE r.status = 200
    <3>1. copies' = {c \in copies : KeyOf(c) # <<request.who, request.path, request.cursor>>} \cup {e}
      BY <1>1, <2>1 DEF Kept, KeyOf
    <3>2. KeyOf(e) = <<request.who, request.path, request.cursor>>
      BY DEF KeyOf
    <3> HIDE DEF e
    <3> QED BY <3>1, <3>2 DEF IInv, OneCopyEach
  <2>2. CASE r.status # 200
    BY <1>1, <2>2 DEF IInv, OneCopyEach
  <2> QED BY <2>1, <2>2
<1>6. (CopiesMade /\ SharedMade)'
  <2>1. \A c \in copies' : MadeFor(c)
    BY <1>2, <1>3 DEF IInv, CopiesMade
  <2>2. \A c \in shared' : MadeFor(c)
    BY <1>2, <1>4 DEF IInv, SharedMade
  <2> QED BY <1>1, <2>1, <2>2, RoutesStay DEF CopiesMade, SharedMade
<1>7. NeverSomeoneElses'
  <2>1. e.who = request.who
    OBVIOUS
  <2> HIDE DEF e, s
  <2> QED BY <1>2, <1>3, <1>4, <2>1 DEF IInv, NeverSomeoneElses
<1> QED BY <1>5, <1>6, <1>7 DEF IInv, OneCopyEach, KeyOf

LEMMA SharedHitInv ==
  ASSUME IInv, NEW who, SharedHit(who)
  PROVE  IInv'
<1>1. PICK e \in shared :
        copies' = Kept([who |-> who, path |-> e.path, cursor |-> e.cursor], e.body, e.tag)
  BY DEF SharedHit
<1> DEFINE k == [who |-> who, path |-> e.path, cursor |-> e.cursor, tag |-> e.tag, body |-> e.body]
<1>2. raw' = raw /\ shared' = shared
  BY DEF SharedHit
<1>3. copies' = {c \in copies : KeyOf(c) # <<who, e.path, e.cursor>>} \cup {k}
  BY <1>1 DEF Kept, KeyOf
<1>4. KeyOf(k) = <<who, e.path, e.cursor>>
  BY DEF KeyOf
<1>5. MadeFor(k) /\ k.body.owner = None
  <2>1. MadeFor(e) /\ e.body.owner = None
    BY DEF IInv, SharedMade, NeverSomeoneElses
  <2>2. k.path = e.path /\ k.tag = e.tag /\ k.body = e.body
    OBVIOUS
  <2> HIDE DEF k
  <2> QED BY <2>1, <2>2 DEF MadeFor
<1> HIDE DEF k
<1>6. \A c, d \in copies' : KeyOf(c) = KeyOf(d) => c = d
  BY <1>3, <1>4 DEF IInv, OneCopyEach
<1>7. (CopiesMade /\ SharedMade)'
  <2>1. \A c \in copies' : MadeFor(c)
    BY <1>3, <1>5 DEF IInv, CopiesMade
  <2> QED BY <1>2, <2>1, RoutesStay DEF IInv, CopiesMade, SharedMade
<1>8. NeverSomeoneElses'
  BY <1>2, <1>3, <1>5 DEF IInv, NeverSomeoneElses
<1> QED BY <1>6, <1>7, <1>8 DEF IInv, OneCopyEach, KeyOf

LEMMA QuietInv ==
  ASSUME IInv, UNCHANGED <<raw, copies, shared>>
  PROVE  IInv'
BY RoutesStay DEF IInv, CopiesMade, SharedMade, OneCopyEach, KeyOf, NeverSomeoneElses

\* Whoever asks, and for whatever, it is a request that the server answers.
LEMMA EveryAskIsAnswered ==
  ASSUME Next
  PROVE  \/ \E type \in Types, id \in IdSet : Update(type, id)
         \/ \E who \in Principals : SharedHit(who)
         \/ \E request, fault : Asked(request, HandleRequest(request, fault))
<1>1. CASE \E type \in Types, id \in IdSet : Update(type, id)
  BY <1>1
<1>2. CASE \E who \in Principals, type \in Types, id \in IdSet : AskEntity(who, type, id)
  BY <1>2, Zenon DEF AskEntity
<1>3. CASE \E who \in Principals, type \in Types : AskPage(who, type)
  BY <1>3, Zenon DEF AskPage
<1>4. CASE \E who \in Principals, path \in OtherPaths : AskOther(who, "GET", path)
  BY <1>4, Zenon DEF AskOther
<1>5. CASE \E who \in Principals, method \in {"POST", "OPTIONS"} : AskOther(who, method, IndexPath(Config))
  BY <1>5, Zenon DEF AskOther
<1>6. CASE \E who \in Principals : Revalidate(who)
  BY <1>6, Zenon DEF Revalidate
<1>7. CASE \E who \in Principals : SharedHit(who)
  BY <1>7
<1> QED BY <1>1, <1>2, <1>3, <1>4, <1>5, <1>6, <1>7 DEF Next

\* What a reader or the shared cache keeps is what its path stands for, with
\* its own checksum, made for the reader itself or for anyone
\* (runtime.ts handleRequest, http.ts cacheableJsonResponse).
THEOREM Inductive == Spec => []IInv
<1>1. Init => IInv
  BY DEF Init, IInv, CopiesMade, SharedMade, OneCopyEach, NeverSomeoneElses
<1>2. IInv /\ [Next]_vars => IInv'
  <2> SUFFICES ASSUME IInv, [Next]_vars PROVE IInv'
    OBVIOUS
  <2>1. CASE Next
    <3>1. CASE \E type \in Types, id \in IdSet : Update(type, id)
      BY <3>1, QuietInv DEF Update
    <3>2. CASE \E who \in Principals : SharedHit(who)
      BY <3>2, SharedHitInv
    <3>3. CASE \E request, fault : Asked(request, HandleRequest(request, fault))
      BY <3>3, AskedInv
    <3> QED BY <2>1, <3>1, <3>2, <3>3, EveryAskIsAnswered
  <2>2. CASE UNCHANGED vars
    BY <2>2, QuietInv DEF vars
  <2> QED BY <2>1, <2>2
<1> QED BY <1>1, <1>2, PTL DEF Spec

\* Whatever the templates, the schemes and the application, nothing that was
\* personalised for one principal is in the shared cache, or reaches another
\* through it (runtime.ts cacheControlFor).
THEOREM NeverSomeoneElsesAlways == Spec => []NeverSomeoneElses
<1>1. IInv => NeverSomeoneElses
  BY DEF IInv
<1> QED BY <1>1, Inductive, PTL

-----------------------------------------------------------------------------
(* Revalidation.                                                           *)

\* What a copy was made of is what the server would answer its request with.
LEMMA DocOfCopy ==
  ASSUME NEW c, NEW request, NEW doc,
         MadeFor(c), c.body.kind # "manifest",
         request.who = c.who, request.path = c.path, request.cursor = c.cursor,
         DocFor(request, doc)
  PROVE  doc = DocOf(c)
<1> DEFINE type == Routed(c.path).type
           id   == Routed(c.path).id
           raw_ == IF c.cursor = None THEN 0 ELSE c.cursor.raw
<1>1. BodyOf(c.path, c.body)
  BY DEF MadeFor
<1>2. CASE Routed(c.path).kind = "sitemap-index" /\ c.body = IndexDoc
  <2>1. doc = IndexDoc
    BY <1>2 DEF DocFor
  <2>2. c.body.kind # "entity" /\ c.body.kind # "sitemap"
    BY <1>2 DEF IndexDoc
  <2>3. DocOf(c) = IndexDoc
    BY <2>2, Zenon DEF DocOf
  <2> QED BY <2>1, <2>3
<1>3. CASE Routed(c.path).kind = "sitemap" /\ c.body.kind = "sitemap" /\ c.body.type = type
  <2>1. doc = SitemapDoc(type, raw_, c.who)
    BY <1>3 DEF DocFor
  <2>2. DocOf(c) = SitemapDoc(c.body.type, IF c.cursor = None THEN 0 ELSE c.cursor.raw, c.who)
    BY <1>3, Zenon DEF DocOf
  <2> QED BY <1>3, <2>1, <2>2
<1>4. CASE /\ Routed(c.path).kind = "entity" /\ c.body.kind = "entity"
           /\ c.body.type = type /\ c.body.id = id
  <2>1. RecordOf(type, id) # None /\ doc = EntityDoc(type, id, c.who)
    BY <1>4 DEF DocFor
  <2>2. DocOf(c) = IF RecordOf(c.body.type, c.body.id) = None THEN Gone
                   ELSE EntityDoc(c.body.type, c.body.id, c.who)
    BY <1>4, Zenon DEF DocOf
  <2> QED BY <1>4, <2>1, <2>2
<1> QED BY <1>1, <1>2, <1>3, <1>4 DEF BodyOf

\* The one conditional request that revalidates a copy.
LEMMA RevalidatedByItself ==
  ASSUME IInv, Next, NEW c \in copies, Revalidates(c)
  PROVE  /\ c.tag # None
         /\ \E weak \in BOOLEAN, fault \in EntityFaults :
              LET response == HandleRequest(Conditional(c, weak), fault)
              IN  /\ reply'.status = response.status
                  /\ Answered(response) /\ c.tag # Star
<1>1. asked' # asked /\ reply'.key = <<c.who, c.path, c.cursor>>
  BY DEF Revalidates
<1>2. \A type \in Types, id \in IdSet : ~Update(type, id)
  BY <1>1 DEF Update
<1>3. \A who \in Principals : ~SharedHit(who)
  BY <1>1 DEF SharedHit
<1>4. reply' # NoReply
  BY <1>1 DEF NoReply
<1>5. ASSUME NEW request, NEW response, Asked(request, response)
      PROVE  /\ \E candidate \in request.condition : candidate.sum # Star
             /\ reply' = [key |-> <<request.who, request.path, request.cursor>>, status |-> response.status]
             /\ Answered(response)
  BY <1>4, <1>5 DEF Asked, Answered
<1>6. \A who \in Principals, type \in Types, id \in IdSet : ~AskEntity(who, type, id)
  BY <1>5 DEF AskEntity, Request
<1>7. \A who \in Principals, type \in Types : ~AskPage(who, type)
  <2> SUFFICES ASSUME NEW who \in Principals, NEW type \in Types, AskPage(who, type) PROVE FALSE
    OBVIOUS
  <2>1. \E path, cursor, fault : Asked(Request(who, path, cursor), HandleRequest(Request(who, path, cursor), fault))
    BY Zenon DEF AskPage
  <2>2. PICK path, cursor, fault : Asked(Request(who, path, cursor), HandleRequest(Request(who, path, cursor), fault))
    BY <2>1
  <2>3. Request(who, path, cursor).condition = {}
    BY DEF Request
  <2> QED BY <1>5, <2>2, <2>3
<1>8. \A who, method, path : ~AskOther(who, method, path)
  <2> SUFFICES ASSUME NEW who, NEW method, NEW path, AskOther(who, method, path) PROVE FALSE
    OBVIOUS
  <2>1. PICK condition \in {{}, {[weak |-> FALSE, sum |-> Star]}} :
          LET request == [Request(who, path, None) EXCEPT !.method = method, !.condition = condition]
          IN  Asked(request, HandleRequest(request, "ok"))
    BY Zenon DEF AskOther
  <2> DEFINE request == [Request(who, path, None) EXCEPT !.method = method, !.condition = condition]
  <2>2. request.condition = condition
    BY DEF Request
  <2>3. \A candidate \in condition : candidate.sum = Star
    OBVIOUS
  <2> HIDE DEF request
  <2> QED BY <1>5, <2>1, <2>2, <2>3 DEF request
<1>9. PICK who \in Principals : Revalidate(who)
  BY <1>2, <1>3, <1>6, <1>7, <1>8 DEF Next
<1>10. PICK d \in {d \in copies : d.who = who /\ d.tag # None}, weak \in BOOLEAN, fault \in EntityFaults :
          Asked(Conditional(d, weak), HandleRequest(Conditional(d, weak), fault))
  BY <1>9 DEF Revalidate
<1> DEFINE request  == Conditional(d, weak)
           response == HandleRequest(request, fault)
<1>11. /\ request.who = d.who /\ request.path = d.path /\ request.cursor = d.cursor
       /\ request.condition = {[weak |-> weak, sum |-> d.tag]}
  BY DEF Conditional, Request
<1>12. /\ \E candidate \in request.condition : candidate.sum # Star
       /\ reply' = [key |-> <<request.who, request.path, request.cursor>>, status |-> response.status]
       /\ Answered(response)
  BY <1>5, <1>10
<1>13. KeyOf(d) = KeyOf(c)
  <2> HIDE DEF request, response
  <2> QED BY <1>1, <1>11, <1>12 DEF KeyOf
<1>14. d = c
  BY <1>10, <1>13 DEF IInv, OneCopyEach
<1>15. c.tag # Star /\ reply'.status = response.status
  <2> HIDE DEF request, response
  <2> QED BY <1>11, <1>12, <1>14
<1> QED BY <1>10, <1>12, <1>14, <1>15

\* A reader that revalidates its copy is told "not modified" exactly when the
\* items, or the data, of that copy are still the server's (http.ts
\* cacheableJsonResponse).
THEOREM RevalidationExactAlways == Spec => RevalidationExact
<1>1. IInv /\ [Next]_vars =>
        [\A c \in copies : Revalidates(c) =>
           /\ reply'.status = 304 => c.body.covered = DocOf(c).covered
           /\ reply'.status = 200 => c.body.covered # DocOf(c).covered]_vars
  <2> SUFFICES ASSUME IInv, Next, NEW c \in copies, Revalidates(c)
               PROVE  /\ reply'.status = 304 => c.body.covered = DocOf(c).covered
                      /\ reply'.status = 200 => c.body.covered # DocOf(c).covered
    OBVIOUS
  <2>1. PICK weak \in BOOLEAN, fault \in EntityFaults :
          /\ reply'.status = HandleRequest(Conditional(c, weak), fault).status
          /\ Answered(HandleRequest(Conditional(c, weak), fault)) /\ c.tag # Star
    BY RevalidatedByItself
  <2> DEFINE request  == Conditional(c, weak)
             response == HandleRequest(request, fault)
  <2>2. /\ request.who = c.who /\ request.path = c.path /\ request.cursor = c.cursor
        /\ request.condition = {[weak |-> weak, sum |-> c.tag]}
    BY DEF Conditional, Request
  <2>3. reply'.status = response.status /\ Answered(response) /\ c.tag # Star
    BY <2>1
  <2>4. ManifestServed(request, response) \/ Documented(request, response)
    BY <2>3, RequestAnswers
  <2>5. MadeFor(c) /\ c.tag # None
    BY RevalidatedByItself DEF IInv, CopiesMade
  <2>6. c.body.kind # "manifest" /\ c.path # ManifestPath /\ c.tag = c.body.covered
    BY <2>5 DEF MadeFor
  <2> HIDE DEF request, response
  <2>7. Documented(request, response)
    BY <2>2, <2>4, <2>6 DEF ManifestServed
  <2>8. PICK doc, cacheControl : DocFor(request, doc) /\ response = CacheableResponse(request, doc, cacheControl)
    BY <2>7 DEF Documented
  <2>9. doc = DocOf(c)
    BY <2>2, <2>5, <2>6, <2>8, DocOfCopy
  <2>10. response.status = IF c.tag = doc.covered THEN 304 ELSE 200
    BY <2>2, <2>3, <2>8 DEF CacheableResponse, IfNoneMatchHits, Checksum
  <2> QED BY <2>3, <2>6, <2>9, <2>10
<1> QED BY <1>1, Inductive, PTL DEF Spec, RevalidationExact

-----------------------------------------------------------------------------
(* Prefixes and suffixes; what collides.                                   *)

\* A text is a prefix, or a suffix, of another when it is so letter by letter.
LEMMA PrefixAt ==
  ASSUME NEW S, NEW s \in Seq(S), NEW t \in Seq(S)
  PROVE  IsPrefix(s, t) <=> Len(s) <= Len(t) /\ \A i \in 1 .. Len(s) : s[i] = t[i]
<1>1. Len(s) \in Nat /\ Len(t) \in Nat
  BY LenProperties
<1>2. ASSUME Len(s) <= Len(t)
      PROVE  /\ SubSeq(s, 1, Len(s)) \in Seq(S) /\ SubSeq(t, 1, Len(s)) \in Seq(S)
             /\ Len(SubSeq(s, 1, Len(s))) = Len(s) /\ Len(SubSeq(t, 1, Len(s))) = Len(s)
             /\ \A i \in 1 .. Len(s) : SubSeq(s, 1, Len(s))[i] = s[i] /\ SubSeq(t, 1, Len(s))[i] = t[i]
  <2>1. /\ 1 \in 1 .. Len(s) + 1 /\ 1 \in 1 .. Len(t) + 1
        /\ Len(s) \in 1 - 1 .. Len(s) /\ Len(s) \in 1 - 1 .. Len(t)
    BY <1>1, <1>2
  <2>2. /\ SubSeq(s, 1, Len(s)) \in Seq(S) /\ Len(SubSeq(s, 1, Len(s))) = Len(s) - 1 + 1
        /\ \A i \in 1 .. Len(s) - 1 + 1 : SubSeq(s, 1, Len(s))[i] = s[1 + i - 1]
    BY <2>1, SubSeqProperties
  <2>3. /\ SubSeq(t, 1, Len(s)) \in Seq(S) /\ Len(SubSeq(t, 1, Len(s))) = Len(s) - 1 + 1
        /\ \A i \in 1 .. Len(s) - 1 + 1 : SubSeq(t, 1, Len(s))[i] = t[1 + i - 1]
    BY <2>1, SubSeqProperties
  <2> QED BY <1>1, <2>2, <2>3
<1>3. ASSUME Len(s) <= Len(t)
      PROVE  SubSeq(s, 1, Len(s)) = SubSeq(t, 1, Len(s)) <=> \A i \in 1 .. Len(s) : s[i] = t[i]
  <2> DEFINE p == SubSeq(s, 1, Len(s))
             q == SubSeq(t, 1, Len(s))
  <2>1. /\ p \in Seq(S) /\ q \in Seq(S) /\ Len(p) = Len(s) /\ Len(q) = Len(s)
        /\ \A i \in 1 .. Len(s) : p[i] = s[i] /\ q[i] = t[i]
    BY <1>2, <1>3
  <2> HIDE DEF p, q
  <2>2. p = q => \A i \in 1 .. Len(s) : s[i] = t[i]
    BY <2>1
  <2>3. (\A i \in 1 .. Len(s) : s[i] = t[i]) => p = q
    BY <2>1, SeqEqual
  <2> QED BY <2>2, <2>3 DEF p, q
<1> QED BY <1>1, <1>3 DEF IsPrefix

LEMMA ReverseAt ==
  ASSUME NEW S, NEW s \in Seq(S)
  PROVE  /\ Reverse(s) \in Seq(S) /\ Len(Reverse(s)) = Len(s)
         /\ \A i \in 1 .. Len(s) : Reverse(s)[i] = s[Len(s) - i + 1]
<1>1. Len(s) \in Nat
  BY LenProperties
<1>2. \A i \in 1 .. Len(s) : s[Len(s) - i + 1] \in S
  BY <1>1, ElementOfSeq
<1>3. Reverse(s) \in [1 .. Len(s) -> S]
  BY <1>2 DEF Reverse
<1> QED BY <1>1, <1>3, SMT DEF Reverse

LEMMA SuffixAt ==
  ASSUME NEW S, NEW s \in Seq(S), NEW t \in Seq(S)
  PROVE  IsSuffix(s, t) <=> Len(s) <= Len(t) /\ \A i \in 1 .. Len(s) : s[i] = t[Len(t) - Len(s) + i]
<1> DEFINE p == Reverse(s)
           q == Reverse(t)
<1>1. Len(s) \in Nat /\ Len(t) \in Nat
  BY LenProperties
<1>2. /\ p \in Seq(S) /\ Len(p) = Len(s) /\ \A i \in 1 .. Len(s) : p[i] = s[Len(s) - i + 1]
      /\ q \in Seq(S) /\ Len(q) = Len(t) /\ \A i \in 1 .. Len(t) : q[i] = t[Len(t) - i + 1]
  BY ReverseAt
<1> HIDE DEF p, q
<1>3. IsPrefix(p, q) <=> Len(s) <= Len(t) /\ \A i \in 1 .. Len(s) : p[i] = q[i]
  BY <1>2, PrefixAt
<1>4. ASSUME Len(s) <= Len(t), \A i \in 1 .. Len(s) : p[i] = q[i], NEW i \in 1 .. Len(s)
      PROVE  s[i] = t[Len(t) - Len(s) + i]
  <2> DEFINE j == Len(s) - i + 1
  <2>1. j \in 1 .. Len(s) /\ j \in 1 .. Len(t) /\ Len(s) - j + 1 = i /\ Len(t) - j + 1 = Len(t) - Len(s) + i
    BY <1>1, <1>4
  <2> HIDE DEF j
  <2>2. p[j] = s[i] /\ q[j] = t[Len(t) - Len(s) + i]
    BY <1>2, <2>1
  <2> QED BY <1>4, <2>1, <2>2
<1>5. ASSUME Len(s) <= Len(t), \A i \in 1 .. Len(s) : s[i] = t[Len(t) - Len(s) + i], NEW i \in 1 .. Len(s)
      PROVE  p[i] = q[i]
  <2> DEFINE j == Len(s) - i + 1
  <2>1. j \in 1 .. Len(s) /\ i \in 1 .. Len(t) /\ Len(t) - Len(s) + j = Len(t) - i + 1
    BY <1>1, <1>5
  <2>2. p[i] = s[j] /\ q[i] = t[Len(t) - i + 1]
    BY <1>2, <2>1
  <2> HIDE DEF j
  <2> QED BY <1>5, <2>1, <2>2
<1> QED BY <1>3, <1>4, <1>5 DEF p, q, IsSuffix

\* Two prefixes of one text are nested, and so are two suffixes.
LEMMA Nested ==
  ASSUME NEW S, NEW s \in Seq(S), NEW t \in Seq(S), NEW text \in Seq(S)
  PROVE  /\ IsPrefix(s, text) /\ IsPrefix(t, text) => IsPrefix(s, t) \/ IsPrefix(t, s)
         /\ IsSuffix(s, text) /\ IsSuffix(t, text) => IsSuffix(s, t) \/ IsSuffix(t, s)
<1>1. Len(s) \in Nat /\ Len(t) \in Nat /\ Len(text) \in Nat
  BY LenProperties
<1>2. ASSUME IsPrefix(s, text), IsPrefix(t, text) PROVE IsPrefix(s, t) \/ IsPrefix(t, s)
  <2>1. /\ Len(s) <= Len(text) /\ \A i \in 1 .. Len(s) : s[i] = text[i]
        /\ Len(t) <= Len(text) /\ \A i \in 1 .. Len(t) : t[i] = text[i]
    BY <1>2, PrefixAt
  <2>2. CASE Len(s) <= Len(t)
    <3>1. \A i \in 1 .. Len(s) : s[i] = t[i]
      BY <1>1, <2>1, <2>2
    <3> QED BY <2>2, <3>1, PrefixAt
  <2>3. CASE Len(t) <= Len(s)
    <3>1. \A i \in 1 .. Len(t) : t[i] = s[i]
      BY <1>1, <2>1, <2>3
    <3> QED BY <2>3, <3>1, PrefixAt
  <2> QED BY <1>1, <2>2, <2>3
<1>3. ASSUME IsSuffix(s, text), IsSuffix(t, text) PROVE IsSuffix(s, t) \/ IsSuffix(t, s)
  <2>1. /\ Len(s) <= Len(text) /\ \A i \in 1 .. Len(s) : s[i] = text[Len(text) - Len(s) + i]
        /\ Len(t) <= Len(text) /\ \A i \in 1 .. Len(t) : t[i] = text[Len(text) - Len(t) + i]
    BY <1>3, SuffixAt
  <2>2. CASE Len(s) <= Len(t)
    <3>1. ASSUME NEW i \in 1 .. Len(s) PROVE s[i] = t[Len(t) - Len(s) + i]
      <4> DEFINE j == Len(t) - Len(s) + i
      <4>1. j \in 1 .. Len(t) /\ Len(text) - Len(t) + j = Len(text) - Len(s) + i
        BY <1>1, <2>2
      <4> HIDE DEF j
      <4> QED BY <2>1, <4>1 DEF j
    <3> QED BY <2>2, <3>1, SuffixAt
  <2>3. CASE Len(t) <= Len(s)
    <3>1. ASSUME NEW i \in 1 .. Len(t) PROVE t[i] = s[Len(s) - Len(t) + i]
      <4> DEFINE j == Len(s) - Len(t) + i
      <4>1. j \in 1 .. Len(s) /\ Len(text) - Len(s) + j = Len(text) - Len(t) + i
        BY <1>1, <2>3
      <4> HIDE DEF j
      <4> QED BY <2>1, <4>1 DEF j
    <3> QED BY <2>3, <3>1, SuffixAt
  <2> QED BY <1>1, <2>2, <2>3
<1> QED BY <1>2, <1>3

\* No inbound segment satisfies two segments that could not collide.
LEMMA SegmentsCollide ==
  ASSUME NEW a \in Segments, NEW b \in Segments, NEW text \in Seq(Chars),
         SegmentMatches(a, text), SegmentMatches(b, text)
  PROVE  SegmentsCouldCollide(a, b)
<1>1. CASE a.ph = "none"
  <2>1. text = Literal(a)
    BY <1>1 DEF SegmentMatches
  <2>2. SegmentMatches(b, Literal(a))
    BY <2>1
  <2> QED BY <1>1, <2>2, Zenon DEF SegmentsCouldCollide
<1>2. CASE a.ph # "none" /\ b.ph = "none"
  <2>1. text = Literal(b)
    BY <1>2 DEF SegmentMatches
  <2>2. SegmentMatches(a, Literal(b))
    BY <2>1
  <2> QED BY <1>2, <2>2, Zenon DEF SegmentsCouldCollide
<1>3. CASE a.ph # "none" /\ b.ph # "none"
  <2>1. /\ IsPrefix(a.pre, text) /\ IsPrefix(b.pre, text)
        /\ IsSuffix(a.suf, text) /\ IsSuffix(b.suf, text)
    BY <1>3, Zenon DEF SegmentMatches
  <2>2. a.pre \in Seq(Chars) /\ b.pre \in Seq(Chars) /\ a.suf \in Seq(Chars) /\ b.suf \in Seq(Chars)
    BY DEF Segments
  <2>3. /\ IsPrefix(a.pre, b.pre) \/ IsPrefix(b.pre, a.pre)
        /\ IsSuffix(a.suf, b.suf) \/ IsSuffix(b.suf, a.suf)
    BY <2>1, <2>2, Nested
  <2> QED BY <1>3, <2>3, Zenon DEF SegmentsCouldCollide
<1> QED BY <1>1, <1>2, <1>3

LEMMA TemplatesCollide ==
  ASSUME NEW a \in Seq(Segments), NEW b \in Seq(Segments), NEW path \in Seq(Seq(Chars)),
         PathMatches(a, path), PathMatches(b, path)
  PROVE  TemplatesCouldCollide(a, b)
<1>1. DOMAIN a = 1 .. Len(a) /\ DOMAIN b = 1 .. Len(b) /\ Len(a) = Len(path) /\ Len(b) = Len(path)
  BY LenProperties DEF PathMatches
<1>2. ASSUME NEW i \in DOMAIN a PROVE SegmentsCouldCollide(a[i], b[i])
  <2>1. i \in 1 .. Len(path) /\ i \in DOMAIN b
    BY <1>1, <1>2
  <2>2. a[i] \in Segments /\ b[i] \in Segments /\ path[i] \in Seq(Chars)
    BY <1>1, <1>2, <2>1, ElementOfSeq
  <2>3. SegmentMatches(a[i], path[i]) /\ SegmentMatches(b[i], path[i])
    BY <1>2, <2>1 DEF PathMatches
  <2> QED BY <2>2, <2>3, SegmentsCollide
<1> QED BY <1>1, <1>2 DEF TemplatesCouldCollide

-----------------------------------------------------------------------------
(* What the URL parser leaves alone.                                       *)

\* A text in the form an inbound pathname has.
Clean(text) == text \in Seq(Chars) /\ \A i \in 1 .. Len(text) : text[i] # " "

LEMMA CleanStays ==
  ASSUME NEW text, Clean(text)
  PROVE  Canonical(text) = text
<1>1. DOMAIN text = 1 .. Len(text) /\ text \in [1 .. Len(text) -> Chars]
  BY LenProperties DEF Clean
<1>2. \A i \in DOMAIN text : Encode(text[i]) = text[i]
  BY <1>1 DEF Clean, Encode
<1> QED BY <1>1, <1>2 DEF Canonical

LEMMA CanonicalClean ==
  ASSUME NEW text \in Seq(Chars)
  PROVE  /\ Clean(Canonical(text)) /\ Len(Canonical(text)) = Len(text)
         /\ \A i \in 1 .. Len(text) : Canonical(text)[i] = Encode(text[i])
<1>1. DOMAIN text = 1 .. Len(text) /\ Len(text) \in Nat
  BY LenProperties
<1>2. \A i \in 1 .. Len(text) : Encode(text[i]) \in Chars /\ Encode(text[i]) # " "
  <2>1. \A i \in 1 .. Len(text) : text[i] \in Chars
    BY ElementOfSeq
  <2> QED BY <2>1, CharsAssumption DEF Encode
<1>3. Canonical(text) \in [1 .. Len(text) -> Chars]
  BY <1>1, <1>2 DEF Canonical
<1>4. Canonical(text) \in Seq(Chars) /\ Len(Canonical(text)) = Len(text)
  BY <1>1, <1>3
<1>5. \A i \in 1 .. Len(text) : Canonical(text)[i] = Encode(text[i])
  BY <1>1 DEF Canonical
<1> QED BY <1>2, <1>4, <1>5 DEF Clean

LEMMA CleanConcat ==
  ASSUME NEW s, NEW t, Clean(s), Clean(t)
  PROVE  Clean(s \o t)
<1>1. s \in Seq(Chars) /\ t \in Seq(Chars)
  BY DEF Clean
<1>2. /\ s \o t \in Seq(Chars) /\ Len(s \o t) = Len(s) + Len(t)
      /\ \A i \in 1 .. Len(s) + Len(t) : (s \o t)[i] = IF i <= Len(s) THEN s[i] ELSE t[i - Len(s)]
  BY <1>1, ConcatProperties
<1>3. Len(s) \in Nat /\ Len(t) \in Nat
  BY <1>1, LenProperties
<1>4. ASSUME NEW i \in 1 .. Len(s) + Len(t) PROVE (s \o t)[i] # " "
  <2>1. CASE i <= Len(s)
    <3>1. i \in 1 .. Len(s)
      BY <1>3, <2>1
    <3> QED BY <1>2, <2>1, <3>1 DEF Clean
  <2>2. CASE ~(i <= Len(s))
    <3>1. i - Len(s) \in 1 .. Len(t)
      BY <1>3, <2>2
    <3>2. (s \o t)[i] = t[i - Len(s)]
      BY <1>2, <2>2
    <3> QED BY <3>1, <3>2 DEF Clean
  <2> QED BY <2>1, <2>2
<1> QED BY <1>2, <1>4 DEF Clean

\* Types and ids are published as they are, and read back as they were.
DecodeChar(c) == IF c = "%20" THEN " " ELSE IF c = "%2e" THEN "." ELSE c

LEMMA DecodeAt ==
  ASSUME NEW text
  PROVE  Decode(text) = [i \in DOMAIN text |-> DecodeChar(text[i])]
<1>1. \A c : (CASE c = "%20" -> " " [] c = "%2e" -> "." [] OTHER -> c) = DecodeChar(c)
  <2> TAKE c
  <2>1. CASE c = "%20"
    <3>1. c # "%2e"
      BY <2>1
    <3> QED BY <2>1, <3>1, Zenon DEF DecodeChar
  <2>2. CASE c = "%2e"
    <3>1. c # "%20"
      BY <2>2
    <3> QED BY <2>2, <3>1, Zenon DEF DecodeChar
  <2>3. CASE c # "%20" /\ c # "%2e"
    BY <2>3, Zenon DEF DecodeChar
  <2> QED BY <2>1, <2>2, <2>3
<1> QED BY <1>1, Zenon DEF Decode

LEMMA GrammarText ==
  ASSUME NEW text, InGrammar(text)
  PROVE  /\ Clean(text) /\ Decode(text) = text
         /\ Len(text) \in Nat \ {0} /\ text[1] \in Letters
<1>1. text \in Seq(Letters) /\ text # <<>>
  BY DEF InGrammar
<1>2. Len(text) \in Nat \ {0} /\ DOMAIN text = 1 .. Len(text) /\ text \in [1 .. Len(text) -> Letters]
  BY <1>1, EmptySeq, LenProperties
<1>3. \A i \in 1 .. Len(text) : text[i] \in Letters
  BY <1>2
<1>4. text \in Seq(Chars)
  BY <1>1, CharsAssumption, SeqMonotonic
<1>5. Clean(text)
  BY <1>3, <1>4, CharsAssumption DEF Clean
<1>6. \A i \in 1 .. Len(text) : DecodeChar(text[i]) = text[i]
  BY <1>3, CharsAssumption DEF DecodeChar
<1>7. Decode(text) = text
  BY <1>2, <1>6, DecodeAt
<1> QED BY <1>2, <1>3, <1>5, <1>7

\* Encoding a text does not change what it decodes to.
LEMMA DecodeCanonical ==
  ASSUME NEW text \in Seq(Chars)
  PROVE  Decode(Canonical(text)) = Decode(text)
<1>1. DOMAIN Canonical(text) = DOMAIN text /\ \A i \in DOMAIN text : Canonical(text)[i] = Encode(text[i])
  BY DEF Canonical
<1>2. \A c : DecodeChar(Encode(c)) = DecodeChar(c)
  BY DEF DecodeChar, Encode
<1>3. \A i \in DOMAIN text : DecodeChar(Canonical(text)[i]) = DecodeChar(text[i])
  BY <1>1, <1>2
<1> QED BY <1>1, <1>3, DecodeAt

\* A segment that holds a letter is none that the URL parser resolves.
LEMMA LetterIsNoDot ==
  ASSUME NEW text \in Seq(Chars), NEW k \in 1 .. Len(text), text[k] \in Letters
  PROVE  ~IsDotSegment(text)
<1> DEFINE d == Decode(text)
<1>1. DOMAIN text = 1 .. Len(text)
  BY LenProperties
<1>2. k \in DOMAIN d /\ d[k] = text[k]
  <2>1. DecodeChar(text[k]) = text[k]
    BY CharsAssumption DEF DecodeChar
  <2> QED BY <1>1, <2>1, DecodeAt
<1>3. d[k] # "."
  BY <1>2, CharsAssumption
<1> HIDE DEF d
<1>4. d # <<".">>
  BY <1>2, <1>3
<1>5. d # <<".", ".">>
  BY <1>2, <1>3
<1> QED BY <1>4, <1>5 DEF IsDotSegment, d

-----------------------------------------------------------------------------
(* What is published is matched by the template it was built from.         *)

\* A compiled template: its literals are clean and no segment is a dot segment.
Ready(template) ==
  /\ template \in Seq(Segments)
  /\ \A i \in 1 .. Len(template) :
       /\ Clean(template[i].pre) /\ Clean(template[i].suf)
       /\ template[i].ph = "none" => ~IsDotSegment(Literal(template[i]))

\* The parameters give every placeholder a type or an id.
Given(template, params) ==
  \A i \in 1 .. Len(template) : template[i].ph # "none" => InGrammar(params[template[i].ph])

LEMMA CompiledSegment ==
  ASSUME NEW segment \in Segments, segment.ph = "none" => ~IsDotSegment(Literal(segment))
  PROVE  LET compiled == [segment EXCEPT !.pre = Canonical(@), !.suf = Canonical(@)]
         IN  /\ compiled \in Segments /\ Clean(compiled.pre) /\ Clean(compiled.suf)
             /\ compiled.ph = segment.ph
             /\ compiled.ph = "none" => ~IsDotSegment(Literal(compiled))
<1> DEFINE compiled == [segment EXCEPT !.pre = Canonical(@), !.suf = Canonical(@)]
<1>1. /\ segment.pre \in Seq(Chars) /\ segment.suf \in Seq(Chars)
      /\ segment.ph \in Placeholders \cup {"none"}
  BY DEF Segments
<1>2. /\ compiled.pre = Canonical(segment.pre) /\ compiled.suf = Canonical(segment.suf)
      /\ compiled.ph = segment.ph
  BY DEF Segments
<1> HIDE DEF compiled
<1>3. /\ Clean(compiled.pre) /\ Clean(compiled.suf)
      /\ Canonical(segment.pre) \in Seq(Chars) /\ Canonical(segment.suf) \in Seq(Chars)
  <2>1. Clean(Canonical(segment.pre)) /\ Clean(Canonical(segment.suf))
    BY <1>1, CanonicalClean
  <2> QED BY <1>2, <2>1 DEF Clean
<1> USE DEF compiled
<1>4. compiled \in Segments
  <2> DEFINE x == Canonical(segment.pre)
             z == Canonical(segment.suf)
  <2>1. x \in Seq(Chars) /\ z \in Seq(Chars)
    BY <1>3
  <2> HIDE DEF x, z
  <2>2. [segment EXCEPT !.pre = x, !.suf = z] \in Segments
    BY <2>1 DEF Segments
  <2>3. compiled = [segment EXCEPT !.pre = x, !.suf = z]
    BY DEF x, z
  <2> QED BY <2>2, <2>3
<1> HIDE DEF compiled
<1>5. Canonical(segment.pre \o segment.suf) = Canonical(segment.pre) \o Canonical(segment.suf)
  <2> DEFINE s == segment.pre
             t == segment.suf
             l == Canonical(s \o t)
             r == Canonical(s) \o Canonical(t)
  <2>1. s \in Seq(Chars) /\ t \in Seq(Chars) /\ Len(s) \in Nat /\ Len(t) \in Nat
    BY <1>1, LenProperties
  <2> HIDE DEF s, t
  <2>2. /\ s \o t \in Seq(Chars) /\ Len(s \o t) = Len(s) + Len(t)
        /\ \A i \in 1 .. Len(s) + Len(t) : (s \o t)[i] = IF i <= Len(s) THEN s[i] ELSE t[i - Len(s)]
    BY <2>1, ConcatProperties
  <2>3. /\ l \in Seq(Chars) /\ Len(l) = Len(s) + Len(t)
        /\ \A i \in 1 .. Len(s) + Len(t) : l[i] = Encode((s \o t)[i])
    BY <2>2, CanonicalClean DEF Clean
  <2>4. /\ Canonical(s) \in Seq(Chars) /\ Len(Canonical(s)) = Len(s)
        /\ \A i \in 1 .. Len(s) : Canonical(s)[i] = Encode(s[i])
        /\ Canonical(t) \in Seq(Chars) /\ Len(Canonical(t)) = Len(t)
        /\ \A i \in 1 .. Len(t) : Canonical(t)[i] = Encode(t[i])
    BY <2>1, CanonicalClean DEF Clean
  <2> DEFINE cs == Canonical(s)
             ct == Canonical(t)
  <2>5. /\ r \in Seq(Chars) /\ Len(r) = Len(s) + Len(t)
        /\ \A i \in 1 .. Len(s) + Len(t) : r[i] = IF i <= Len(s) THEN cs[i] ELSE ct[i - Len(s)]
    <3> HIDE DEF cs, ct
    <3>1. cs \in Seq(Chars) /\ ct \in Seq(Chars) /\ Len(cs) = Len(s) /\ Len(ct) = Len(t)
      BY <2>4 DEF cs, ct
    <3>2. /\ cs \o ct \in Seq(Chars) /\ Len(cs \o ct) = Len(cs) + Len(ct)
          /\ \A i \in 1 .. Len(cs) + Len(ct) : (cs \o ct)[i] = IF i <= Len(cs) THEN cs[i] ELSE ct[i - Len(cs)]
      BY <3>1, ConcatProperties
    <3>3. r = cs \o ct
      BY DEF cs, ct
    <3> QED BY <3>1, <3>2, <3>3
  <2> HIDE DEF l, r, cs, ct
  <2>6. ASSUME NEW i \in 1 .. Len(s) + Len(t) PROVE l[i] = r[i]
    <3>1. CASE i <= Len(s)
      <4>1. i \in 1 .. Len(s)
        BY <2>1, <3>1
      <4>2. l[i] = Encode(s[i]) /\ r[i] = Encode(s[i])
        BY <2>2, <2>3, <2>4, <2>5, <3>1, <4>1 DEF cs
      <4> QED BY <4>2
    <3>2. CASE ~(i <= Len(s))
      <4>1. i - Len(s) \in 1 .. Len(t)
        BY <2>1, <3>2
      <4>2. l[i] = Encode(t[i - Len(s)])
        BY <2>2, <2>3, <3>2
      <4>3. r[i] = ct[i - Len(s)]
        BY <2>5, <3>2
      <4> QED BY <2>4, <4>1, <4>2, <4>3 DEF ct
    <3> QED BY <3>1, <3>2
  <2>7. l = r
    BY <2>3, <2>5, <2>6, SeqEqual
  <2> QED BY <2>7 DEF l, r, s, t
<1>6. ASSUME segment.ph = "none" PROVE ~IsDotSegment(Literal(compiled))
  <2>1. Literal(compiled) = Canonical(Literal(segment))
    BY <1>2, <1>5 DEF Literal
  <2>2. Literal(segment) \in Seq(Chars)
    BY <1>1, ConcatProperties DEF Literal
  <2>3. Decode(Literal(compiled)) = Decode(Literal(segment))
    BY <2>1, <2>2, DecodeCanonical
  <2>4. ~IsDotSegment(Literal(segment))
    BY <1>6
  <2> QED BY <2>3, <2>4, Zenon DEF IsDotSegment
<1> QED BY <1>2, <1>3, <1>4, <1>6 DEF compiled

LEMMA CompiledReady ==
  ASSUME NEW template \in Seq(Segments), WellFormed(template)
  PROVE  Ready(Compile(template))
<1> DEFINE compiled == Compile(template)
<1>1. Len(template) \in Nat /\ DOMAIN template = 1 .. Len(template)
  BY LenProperties
<1>2. ASSUME NEW i \in 1 .. Len(template)
      PROVE  /\ compiled[i] \in Segments /\ Clean(compiled[i].pre) /\ Clean(compiled[i].suf)
             /\ compiled[i].ph = "none" => ~IsDotSegment(Literal(compiled[i]))
  <2>1. compiled[i] = [template[i] EXCEPT !.pre = Canonical(@), !.suf = Canonical(@)]
    BY <1>1 DEF Compile
  <2>2. template[i] \in Segments
    BY ElementOfSeq
  <2>3. template[i].ph = "none" => ~IsDotSegment(Literal(template[i]))
    BY <1>1 DEF WellFormed
  <2> HIDE DEF compiled
  <2> QED BY <2>1, <2>2, <2>3, CompiledSegment
<1>3. DOMAIN compiled = 1 .. Len(template)
  BY <1>1 DEF Compile
<1>4. compiled \in [1 .. Len(template) -> Segments]
  <2>1. compiled = [i \in 1 .. Len(template) |-> compiled[i]]
    BY <1>3 DEF Compile
  <2> HIDE DEF compiled
  <2> QED BY <1>2, <2>1
<1> HIDE DEF compiled
<1>5. compiled \in Seq(Segments) /\ Len(compiled) = Len(template)
  BY <1>1, <1>4
<1>6. Ready(compiled)
  BY <1>2, <1>5 DEF Ready
<1> QED BY <1>6 DEF compiled

\* A published segment needs no encoding, is no dot segment, and satisfies the
\* segment it was built from, which captures the parameter it was built with.
LEMMA LiteralText ==
  ASSUME NEW segment \in Segments, NEW params, segment.ph = "none",
         Clean(segment.pre), Clean(segment.suf), ~IsDotSegment(Literal(segment))
  PROVE  /\ SegmentText(segment, params) = Literal(segment)
         /\ Clean(SegmentText(segment, params)) /\ ~IsDotSegment(SegmentText(segment, params))
         /\ SegmentMatches(segment, SegmentText(segment, params))
<1>1. segment.pre \in Seq(Chars)
  BY DEF Clean
<1>2. segment.pre \o <<>> = segment.pre
  BY <1>1, ConcatEmptySeq
<1>3. SegmentText(segment, params) = Literal(segment)
  BY <1>2, Zenon DEF SegmentText, Literal
<1>4. Clean(Literal(segment))
  BY CleanConcat DEF Literal
<1>5. SegmentMatches(segment, Literal(segment))
  BY Zenon DEF SegmentMatches
<1> QED BY <1>3, <1>4, <1>5

LEMMA PlaceholderText ==
  ASSUME NEW segment \in Segments, NEW params, segment.ph # "none",
         Clean(segment.pre), Clean(segment.suf), InGrammar(params[segment.ph])
  PROVE  /\ Clean(SegmentText(segment, params)) /\ ~IsDotSegment(SegmentText(segment, params))
         /\ SegmentMatches(segment, SegmentText(segment, params))
         /\ Decode(Captured(segment, SegmentText(segment, params))) = params[segment.ph]
<1> DEFINE pre == segment.pre
           mid == params[segment.ph]
           suf == segment.suf
           head == pre \o mid
           text == head \o suf
<1>1. SegmentText(segment, params) = text
  BY Zenon DEF SegmentText
<1>2. /\ Clean(pre) /\ Clean(mid) /\ Clean(suf) /\ Decode(mid) = mid
      /\ Len(mid) \in Nat \ {0} /\ mid[1] \in Letters
  BY GrammarText
<1>3. segment.pre = pre /\ segment.suf = suf /\ segment.ph # "none" /\ params[segment.ph] = mid
  OBVIOUS
<1> HIDE DEF pre, mid, suf
<1>4. pre \in Seq(Chars) /\ mid \in Seq(Chars) /\ suf \in Seq(Chars) /\ Len(pre) \in Nat /\ Len(suf) \in Nat
  BY <1>2, LenProperties DEF Clean
<1>5. /\ head \in Seq(Chars) /\ Len(head) = Len(pre) + Len(mid)
      /\ \A i \in 1 .. Len(pre) + Len(mid) : head[i] = IF i <= Len(pre) THEN pre[i] ELSE mid[i - Len(pre)]
  BY <1>4, ConcatProperties
<1>6. Clean(text)
  BY <1>2, CleanConcat
<1> HIDE DEF head
<1>7. /\ text \in Seq(Chars) /\ Len(text) = Len(head) + Len(suf)
      /\ \A i \in 1 .. Len(head) + Len(suf) : text[i] = IF i <= Len(head) THEN head[i] ELSE suf[i - Len(head)]
  BY <1>4, <1>5, ConcatProperties
<1> HIDE DEF text
<1>8. \A i \in 1 .. Len(pre) : text[i] = pre[i]
  <2> SUFFICES ASSUME NEW i \in 1 .. Len(pre) PROVE text[i] = pre[i]
    OBVIOUS
  <2>1. i \in 1 .. Len(pre) + Len(mid) /\ i \in 1 .. Len(head) + Len(suf) /\ i <= Len(head) /\ i <= Len(pre)
    BY <1>2, <1>4, <1>5
  <2> QED BY <1>5, <1>7, <2>1
<1>9. \A i \in 1 .. Len(mid) : text[Len(pre) + i] = mid[i]
  <2> SUFFICES ASSUME NEW i \in 1 .. Len(mid) PROVE text[Len(pre) + i] = mid[i]
    OBVIOUS
  <2> DEFINE j == Len(pre) + i
  <2>1. /\ j \in 1 .. Len(pre) + Len(mid) /\ j \in 1 .. Len(head) + Len(suf) /\ j <= Len(head)
        /\ ~(j <= Len(pre)) /\ j - Len(pre) = i
    BY <1>2, <1>4, <1>5
  <2> HIDE DEF j
  <2>2. text[j] = mid[i]
    BY <1>5, <1>7, <2>1
  <2> QED BY <2>2 DEF j
<1>10. \A i \in 1 .. Len(suf) : text[Len(text) - Len(suf) + i] = suf[i]
  <2> SUFFICES ASSUME NEW i \in 1 .. Len(suf) PROVE text[Len(text) - Len(suf) + i] = suf[i]
    OBVIOUS
  <2> DEFINE j == Len(text) - Len(suf) + i
  <2>1. j \in 1 .. Len(head) + Len(suf) /\ ~(j <= Len(head)) /\ j - Len(head) = i
    BY <1>2, <1>4, <1>5, <1>7
  <2> HIDE DEF j
  <2>2. text[j] = suf[i]
    BY <1>7, <2>1
  <2> QED BY <2>2 DEF j
<1>11. ~IsDotSegment(text)
  <2>1. Len(pre) + 1 \in 1 .. Len(text) /\ 1 \in 1 .. Len(mid)
    BY <1>2, <1>4, <1>5, <1>7
  <2>2. text[Len(pre) + 1] \in Letters
    BY <1>2, <1>9, <2>1
  <2> QED BY <1>7, <2>1, <2>2, LetterIsNoDot
<1>12. Len(text) = Len(pre) + Len(mid) + Len(suf)
  BY <1>5, <1>7
<1>13. IsPrefix(pre, text) /\ IsSuffix(suf, text) /\ Len(text) > Len(pre) + Len(suf)
  <2>1. Len(pre) <= Len(text) /\ Len(suf) <= Len(text) /\ Len(text) > Len(pre) + Len(suf)
    BY <1>2, <1>4, <1>12
  <2> QED BY <1>4, <1>7, <1>8, <1>10, <2>1, PrefixAt, SuffixAt
<1>14. SegmentMatches(segment, text)
  BY <1>3, <1>13, Zenon DEF SegmentMatches
<1>15. SubSeq(text, Len(pre) + 1, Len(text) - Len(suf)) = mid
  <2> DEFINE m == Len(pre) + 1
             n == Len(text) - Len(suf)
  <2>1. m \in 1 .. Len(text) + 1 /\ n \in m - 1 .. Len(text) /\ n - m + 1 = Len(mid)
        /\ \A i \in 1 .. Len(mid) : m + i - 1 = Len(pre) + i
    BY <1>2, <1>4, <1>12
  <2>2. /\ SubSeq(text, m, n) \in Seq(Chars) /\ Len(SubSeq(text, m, n)) = n - m + 1
        /\ \A i \in 1 .. n - m + 1 : SubSeq(text, m, n)[i] = text[m + i - 1]
    <3> HIDE DEF m, n
    <3> QED BY <1>7, <2>1, SubSeqProperties
  <2> HIDE DEF m, n
  <2>3. \A i \in 1 .. Len(mid) : SubSeq(text, m, n)[i] = mid[i]
    BY <1>9, <2>1, <2>2
  <2>4. SubSeq(text, m, n) = mid
    BY <1>4, <2>1, <2>2, <2>3, SeqEqual
  <2> QED BY <2>4 DEF m, n
<1>16. Decode(Captured(segment, text)) = mid
  BY <1>2, <1>3, <1>15 DEF Captured
<1> QED BY <1>1, <1>3, <1>6, <1>11, <1>14, <1>16

\* A published path goes through the URL parser unchanged, and is matched.
LEMMA BuiltPath ==
  ASSUME NEW template, NEW params, Ready(template), Given(template, params)
  PROVE  /\ BuildPath(template, params) \in Seq(Seq(Chars))
         /\ Pathname(BuildPath(template, params)) = BuildPath(template, params)
         /\ PathMatches(template, BuildPath(template, params))
<1> DEFINE path == BuildPath(template, params)
<1>1. /\ template \in Seq(Segments) /\ Len(template) \in Nat /\ DOMAIN template = 1 .. Len(template)
  BY LenProperties DEF Ready
<1>2. ASSUME NEW i \in 1 .. Len(template)
      PROVE  Clean(path[i]) /\ ~IsDotSegment(path[i]) /\ SegmentMatches(template[i], path[i])
  <2>1. path[i] = SegmentText(template[i], params)
    BY <1>1 DEF BuildPath
  <2>2. template[i] \in Segments
    BY <1>1, ElementOfSeq
  <2> HIDE DEF path
  <2>3. CASE template[i].ph = "none"
    <3>1. Clean(template[i].pre) /\ Clean(template[i].suf) /\ ~IsDotSegment(Literal(template[i]))
      BY <2>3 DEF Ready
    <3> QED BY <2>1, <2>2, <2>3, <3>1, LiteralText
  <2>4. CASE template[i].ph # "none"
    <3>1. Clean(template[i].pre) /\ Clean(template[i].suf) /\ InGrammar(params[template[i].ph])
      BY <2>4 DEF Ready, Given
    <3> QED BY <2>1, <2>2, <2>4, <3>1, PlaceholderText
  <2> QED BY <2>3, <2>4
<1>3. DOMAIN path = 1 .. Len(template) /\ path = [i \in 1 .. Len(template) |-> path[i]]
  BY <1>1 DEF BuildPath
<1> HIDE DEF path
<1>4. path \in [1 .. Len(template) -> Seq(Chars)]
  BY <1>2, <1>3 DEF Clean
<1>5. path \in Seq(Seq(Chars)) /\ Len(path) = Len(template)
  BY <1>1, <1>4
<1>6. [i \in DOMAIN path |-> Canonical(path[i])] = path
  BY <1>2, <1>3, CleanStays
<1>7. Pathname(path) = path
  BY <1>2, <1>3, <1>6 DEF Pathname
<1>8. PathMatches(template, path)
  BY <1>1, <1>2, <1>5 DEF PathMatches
<1> QED BY <1>5, <1>7, <1>8 DEF path

LEMMA ReadBack ==
  ASSUME NEW template, NEW params, Ready(template), Given(template, params),
         NEW name \in Placeholders, Cardinality(Holding(template, name)) = 1
  PROVE  ParamOf(template, BuildPath(template, params), name) = params[name]
<1>1. /\ template \in Seq(Segments) /\ DOMAIN template = 1 .. Len(template)
  BY LenProperties DEF Ready
<1>2. Holding(template, name) # {}
  <2>1. Cardinality({}) = 0
    BY FS_EmptySet
  <2> QED BY <2>1
<1>3. \E i \in DOMAIN template : template[i].ph = name
  BY <1>2 DEF Holding
<1> DEFINE i == CHOOSE i \in DOMAIN template : template[i].ph = name
<1>4. i \in DOMAIN template /\ template[i].ph = name
  BY <1>3
<1>5. ParamOf(template, BuildPath(template, params), name)
        = Decode(Captured(template[i], BuildPath(template, params)[i]))
  BY Zenon DEF ParamOf
<1> HIDE DEF i
<1>6. BuildPath(template, params)[i] = SegmentText(template[i], params)
  BY <1>4 DEF BuildPath
<1>7. template[i] \in Segments /\ template[i].ph # "none"
  BY <1>1, <1>4, ElementOfSeq DEF Placeholders
<1>8. Clean(template[i].pre) /\ Clean(template[i].suf) /\ InGrammar(params[template[i].ph])
  BY <1>1, <1>4, <1>7 DEF Ready, Given
<1>9. Decode(Captured(template[i], SegmentText(template[i], params))) = params[template[i].ph]
  BY <1>7, <1>8, PlaceholderText
<1> QED BY <1>4, <1>5, <1>6, <1>9

-----------------------------------------------------------------------------
(* No accepted template shadows another.                                   *)

\* Two templates that no path satisfies both.
Apart(a, b) == \A path \in Seq(Seq(Chars)) : ~(PathMatches(a, path) /\ PathMatches(b, path))

LEMMA SoleIndex == \A n \in Nat : n = 1 => \A i \in 1 .. n : i = 1
OBVIOUS

LEMMA OneCharClean ==
  ASSUME NEW text \in Seq(Chars), Len(text) = 1, text[1] # " "
  PROVE  Clean(text)
<1>1. \A i \in 1 .. Len(text) : i = 1
  BY SoleIndex, LenProperties, Zenon
<1> QED BY <1>1, Zenon DEF Clean

LEMMA WellKnownReady == Ready(WellKnown)
<1> DEFINE w == LiteralSegment(<<"w">>)
           m == LiteralSegment(<<"m">>)
<1>1. /\ <<"w">> \in Seq(Chars) /\ <<"m">> \in Seq(Chars)
      /\ <<>> \in Seq(Chars) /\ Len(<<>>) = 0
  <2>1. "w" \in Chars /\ "m" \in Chars
    BY CharsAssumption
  <2>2. \A c \in Chars : <<c>> \in Seq(Chars)
    OBVIOUS
  <2> QED BY <2>1, <2>2, EmptySeq
<1>2. Clean(<<"w">>) /\ Clean(<<"m">>) /\ Clean(<<>>)
  <2>1. \A c : Len(<<c>>) = 1 /\ <<c>>[1] = c
    OBVIOUS
  <2>2. \A c : <<c>> \in Seq(Chars) /\ c # " " => Clean(<<c>>)
    <3> SUFFICES ASSUME NEW c, <<c>> \in Seq(Chars), c # " " PROVE Clean(<<c>>)
      OBVIOUS
    <3> DEFINE t == <<c>>
    <3>1. Len(t) = 1 /\ t[1] = c
      BY <2>1
    <3>2. t \in Seq(Chars) /\ c # " "
      OBVIOUS
    <3> HIDE DEF t
    <3>4. Clean(t)
      BY <3>1, <3>2, OneCharClean
    <3> QED BY <3>4 DEF t
  <2>3. Clean(<<>>)
    BY <1>1 DEF Clean
  <2> QED BY <1>1, <2>2, <2>3
<1>3. w \in Segments /\ m \in Segments
  BY <1>1 DEF LiteralSegment, Segments
<1>4. /\ w.pre = <<"w">> /\ w.suf = <<>> /\ w.ph = "none" /\ Literal(w) = <<"w">>
      /\ m.pre = <<"m">> /\ m.suf = <<>> /\ m.ph = "none" /\ Literal(m) = <<"m">>
  BY <1>1, ConcatEmptySeq DEF LiteralSegment, Literal
<1>5. ~IsDotSegment(<<"w">>) /\ ~IsDotSegment(<<"m">>)
  <2>1. Decode(<<"w">>)[1] = "w" /\ Decode(<<"m">>)[1] = "m"
    <3>1. \A c : 1 \in DOMAIN <<c>> /\ <<c>>[1] = c
      OBVIOUS
    <3>2. \A c : Decode(<<c>>)[1] = DecodeChar(c)
      BY <3>1, DecodeAt
    <3> QED BY <3>2 DEF DecodeChar
  <2>2. \A d : d \in {<<".">>, <<".", ".">>} => d[1] = "."
    OBVIOUS
  <2> QED BY <2>1, <2>2 DEF IsDotSegment
<1> HIDE DEF w, m
<1>6. WellKnown = <<w, m>>
  BY DEF WellKnown, w, m
<1>7. <<w, m>> \in Seq(Segments) /\ Len(<<w, m>>) = 2
  BY <1>3
<1>8. \A i \in 1 .. 2 : <<w, m>>[i] \in {w, m}
  OBVIOUS
<1>9. \A s \in {w, m} : /\ Clean(s.pre) /\ Clean(s.suf)
                        /\ s.ph = "none" => ~IsDotSegment(Literal(s))
  BY <1>2, <1>4, <1>5
<1> QED BY <1>6, <1>7, <1>8, <1>9 DEF Ready

LEMMA AcceptedRoutes ==
  ASSUME NEW config \in Configs, Accepted(config)
  PROVE  LET routes == CompileRoutes(config)
         IN  /\ Ready(routes.index) /\ Ready(routes.sitemap) /\ Ready(routes.entity)
             /\ Apart(routes.index, routes.sitemap) /\ Apart(routes.index, routes.entity)
             /\ Apart(routes.sitemap, routes.entity) /\ Apart(routes.sitemap, WellKnown)
             /\ RequirePlaceholders(routes.index, {}, {"type", "id"})
             /\ RequirePlaceholders(routes.sitemap, {"type"}, {"id"})
             /\ RequirePlaceholders(routes.entity, {"type", "id"}, {})
<1> DEFINE a == Compile(config.index)
           b == Compile(config.sitemap)
           c == Compile(config.entity)
           d == WellKnown
<1>1. CompileRoutes(config).index = a /\ CompileRoutes(config).sitemap = b /\ CompileRoutes(config).entity = c
  BY DEF CompileRoutes
<1>2. /\ config.index \in Seq(Segments) /\ config.sitemap \in Seq(Segments) /\ config.entity \in Seq(Segments)
      /\ WellFormed(config.index) /\ WellFormed(config.sitemap) /\ WellFormed(config.entity)
  BY ConfigsAssumption DEF Accepted
<1>3. Ready(a) /\ Ready(b) /\ Ready(c)
  BY <1>2, CompiledReady
<1>4. /\ RequirePlaceholders(a, {}, {"type", "id"})
      /\ RequirePlaceholders(b, {"type"}, {"id"})
      /\ RequirePlaceholders(c, {"type", "id"}, {})
      /\ \A i, j \in 1..4 : i < j => ~TemplatesCouldCollide(<<a, b, c, d>>[i], <<a, b, c, d>>[j])
  BY Zenon DEF Accepted
<1> HIDE DEF a, b, c, d
<1>5. /\ ~TemplatesCouldCollide(a, b) /\ ~TemplatesCouldCollide(a, c)
      /\ ~TemplatesCouldCollide(b, c) /\ ~TemplatesCouldCollide(b, d)
  <2>1. /\ <<a, b, c, d>>[1] = a /\ <<a, b, c, d>>[2] = b
        /\ <<a, b, c, d>>[3] = c /\ <<a, b, c, d>>[4] = d
    OBVIOUS
  <2>2. ~TemplatesCouldCollide(<<a, b, c, d>>[1], <<a, b, c, d>>[2])
    BY <1>4
  <2>3. ~TemplatesCouldCollide(<<a, b, c, d>>[1], <<a, b, c, d>>[3])
    BY <1>4
  <2>4. ~TemplatesCouldCollide(<<a, b, c, d>>[2], <<a, b, c, d>>[3])
    BY <1>4
  <2>5. ~TemplatesCouldCollide(<<a, b, c, d>>[2], <<a, b, c, d>>[4])
    BY <1>4
  <2> QED BY <2>1, <2>2, <2>3, <2>4, <2>5
<1>6. \A s, t : Ready(s) /\ Ready(t) /\ ~TemplatesCouldCollide(s, t) => Apart(s, t)
  BY TemplatesCollide DEF Ready, Apart
<1>7. Ready(d)
  BY WellKnownReady DEF d
<1>8. Apart(a, b) /\ Apart(a, c) /\ Apart(b, c) /\ Apart(b, d)
  BY <1>3, <1>5, <1>6, <1>7
<1> QED BY <1>1, <1>3, <1>4, <1>8 DEF d

\* Every path is matched by the template it was built from, and by no earlier one.
LEMMA IndexFound ==
  ASSUME NEW config \in Configs, Accepted(config)
  PROVE  LET routes == CompileRoutes(config)
         IN  Match(routes, Pathname(IndexPath(routes))) = [kind |-> "sitemap-index"]
<1> DEFINE routes == CompileRoutes(config)
           params == [type |-> <<>>]
<1>1. Ready(routes.index) /\ RequirePlaceholders(routes.index, {}, {"type", "id"})
  BY AcceptedRoutes
<1>2. Given(routes.index, params)
  <2> SUFFICES ASSUME NEW i \in 1 .. Len(routes.index) PROVE routes.index[i].ph = "none"
    BY DEF Given
  <2>1. routes.index[i] \in Segments /\ DOMAIN routes.index = 1 .. Len(routes.index)
    BY <1>1, ElementOfSeq, LenProperties DEF Ready
  <2>2. Holding(routes.index, "type") = {} /\ Holding(routes.index, "id") = {}
    BY <1>1 DEF RequirePlaceholders
  <2>3. routes.index[i].ph # "type" /\ routes.index[i].ph # "id"
    BY <2>1, <2>2 DEF Holding
  <2> QED BY <2>1, <2>3 DEF Segments, Placeholders
<1> HIDE DEF routes
<1>3. Pathname(IndexPath(routes)) = IndexPath(routes) /\ PathMatches(routes.index, IndexPath(routes))
  BY <1>1, <1>2, BuiltPath DEF IndexPath
<1> QED BY <1>3, Zenon DEF Match, routes

LEMMA SitemapFound ==
  ASSUME NEW config \in Configs, Accepted(config), NEW type \in Types
  PROVE  LET routes == CompileRoutes(config)
             path == SitemapPath(routes, type)
         IN  /\ Match(routes, Pathname(path)) = [kind |-> "sitemap", type |-> type]
             /\ path # BuildPath(WellKnown, [type |-> <<>>])
<1> DEFINE routes == CompileRoutes(config)
           params == [type |-> type]
           path == BuildPath(routes.sitemap, params)
<1>1. /\ Ready(routes.sitemap) /\ RequirePlaceholders(routes.sitemap, {"type"}, {"id"})
      /\ Apart(routes.index, routes.sitemap) /\ Apart(routes.sitemap, WellKnown)
  BY AcceptedRoutes
<1>2. Given(routes.sitemap, params)
  <2> SUFFICES ASSUME NEW i \in 1 .. Len(routes.sitemap), routes.sitemap[i].ph # "none"
               PROVE  InGrammar(params[routes.sitemap[i].ph])
    BY DEF Given
  <2>1. routes.sitemap[i] \in Segments /\ DOMAIN routes.sitemap = 1 .. Len(routes.sitemap)
    BY <1>1, ElementOfSeq, LenProperties DEF Ready
  <2>2. Holding(routes.sitemap, "id") = {}
    BY <1>1 DEF RequirePlaceholders
  <2>3. routes.sitemap[i].ph # "id"
    BY <2>1, <2>2 DEF Holding
  <2>4. routes.sitemap[i].ph = "type"
    BY <2>1, <2>3 DEF Segments, Placeholders
  <2> QED BY <2>4, NamesAssumption
<1>3. path = SitemapPath(routes, type) /\ params["type"] = type
  BY DEF SitemapPath
<1> HIDE DEF routes, params
<1>4. /\ path \in Seq(Seq(Chars)) /\ Pathname(path) = path /\ PathMatches(routes.sitemap, path)
  BY <1>1, <1>2, BuiltPath
<1>5. Cardinality(Holding(routes.sitemap, "type")) = 1
  BY <1>1 DEF RequirePlaceholders
<1>6. ParamOf(routes.sitemap, path, "type") = type
  BY <1>1, <1>2, <1>3, <1>5, ReadBack DEF Placeholders
<1> HIDE DEF path
<1>7. ~PathMatches(routes.index, path) /\ ~PathMatches(WellKnown, path)
  BY <1>1, <1>4 DEF Apart
<1>8. Match(routes, path) = [kind |-> "sitemap", type |-> ParamOf(routes.sitemap, path, "type")]
  BY <1>4, <1>7, Zenon DEF Match
<1>9. PathMatches(WellKnown, BuildPath(WellKnown, [type |-> <<>>]))
  <2>1. Given(WellKnown, [type |-> <<>>])
    <3>1. Len(WellKnown) = 2 /\ WellKnown[1].ph = "none" /\ WellKnown[2].ph = "none"
      BY DEF WellKnown, LiteralSegment
    <3>2. \A i \in 1 .. 2 : i = 1 \/ i = 2
      OBVIOUS
    <3> QED BY <3>1, <3>2 DEF Given
  <2> QED BY <2>1, WellKnownReady, BuiltPath
<1> QED BY <1>3, <1>4, <1>6, <1>7, <1>8, <1>9 DEF routes

LEMMA EntityFound ==
  ASSUME NEW config \in Configs, Accepted(config), NEW type \in Types, NEW id \in IdSet
  PROVE  LET routes == CompileRoutes(config)
         IN  Match(routes, Pathname(EntityPath(routes, type, id))) = [kind |-> "entity", type |-> type, id |-> id]
<1> DEFINE routes == CompileRoutes(config)
           params == [type |-> type, id |-> id]
           path == BuildPath(routes.entity, params)
<1>1. /\ Ready(routes.entity) /\ RequirePlaceholders(routes.entity, {"type", "id"}, {})
      /\ Apart(routes.index, routes.entity) /\ Apart(routes.sitemap, routes.entity)
  BY AcceptedRoutes
<1>2. Given(routes.entity, params)
  <2> SUFFICES ASSUME NEW i \in 1 .. Len(routes.entity), routes.entity[i].ph # "none"
               PROVE  InGrammar(params[routes.entity[i].ph])
    BY DEF Given
  <2>1. routes.entity[i] \in Segments
    BY <1>1, ElementOfSeq DEF Ready
  <2>2. routes.entity[i].ph \in {"type", "id"}
    BY <2>1 DEF Segments, Placeholders
  <2>3. InGrammar(type) /\ InGrammar(id)
    BY NamesAssumption DEF IdSet
  <2> QED BY <2>2, <2>3
<1>3. path = EntityPath(routes, type, id) /\ params["type"] = type /\ params["id"] = id
  BY DEF EntityPath
<1> HIDE DEF routes, params
<1>4. /\ path \in Seq(Seq(Chars)) /\ Pathname(path) = path /\ PathMatches(routes.entity, path)
  BY <1>1, <1>2, BuiltPath
<1>5. /\ Cardinality(Holding(routes.entity, "type")) = 1
      /\ Cardinality(Holding(routes.entity, "id")) = 1
  BY <1>1 DEF RequirePlaceholders
<1>6. ParamOf(routes.entity, path, "type") = type /\ ParamOf(routes.entity, path, "id") = id
  BY <1>1, <1>2, <1>3, <1>5, ReadBack DEF Placeholders
<1> HIDE DEF path
<1>7. ~PathMatches(routes.index, path) /\ ~PathMatches(routes.sitemap, path)
  BY <1>1, <1>4 DEF Apart
<1>8. Match(routes, path) = [kind |-> "entity", type |-> ParamOf(routes.entity, path, "type"),
                             id |-> ParamOf(routes.entity, path, "id")]
  BY <1>4, <1>7, Zenon DEF Match
<1> QED BY <1>3, <1>4, <1>6, <1>8 DEF routes

Configured == raw \in Configs /\ Accepted(raw)

\* A deployment keeps the routes it was configured with.
LEMMA ConfiguredStays == Spec => []Configured
<1>1. Init => Configured
  BY DEF Init, Configured
<1>2. Next => raw' = raw
  <2> SUFFICES ASSUME Next PROVE raw' = raw
    OBVIOUS
  <2>1. ASSUME NEW request, NEW response, Asked(request, response) PROVE raw' = raw
    BY <2>1 DEF Asked
  <2> QED BY <2>1, EveryAskIsAnswered DEF Update, SharedHit
<1>3. Configured /\ [Next]_vars => Configured'
  BY <1>2 DEF Configured, vars
<1> QED BY <1>1, <1>3, PTL DEF Spec

\* Whatever templates are accepted, every URL the server publishes is matched
\* back to the document it was built for (routes.ts compileTemplate, runtime.ts handleRequest).
THEOREM RoutesRoundTripAlways == Spec => []RoutesRoundTrip
<1>1. Configured => RoutesRoundTrip
  BY IndexFound, SitemapFound, EntityFound DEF Configured, RoutesRoundTrip, Config
<1> QED BY <1>1, ConfiguredStays, PTL

-----------------------------------------------------------------------------
(* Pagination.                                                             *)

LEMMA ListedIsSeq ==
  ASSUME NEW type
  PROVE  \E S : Listed(type) \in Seq(S)
<1> DEFINE present == {i \in DOMAIN Ids : store[type][Ids[i]] # None}
           n == Cardinality(present)
           at(k) == Ids[CHOOSE i \in present : Cardinality({j \in present : j <= i}) = k]
           S == {at(k) : k \in 1 .. n}
<1>1. n \in Nat
  <2>1. DOMAIN Ids = 1 .. Len(Ids) /\ Len(Ids) \in Nat
    BY NamesAssumption
  <2>2. IsFiniteSet(DOMAIN Ids)
    BY <2>1, FS_Interval
  <2>3. present \in SUBSET DOMAIN Ids
    OBVIOUS
  <2> HIDE DEF present
  <2> QED BY <2>2, <2>3, FS_Subset, FS_CardinalityType
<1>2. Listed(type) = [k \in 1 .. n |-> at(k)]
  BY Zenon DEF Listed
<1> HIDE DEF n, at
<1>3. [k \in 1 .. n |-> at(k)] \in [1 .. n -> S]
  OBVIOUS
<1> HIDE DEF S
<1>4. Listed(type) \in Seq(S)
  BY <1>1, <1>2, <1>3
<1> QED BY <1>4

\* The application's pages of one list.
NextAt(list, r)  == IF Len(list) > (r + 1) * PageSize THEN r + 1 ELSE None
EndAt(list, r)   == IF NextAt(list, r) = None THEN Len(list) ELSE (r + 1) * PageSize
PageAt(list, r)  == SubSeq(list, r * PageSize + 1, EndAt(list, r))

LEMMA PagesOfListed ==
  ASSUME NEW type, NEW r
  PROVE  /\ NextRaw(type, r) = NextAt(Listed(type), r)
         /\ PageEnd(type, r) = EndAt(Listed(type), r)
         /\ PageFrom(type, r) = PageAt(Listed(type), r)
BY Zenon DEF NextRaw, PageEnd, PageFrom, NextAt, EndAt, PageAt

OwnCursors(type) == [type : {type}, version : {Version}, raw : Nat]

LEMMA OwnIsCursor ==
  ASSUME NEW type \in Types, NEW raw_ \in Nat
  PROVE  /\ EncodeCursor(type, raw_) \in OwnCursors(type) /\ EncodeCursor(type, raw_).raw = raw_
         /\ OwnCursors(type) \subseteq Cursors /\ None \notin OwnCursors(type) /\ raw_ # None
<1>1. EncodeCursor(type, raw_) \in OwnCursors(type) /\ EncodeCursor(type, raw_).raw = raw_
  BY DEF EncodeCursor, OwnCursors
<1>2. OwnCursors(type) \subseteq Cursors
  BY DEF OwnCursors, Cursors
<1> QED BY <1>1, <1>2, NoneAssumption

LEMMA Bounds ==
  ASSUME NEW S, NEW list \in Seq(S), NEW r \in Nat
  PROVE  /\ r * PageSize \in Nat /\ (r + 1) * PageSize \in Nat /\ r * PageSize <= (r + 1) * PageSize
         /\ Len(list) \in Nat /\ EndAt(list, r) \in 0 .. Len(list)
         /\ NextAt(list, r) \in Nat \cup {None}
         /\ NextAt(list, r) # None => NextAt(list, r) = r + 1 /\ EndAt(list, r) = (r + 1) * PageSize
         /\ NextAt(list, r) = None => EndAt(list, r) = Len(list) /\ Len(list) <= (r + 1) * PageSize
<1> DEFINE a == r * PageSize
           b == (r + 1) * PageSize
<1>1. PageSize \in Nat /\ Len(list) \in Nat
  BY BoundsAssumption, LenProperties
<1>2. a \in Nat /\ b \in Nat /\ a <= b
  BY <1>1
<1> HIDE DEF a, b
<1>3. r + 1 \in Nat /\ r + 1 # None
  BY NoneAssumption
<1>4. /\ NextAt(list, r) = IF Len(list) > b THEN r + 1 ELSE None
      /\ EndAt(list, r) = IF NextAt(list, r) = None THEN Len(list) ELSE b
  BY DEF NextAt, EndAt, b
<1> QED BY <1>1, <1>2, <1>3, <1>4 DEF a, b

\* What a reader has of a list: nothing yet, the pages up to the one its cursor
\* is for, or, when the list changed on the way, whatever it got.
Paged(list, type, w) ==
  \E r \in Nat : w.seen = SubSeq(list, 1, EndAt(list, r)) /\ w.next = NextCursor(type, NextAt(list, r))

WalkOf(list, type, w) ==
  /\ w.next # None => w.next \in OwnCursors(type)
  /\ ~w.started => w.next = None /\ w.seen = <<>> /\ ~w.dirty
  /\ w.started /\ ~w.dirty => Paged(list, type, w)

\* The next page, of the right list and from where the last one ended.
LEMMA NextPage ==
  ASSUME NEW S, NEW list \in Seq(S), NEW type \in Types, NEW w, NEW v, NEW raw_ \in Nat,
         WalkOf(list, type, w),
         w.started => w.next # None /\ w.next.raw = raw_,
         ~w.started => raw_ = 0,
         v.started, v.dirty = w.dirty,
         v.seen = w.seen \o PageAt(list, raw_),
         v.next = NextCursor(type, NextAt(list, raw_))
  PROVE  WalkOf(list, type, v)
<1>1. NextAt(list, raw_) \in Nat \cup {None}
  BY Bounds
<1>2. v.next # None => v.next \in OwnCursors(type)
  BY <1>1, OwnIsCursor DEF NextCursor
<1>3. CASE ~w.started
  <2>1. w.seen = <<>> /\ raw_ = 0
    BY <1>3 DEF WalkOf
  <2> DEFINE n == EndAt(list, 0)
             p == SubSeq(list, 1, n)
  <2>2. PageAt(list, 0) = p
    <3>1. 0 * PageSize + 1 = 1
      BY BoundsAssumption
    <3> QED BY <3>1 DEF PageAt
  <2>3. n \in 0 .. Len(list) /\ Len(list) \in Nat
    BY Bounds
  <2> HIDE DEF n
  <2>4. p \in Seq(S)
    <3>1. \A i \in 1 .. n : list[i] \in S
      BY <2>3, ElementOfSeq
    <3> QED BY <2>3, <3>1, SubSeqProperties
  <2>5. <<>> \o p = p
    BY <2>4, ConcatEmptySeq
  <2> HIDE DEF p
  <2>6. v.seen = p
    BY <2>1, <2>2, <2>5
  <2>7. Paged(list, type, v)
    BY <2>1, <2>6 DEF Paged, p, n
  <2> QED BY <1>2, <2>7 DEF WalkOf
<1>4. CASE w.started /\ ~w.dirty
  <2>1. PICK r \in Nat : w.seen = SubSeq(list, 1, EndAt(list, r)) /\ w.next = NextCursor(type, NextAt(list, r))
    BY <1>4 DEF WalkOf, Paged
  <2>2. w.next # None /\ w.next.raw = raw_
    BY <1>4
  <2>3. NextAt(list, r) # None
    BY <2>1, <2>2 DEF NextCursor
  <2>4. NextAt(list, r) = r + 1 /\ EndAt(list, r) = (r + 1) * PageSize
    BY <2>3, Bounds
  <2>5. raw_ = r + 1
    <3>1. w.next = EncodeCursor(type, r + 1)
      BY <2>1, <2>3, <2>4 DEF NextCursor
    <3> QED BY <2>2, <3>1 DEF EncodeCursor
  <2> DEFINE k == EndAt(list, r)
             n == EndAt(list, raw_)
  <2>6. k = raw_ * PageSize
    BY <2>4, <2>5
  <2>7. /\ k \in 0 .. Len(list) /\ n \in 0 .. Len(list) /\ Len(list) \in Nat
    BY Bounds
  <2>8. k <= n
    <3>1. CASE NextAt(list, raw_) = None
      BY <2>7, <3>1, Bounds
    <3>2. CASE NextAt(list, raw_) # None
      BY <2>6, <3>2, Bounds
    <3> QED BY <3>1, <3>2
  <2>9. PageAt(list, raw_) = SubSeq(list, k + 1, n)
    BY <2>6 DEF PageAt
  <2>10. w.seen = SubSeq(list, 1, k)
    BY <2>1
  <2> HIDE DEF k, n
  <2>11. SubSeq(list, 1, k) \o SubSeq(list, k + 1, n) = SubSeq(list, 1, n)
    <3>1. 1 \in 1 .. Len(list) + 1 /\ k \in 1 - 1 .. Len(list) /\ n \in k .. Len(list)
      BY <2>7, <2>8
    <3> QED BY <3>1, ConcatAdjacentSubSeq
  <2>12. v.seen = SubSeq(list, 1, n)
    BY <2>9, <2>10, <2>11
  <2>13. Paged(list, type, v)
    BY <2>12 DEF Paged, n
  <2> QED BY <1>2, <2>13 DEF WalkOf
<1>5. CASE w.started /\ w.dirty
  BY <1>2, <1>5 DEF WalkOf
<1> QED BY <1>3, <1>4, <1>5

\* A page is answered with the items that start where its cursor says.
LEMMA PageAnswered ==
  ASSUME Configured, NEW who, NEW type \in Types, NEW cursor, NEW fault,
         HandleRequest(Request(who, SitemapPath(Config, type), cursor), fault).status = 200
  PROVE  /\ cursor # None => ~CursorRejected(type, cursor)
         /\ HandleRequest(Request(who, SitemapPath(Config, type), cursor), fault).body
              = SitemapDoc(type, IF cursor = None THEN 0 ELSE cursor.raw, who)
<1> DEFINE path == SitemapPath(Config, type)
           request == Request(who, path, cursor)
           doc == SitemapDoc(type, IF cursor = None THEN 0 ELSE cursor.raw, who)
           response == HandleRequest(request, fault)
<1>1. Match(Config, Pathname(path)) = [kind |-> "sitemap", type |-> type] /\ path # ManifestPath
  BY SitemapFound DEF Configured, Config, ManifestPath
<1>2. /\ request.method = "GET" /\ request.who = who /\ request.path = path
      /\ request.cursor = cursor /\ request.condition = {}
  BY DEF Request
<1>3. response.status = 200
  OBVIOUS
<1> HIDE DEF path, request
<1>4. response = HandleGet(request, Match(Config, Pathname(path)), fault)
  BY <1>2, Zenon DEF HandleRequest
<1> DEFINE match == [kind |-> "sitemap", type |-> type]
<1>5. match.kind = "sitemap" /\ match.type = type
  OBVIOUS
<1> HIDE DEF match
<1>6. HandleGet(request, match, fault) = Sitemap(request, match.type, fault)
  BY <1>1, <1>2, <1>5, Zenon DEF HandleGet, ManifestPath
<1>7. response = Sitemap(request, type, fault)
  BY <1>1, <1>4, <1>5, <1>6 DEF match
<1> HIDE DEF response
<1>8. Answered(Sitemap(request, type, fault))
  BY <1>3, <1>7 DEF Answered
<1>9. response = CacheableResponse(request, doc, CacheControlFor(type))
  BY <1>2, <1>7, <1>8, SitemapAnswers
<1>10. cursor # None => ~CursorRejected(type, cursor)
  BY <1>2, <1>8, FailuresAnswerNothing, Zenon DEF Sitemap
<1> HIDE DEF doc
<1>11. ~IfNoneMatchHits(request.condition, Checksum(doc))
  BY <1>2 DEF IfNoneMatchHits
<1>12. response.body = doc
  BY <1>9, <1>11 DEF CacheableResponse
<1> QED BY <1>10, <1>12 DEF response, request, path, doc

\* What a page tells a reader: the ids of its items and the cursor of the next.
LEMMA PageSays ==
  ASSUME NEW type, NEW raw_ \in Nat, NEW who
  PROVE  LET doc == SitemapDoc(type, raw_, who)
         IN  /\ [i \in DOMAIN doc.covered |-> doc.covered[i].id] = PageAt(Listed(type), raw_)
             /\ doc.next = NextCursor(type, NextAt(Listed(type), raw_))
<1> DEFINE page == PageFrom(type, raw_)
           doc == SitemapDoc(type, raw_, who)
<1>1. page = PageAt(Listed(type), raw_) /\ NextRaw(type, raw_) = NextAt(Listed(type), raw_)
  BY PagesOfListed
<1>2. PICK S : Listed(type) \in Seq(S)
  BY ListedIsSeq
<1>3. page \in Seq(S)
  <2> DEFINE list == Listed(type)
             m == raw_ * PageSize + 1
             n == EndAt(list, raw_)
  <2>1. n \in 0 .. Len(list) /\ Len(list) \in Nat /\ m \in Nat \ {0}
    <3>1. raw_ * PageSize \in Nat /\ n \in 0 .. Len(list) /\ Len(list) \in Nat
      BY <1>2, Bounds
    <3>2. \A a \in Nat : a + 1 \in Nat \ {0}
      OBVIOUS
    <3> QED BY <3>1, <3>2, Zenon
  <2>2. PageAt(list, raw_) = SubSeq(list, m, n)
    BY DEF PageAt
  <2>3. list \in Seq(S)
    BY <1>2
  <2> HIDE DEF list, m, n
  <2>4. \A i \in m .. n : list[i] \in S
    BY <2>1, <2>3, ElementOfSeq
  <2>5. SubSeq(list, m, n) \in Seq(S)
    BY <2>1, <2>4, SubSeqProperties
  <2> QED BY <1>1, <2>2, <2>5 DEF list
<1>4. [i \in DOMAIN page |-> page[i]] = page
  BY <1>3, LenProperties
<1>5. doc.next = NextCursor(type, NextRaw(type, raw_))
  BY DEF SitemapDoc
<1>6. DOMAIN doc.covered = DOMAIN page /\ \A i \in DOMAIN page : doc.covered[i].id = page[i]
  BY DEF SitemapDoc
<1> HIDE DEF page, doc
<1>7. [i \in DOMAIN doc.covered |-> doc.covered[i].id] = page
  BY <1>4, <1>6
<1> QED BY <1>1, <1>5, <1>7 DEF doc

Fields == {"seen", "next", "started", "dirty"}

WalksInv ==
  /\ DOMAIN walk = Types /\ DOMAIN store = Types
  /\ \A type \in Types : DOMAIN walk[type] = Fields /\ WalkOf(Listed(type), type, walk[type])

\* A list changes with the records of its own type alone.
LEMMA ListedStays ==
  ASSUME NEW type, store'[type] = store[type]
  PROVE  Listed(type)' = Listed(type)
<1> DEFINE present == {i \in DOMAIN Ids : store[type][Ids[i]] # None}
<1>1. present' = present
  OBVIOUS
<1>2. Listed(type) = [n \in 1 .. Cardinality(present) |->
                        Ids[CHOOSE i \in present : Cardinality({j \in present : j <= i}) = n]]
  BY DEF Listed
<1>3. Listed(type)' = [n \in 1 .. Cardinality(present') |->
                         Ids[CHOOSE i \in present' : Cardinality({j \in present' : j <= i}) = n]]
  BY DEF Listed
<1> HIDE DEF present
<1> QED BY <1>1, <1>2, <1>3

LEMMA WalkAfter ==
  ASSUME NEW type
  PROVE  (WalkOf(Listed(type), type, walk[type]))' <=> WalkOf(Listed(type)', type, walk'[type])
BY Zenon DEF WalkOf, Paged, EndAt, NextAt, NextCursor, OwnCursors, EncodeCursor

\* The application and its own reader alone disturb a pagination.
LEMMA WalksStep ==
  ASSUME WalksInv, DOMAIN walk' = Types, DOMAIN store' = Types, NEW type \in Types,
         \A t \in Types : t # type => walk'[t] = walk[t] /\ store'[t] = store[t],
         DOMAIN walk'[type] = Fields, WalkOf(Listed(type)', type, walk'[type])
  PROVE  WalksInv'
<1>1. ASSUME NEW t \in Types
      PROVE  DOMAIN walk'[t] = Fields /\ (WalkOf(Listed(t), t, walk[t]))'
  <2>1. CASE t = type
    BY <2>1, WalkAfter
  <2>2. CASE t # type
    <3>1. walk'[t] = walk[t] /\ store'[t] = store[t]
      BY <2>2
    <3>2. Listed(t)' = Listed(t)
      BY <3>1, ListedStays
    <3>3. DOMAIN walk[t] = Fields /\ WalkOf(Listed(t), t, walk[t])
      BY DEF WalksInv
    <3> QED BY <3>1, <3>2, <3>3, WalkAfter
  <2> QED BY <2>1, <2>2
<1> QED BY <1>1 DEF WalksInv

LEMMA WalksStay ==
  ASSUME WalksInv, UNCHANGED <<walk, store>>
  PROVE  WalksInv'
<1>1. ASSUME NEW t \in Types
      PROVE  DOMAIN walk'[t] = Fields /\ (WalkOf(Listed(t), t, walk[t]))'
  <2>1. Listed(t)' = Listed(t) /\ walk'[t] = walk[t]
    BY ListedStays
  <2>2. DOMAIN walk[t] = Fields /\ WalkOf(Listed(t), t, walk[t])
    BY DEF WalksInv
  <2> QED BY <2>1, <2>2, WalkAfter
<1> QED BY <1>1 DEF WalksInv

LEMMA UpdateWalks ==
  ASSUME WalksInv, NEW type \in Types, NEW id \in IdSet, Update(type, id)
  PROVE  WalksInv'
<1>1. PICK record : store' = [store EXCEPT ![type][id] = record]
  BY Zenon DEF Update
<1>2. walk' = [walk EXCEPT ![type].dirty = walk[type].started]
  BY DEF Update
<1>3. /\ DOMAIN walk = Types /\ DOMAIN store = Types
      /\ DOMAIN walk[type] = Fields /\ WalkOf(Listed(type), type, walk[type])
  BY DEF WalksInv
<1>4. /\ DOMAIN walk' = Types /\ DOMAIN store' = Types
      /\ \A t \in Types : t # type => walk'[t] = walk[t] /\ store'[t] = store[t]
  BY <1>1, <1>2, <1>3
<1> DEFINE w == walk[type]
           v == walk'[type]
<1>5. v = [w EXCEPT !.dirty = w.started]
  BY <1>2, <1>3
<1>6. /\ DOMAIN v = Fields /\ v.seen = w.seen /\ v.next = w.next /\ v.started = w.started
      /\ v.dirty = w.started
  BY <1>3, <1>5 DEF Fields
<1>7. WalkOf(Listed(type), type, w)
  BY <1>3
<1> HIDE DEF w, v
<1>8. WalkOf(Listed(type)', type, v)
  <2>1. v.next # None => v.next \in OwnCursors(type)
    BY <1>6, <1>7, Zenon DEF WalkOf
  <2>2. ~v.started => v.next = None /\ v.seen = <<>> /\ ~v.dirty
    BY <1>6, <1>7, Zenon DEF WalkOf
  <2>3. ~(v.started /\ ~v.dirty)
    BY <1>6, Zenon
  <2> QED BY <2>1, <2>2, <2>3, Zenon DEF WalkOf
<1> QED BY <1>4, <1>6, <1>8, WalksStep DEF v

\* Of all the cursors a reader tries, its own is the only one that is answered.
LEMMA OnlyItsOwn ==
  ASSUME WalksInv, NEW type \in Types, NEW cursor \in Strays(type) \cup {walk[type].next},
         walk[type].next # None, cursor # None => ~CursorRejected(type, cursor)
  PROVE  cursor = walk[type].next
<1>1. CASE cursor = Malformed
  <2>1. Malformed \in Cursors /\ Malformed.raw = None
    BY DEF Malformed, Cursors
  <2>2. cursor # None
    BY <1>1, <2>1, NoneAssumption
  <2> QED BY <1>1, <2>1, <2>2 DEF CursorRejected
<1>2. CASE cursor = [EncodeCursor(type, 2) EXCEPT !.version = "0.1"]
  <2>1. cursor \in Cursors /\ cursor.version = "0.1"
    BY <1>2 DEF EncodeCursor, Cursors
  <2>2. cursor # None
    BY <2>1, NoneAssumption
  <2>3. "0.1" # Version
    BY DEF Version
  <2> QED BY <2>1, <2>2, <2>3 DEF CursorRejected
<1>3. CASE \E t \in Types : walk[t].next # None /\ cursor = walk[t].next
  <2>1. PICK t \in Types : walk[t].next # None /\ cursor = walk[t].next
    BY <1>3
  <2>2. cursor \in OwnCursors(t)
    BY <2>1 DEF WalksInv, WalkOf
  <2>3. cursor.type = t
    BY <2>2 DEF OwnCursors
  <2>4. cursor.type = type
    BY <2>1 DEF CursorRejected
  <2> QED BY <2>1, <2>3, <2>4
<1>4. CASE cursor = walk[type].next
  BY <1>4
<1> QED BY <1>1, <1>2, <1>3, <1>4 DEF Strays

LEMMA PageWalks ==
  ASSUME WalksInv, Configured, NEW who, NEW type \in Types, AskPage(who, type)
  PROVE  WalksInv'
<1>1. ~walk[type].started \/ walk[type].next # None
  BY DEF AskPage
<1>2. PICK cursor \in IF walk[type].started THEN Strays(type) \cup {walk[type].next} ELSE {None}, fault \in SitemapFaults :
        LET request == Request(who, SitemapPath(Config, type), cursor)
            response == HandleRequest(request, fault)
        IN  /\ Asked(request, response)
            /\ walk' = [walk EXCEPT ![type] = TurnPage(type, response)]
  BY Zenon DEF AskPage
<1> DEFINE response == HandleRequest(Request(who, SitemapPath(Config, type), cursor), fault)
           raw_ == IF cursor = None THEN 0 ELSE cursor.raw
           doc == SitemapDoc(type, raw_, who)
           w == walk[type]
           v == walk'[type]
<1>3. store' = store /\ walk' = [walk EXCEPT ![type] = TurnPage(type, response)]
  BY <1>2, Zenon DEF Asked
<1>4. /\ DOMAIN walk = Types /\ DOMAIN store = Types
      /\ DOMAIN w = Fields /\ WalkOf(Listed(type), type, w)
  BY DEF WalksInv
<1>5. response.status = 200 => (cursor # None => ~CursorRejected(type, cursor)) /\ response.body = doc
  BY PageAnswered
<1> HIDE DEF response
<1>6. /\ DOMAIN walk' = Types /\ DOMAIN store' = Types
      /\ \A t \in Types : t # type => walk'[t] = walk[t] /\ store'[t] = store[t]
      /\ v = TurnPage(type, response)
  BY <1>3, <1>4
<1>7. Listed(type)' = Listed(type)
  BY <1>3, ListedStays
<1>8. CASE response.status # 200
  <2>1. v = w
    BY <1>6, <1>8 DEF TurnPage
  <2>2. DOMAIN v = Fields /\ WalkOf(Listed(type)', type, v)
    BY <1>4, <1>7, <2>1
  <2> QED BY <1>6, <2>2, WalksStep
<1>9. CASE response.status = 200
  <2>1. w.started => cursor = w.next
    BY <1>1, <1>2, <1>5, <1>9, OnlyItsOwn
  <2>2. ~w.started => cursor = None
    BY <1>2
  <2>3. w.started => w.next # None
    BY <1>1
  <2>4. w.started => w.next.raw = raw_
    BY <2>1, <2>3
  <2>5. ~w.started => raw_ = 0
    BY <2>2
  <2>6. raw_ \in Nat
    <3>1. w.started => w.next \in OwnCursors(type)
      BY <1>4, <2>3 DEF WalkOf
    <3>2. w.started => w.next.raw \in Nat
      BY <3>1 DEF OwnCursors
    <3> QED BY <2>4, <2>5, <3>2
  <2> DEFINE page == [i \in DOMAIN doc.covered |-> doc.covered[i].id]
  <2>7. page = PageAt(Listed(type), raw_) /\ doc.next = NextCursor(type, NextAt(Listed(type), raw_))
    BY <2>6, PageSays
  <2>8. v = [w EXCEPT !.started = TRUE, !.next = doc.next, !.seen = @ \o page]
    BY <1>5, <1>6, <1>9 DEF TurnPage
  <2> HIDE DEF doc, page, raw_, w, v
  <2>9. /\ DOMAIN v = Fields /\ v.started = TRUE /\ v.next = doc.next /\ v.seen = w.seen \o page
        /\ v.dirty = w.dirty
    BY <1>4, <2>8 DEF Fields
  <2>10. PICK S : Listed(type) \in Seq(S)
    BY ListedIsSeq
  <2>11. WalkOf(Listed(type), type, v)
    <3>1. v.started /\ v.seen = w.seen \o PageAt(Listed(type), raw_)
          /\ v.next = NextCursor(type, NextAt(Listed(type), raw_))
      BY <2>7, <2>9
    <3> QED BY <1>4, <2>3, <2>4, <2>5, <2>6, <2>9, <2>10, <3>1, NextPage
  <2>12. WalkOf(Listed(type)', type, v)
    BY <1>7, <2>11
  <2> QED BY <1>6, <2>9, <2>12, WalksStep DEF v
<1> QED BY <1>8, <1>9

LEMMA WalksInductive == Spec => []WalksInv
<1>1. Init => WalksInv
  <2> SUFFICES ASSUME Init PROVE WalksInv
    OBVIOUS
  <2>1. DOMAIN walk = Types /\ DOMAIN store = Types
    BY DEF Init
  <2>2. ASSUME NEW type \in Types
        PROVE  DOMAIN walk[type] = Fields /\ WalkOf(Listed(type), type, walk[type])
    <3>1. walk[type] = FreshWalk
      BY DEF Init
    <3> QED BY <3>1 DEF FreshWalk, Fields, WalkOf
  <2> QED BY <2>1, <2>2 DEF WalksInv
<1>2. WalksInv /\ Configured /\ [Next]_vars => WalksInv'
  <2> SUFFICES ASSUME WalksInv, Configured, [Next]_vars PROVE WalksInv'
    OBVIOUS
  <2>1. CASE \E type \in Types, id \in IdSet : Update(type, id)
    BY <2>1, UpdateWalks
  <2>2. CASE \E who \in Principals, type \in Types, id \in IdSet : AskEntity(who, type, id)
    BY <2>2, WalksStay DEF AskEntity, Asked
  <2>3. CASE \E who \in Principals, type \in Types : AskPage(who, type)
    BY <2>3, PageWalks
  <2>4. CASE \E who \in Principals, path \in OtherPaths : AskOther(who, "GET", path)
    BY <2>4, WalksStay DEF AskOther, Asked
  <2>5. CASE \E who \in Principals, method \in {"POST", "OPTIONS"} : AskOther(who, method, IndexPath(Config))
    BY <2>5, WalksStay DEF AskOther, Asked
  <2>6. CASE \E who \in Principals : Revalidate(who)
    BY <2>6, WalksStay DEF Revalidate, Asked
  <2>7. CASE \E who \in Principals : SharedHit(who)
    BY <2>7, WalksStay DEF SharedHit
  <2>8. CASE UNCHANGED vars
    BY <2>8, WalksStay DEF vars
  <2> QED BY <2>1, <2>2, <2>3, <2>4, <2>5, <2>6, <2>7, <2>8 DEF Next
<1> QED BY <1>1, <1>2, ConfiguredStays, PTL DEF Spec

\* A pagination of a list that did not change ends with every item once, in
\* order, whatever stray cursors were tried on the way (cursor.ts
\* decodeCursor, runtime.ts sitemap).
THEOREM PagesCompleteAlways == Spec => []PagesComplete
<1>1. WalksInv => PagesComplete
  <2> SUFFICES ASSUME WalksInv, NEW type \in Types, walk[type].started, walk[type].next = None, ~walk[type].dirty
               PROVE  walk[type].seen = Listed(type)
    BY DEF PagesComplete
  <2>1. PICK S : Listed(type) \in Seq(S)
    BY ListedIsSeq
  <2>2. PICK r \in Nat : /\ walk[type].seen = SubSeq(Listed(type), 1, EndAt(Listed(type), r))
                         /\ walk[type].next = NextCursor(type, NextAt(Listed(type), r))
    BY DEF WalksInv, WalkOf, Paged
  <2>3. NextAt(Listed(type), r) = None
    BY <2>1, <2>2, Bounds, OwnIsCursor DEF NextCursor
  <2>4. EndAt(Listed(type), r) = Len(Listed(type))
    BY <2>1, <2>3, Bounds
  <2> QED BY <2>1, <2>2, <2>4, SubSeqFull
<1> QED BY <1>1, WalksInductive, PTL
=============================================================================
