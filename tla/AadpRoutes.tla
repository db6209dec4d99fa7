----------------------------- MODULE AadpRoutes -----------------------------
(***************************************************************************)
(* The route templates of the server runtime (server/routes.ts): one       *)
(* template compiled into a URL builder and into an inbound matcher.  Text *)
(* is a sequence of characters; a raw character the URL parser would       *)
(* percent-encode is " ", and its encoded form "%20" is one character.     *)
(* A template is a sequence of segments [pre, ph, suf]: the literal before *)
(* the placeholder, the placeholder or "none", the literal after it.       *)
(***************************************************************************)
EXTENDS Integers, Sequences, FiniteSets, SequencesExt

CONSTANTS Chars,     \* the characters of a path and of a template
          Letters    \* those that types and ids are made of

\* The grammar of types and ids has no dot and nothing that is percent-encoded.
ASSUME CharsAssumption ==
  /\ {" ", "%20", ".", "%2e", "w", "m"} \subseteq Chars
  /\ Letters \subseteq Chars \ {" ", "%20", ".", "%2e"}

Placeholders == {"type", "id"}
Segments == [pre : Seq(Chars), ph : Placeholders \cup {"none"}, suf : Seq(Chars)]

\* What new URL() and the compiler both do to one character of a path.
Encode(c) == IF c = " " THEN "%20" ELSE c
Canonical(text) == [i \in DOMAIN text |-> Encode(text[i])]

Decode(text) == [i \in DOMAIN text |-> CASE text[i] = "%20" -> " " [] text[i] = "%2e" -> "." [] OTHER -> text[i]]
IsDotSegment(text) == Decode(text) \in {<<".">>, <<".", ".">>}

Literal(segment) == segment.pre \o segment.suf
Holding(template, name) == {i \in DOMAIN template : template[i].ph = name}

\* The literal of every segment takes the form an inbound pathname will have.
Compile(template) ==
  [i \in DOMAIN template |-> [template[i] EXCEPT !.pre = Canonical(@), !.suf = Canonical(@)]]

WellFormed(template) ==
  /\ template # <<>>
  /\ \A i \in DOMAIN template :
       template[i].ph = "none" => Literal(template[i]) # <<>> /\ ~IsDotSegment(Literal(template[i]))

RequirePlaceholders(template, required, forbidden) ==
  /\ \A name \in required : Cardinality(Holding(template, name)) = 1
  /\ \A name \in forbidden : Holding(template, name) = {}

-----------------------------------------------------------------------------
(* Matching one segment: ^prefix(.+?)suffix$, or the literal itself.       *)

Captured(segment, text) == SubSeq(text, Len(segment.pre) + 1, Len(text) - Len(segment.suf))

SegmentMatches(segment, text) ==
  IF segment.ph = "none" THEN text = Literal(segment)
  ELSE /\ IsPrefix(segment.pre, text)
       /\ IsSuffix(segment.suf, text)
       /\ Len(text) > Len(segment.pre) + Len(segment.suf)

\* Mutant: two placeholders collide only when their affixes are equal.
SegmentsCouldCollide_Equal(a, b) ==
  CASE a.ph = "none" -> SegmentMatches(b, Literal(a))
    [] a.ph # "none" /\ b.ph = "none" -> SegmentMatches(a, Literal(b))
    [] OTHER -> a.pre = b.pre /\ a.suf = b.suf

\* Whether some inbound segment could satisfy both: exact but for two
\* placeholders, where nested prefixes and suffixes are enough.
SegmentsCouldCollide(a, b) ==
  CASE a.ph = "none" -> SegmentMatches(b, Literal(a))
    [] a.ph # "none" /\ b.ph = "none" -> SegmentMatches(a, Literal(b))
    [] OTHER -> /\ IsPrefix(a.pre, b.pre) \/ IsPrefix(b.pre, a.pre)
                /\ IsSuffix(a.suf, b.suf) \/ IsSuffix(b.suf, a.suf)

TemplatesCouldCollide(a, b) ==
  /\ Len(a) = Len(b)
  /\ \A i \in DOMAIN a : SegmentsCouldCollide(a[i], b[i])

LiteralSegment(text) == [pre |-> text, ph |-> "none", suf |-> <<>>]
WellKnown == <<LiteralSegment(<<"w">>), LiteralSegment(<<"m">>)>>

\* What defineAADP() accepts of the three templates.
Accepted(raw) ==
  LET index == Compile(raw.index)
      sitemap == Compile(raw.sitemap)
      entity == Compile(raw.entity)
      checked == <<index, sitemap, entity, WellKnown>>
  IN  /\ WellFormed(raw.index) /\ WellFormed(raw.sitemap) /\ WellFormed(raw.entity)
      /\ RequirePlaceholders(index, {}, {"type", "id"})
      /\ RequirePlaceholders(sitemap, {"type"}, {"id"})
      /\ RequirePlaceholders(entity, {"type", "id"}, {})
      /\ \A i, j \in 1..4 : i < j => ~TemplatesCouldCollide(checked[i], checked[j])

CompileRoutes(raw) ==
  [index |-> Compile(raw.index), sitemap |-> Compile(raw.sitemap), entity |-> Compile(raw.entity)]

-----------------------------------------------------------------------------
(* Published paths, what the URL parser makes of them, and the matcher.    *)

SegmentText(segment, params) ==
  segment.pre \o (IF segment.ph = "none" THEN <<>> ELSE params[segment.ph]) \o segment.suf

BuildPath(template, params) == [i \in DOMAIN template |-> SegmentText(template[i], params)]

SitemapPath(routes, type) == BuildPath(routes.sitemap, [type |-> type])
EntityPath(routes, type, id) == BuildPath(routes.entity, [type |-> type, id |-> id])
IndexPath(routes) == BuildPath(routes.index, [type |-> <<>>])

\* new URL(): encodes every segment and resolves the segments that are dots, if any.
Resolved(path) == SelectSeq(path, LAMBDA text : ~IsDotSegment(text))
Pathname(path) ==
  LET encoded == [i \in DOMAIN path |-> Canonical(path[i])]
  IN  IF \E i \in DOMAIN path : IsDotSegment(encoded[i]) THEN Resolved(encoded) ELSE encoded

PathMatches(template, path) ==
  /\ Len(template) = Len(path)
  /\ \A i \in DOMAIN template : SegmentMatches(template[i], path[i])

ParamOf(template, path, name) ==
  LET i == CHOOSE i \in DOMAIN template : template[i].ph = name
  IN  Decode(Captured(template[i], path[i]))

NoRoute == [kind |-> "none"]

\* The templates are tried in a fixed order; the first that matches wins.
Match(routes, path) ==
  CASE PathMatches(routes.index, path) -> [kind |-> "sitemap-index"]
    [] ~PathMatches(routes.index, path) /\ PathMatches(routes.sitemap, path) ->
         [kind |-> "sitemap", type |-> ParamOf(routes.sitemap, path, "type")]
    [] ~PathMatches(routes.index, path) /\ ~PathMatches(routes.sitemap, path) /\ PathMatches(routes.entity, path) ->
         [kind |-> "entity", type |-> ParamOf(routes.entity, path, "type"), id |-> ParamOf(routes.entity, path, "id")]
    [] OTHER -> NoRoute
=============================================================================
