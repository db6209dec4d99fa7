-------------------------- MODULE MCPublishedServer --------------------------
(***************************************************************************)
(* Route templates for PublishedServer (accepted and rejected ones) and a  *)
(* site of one protected and one public type with three ids.                 *)
(***************************************************************************)
EXTENDS PublishedServer

Lit(text) == LiteralSegment(text)
Ph(pre, name, suf) == [pre |-> pre, ph |-> name, suf |-> suf]

Literals == {Lit(<<"a">>), Lit(<<"a", "b">>), Lit(<<" ">>), Lit(<<"%20">>), Lit(<<".">>), Lit(<<"%2e">>)}
Affixed(name) == {Ph(pre, name, suf) : pre \in {<<>>, <<"a">>, <<" ">>}, suf \in {<<>>, <<"b">>}}
First == {Lit(<<"a">>), Lit(<<" ">>)}

IndexTemplates == {<<l>> : l \in Literals} \cup {<<f, l>> : f \in First, l \in Literals}
SitemapTemplates ==
  {<<p>> : p \in Affixed("type")} \cup {<<f, p>> : f \in First, p \in Affixed("type")}
    \cup {<<p, f>> : p \in Affixed("type"), f \in First} \cup {<<Lit(<<"a">>)>>, <<Ph(<<>>, "id", <<>>)>>}
EntityTemplates ==
  {<<p, q>> : p \in {Ph(<<>>, "type", <<>>), Ph(<<"a">>, "type", <<"b">>)}, q \in Affixed("id")}
    \cup {<<q, p>> : p \in {Ph(<<>>, "type", <<>>)}, q \in Affixed("id")}
    \cup {<<Lit(<<" ">>), Ph(<<>>, "type", <<>>), Ph(<<>>, "id", <<>>)>>, <<Ph(<<>>, "type", <<>>)>>}

Defaults ==
  [index |-> <<Lit(<<"a">>), Lit(<<"a">>)>>,
   sitemap |-> <<Lit(<<"a">>), Lit(<<"b">>), Ph(<<>>, "type", <<"b">>)>>,
   entity |-> <<Lit(<<"a">>), Lit(<<" ">>), Ph(<<>>, "type", <<>>), Ph(<<>>, "id", <<"b">>)>>]

MCServed == {Defaults}
MCConfigs ==
  [index : IndexTemplates, sitemap : SitemapTemplates, entity : EntityTemplates] \cup MCServed

MCTypes == {<<"a">>, <<"a", "b">>}
MCIds == <<<<"b">>, <<"a", "b">>, <<"a">>>>
MCSchemeOf == (<<"a">> :> "api_key") @@ (<<"a", "b">> :> "none")
MCRecords == {None, [data |-> 0, ext |-> 0], [data |-> 1, ext |-> 0], [data |-> 0, ext |-> 1]}

Symmetry == Permutations(Principals)
=============================================================================
