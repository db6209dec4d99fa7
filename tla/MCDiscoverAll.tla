---------------------------- MODULE MCDiscoverAll ----------------------------
(***************************************************************************)
(* Publishers for DiscoverAll: an honest one, one whose cursors loop, one  *)
(* whose pages never end, one with a bad page and ones with bad entities.  *)
(***************************************************************************)
EXTENDS DiscoverAll

Doc(faults) == [faults |-> faults]
Served(id, faults) == [faults |-> faults, id |-> id, type |-> "t", checksum |-> "s"]
Item(id) == [id |-> id, checksum |-> "s", served |-> Served(id, {})]
Broken(id, faults) == [Item(id) EXCEPT !.served.faults = faults]
Stale(id) == [Item(id) EXCEPT !.served.checksum = "old"]
PageOf(list, next) == [faults |-> {}, type |-> "t", items |-> list, next |-> next]

Two == [type |-> "t", pages |-> ("first" :> PageOf(<<Item(1), Item(2)>>, "c1"))
                                  @@ ("c1" :> PageOf(<<Item(3)>>, None))]
One == [type |-> "t", pages |-> "first" :> PageOf(<<Item(4)>>, None)]
Loop == [type |-> "t", pages |-> ("first" :> PageOf(<<Item(1)>>, "c1"))
                                   @@ ("c1" :> PageOf(<<>>, "c2")) @@ ("c2" :> PageOf(<<Item(2)>>, "c1"))]
Endless == [type |-> "t", pages |-> ("first" :> PageOf(<<Item(1)>>, "c1")) @@ ("c1" :> PageOf(<<>>, "c2"))
             @@ ("c2" :> PageOf(<<>>, "c3")) @@ ("c3" :> PageOf(<<>>, "c4")) @@ ("c4" :> PageOf(<<>>, None))]
Lost == [type |-> "t", pages |-> ("first" :> PageOf(<<Item(1), Item(2)>>, "c1"))
                                   @@ ("c1" :> [PageOf(<<Item(3)>>, None) EXCEPT !.faults = {"status"}])]
Mistyped == [type |-> "u", pages |-> "first" :> PageOf(<<Item(1)>>, None)]
Bad(item) == [type |-> "t", pages |-> "first" :> PageOf(<<Item(1), item, Item(3), Item(4)>>, None)]

Site(sitemaps) == [manifest |-> Doc({}), index |-> Doc({}), sitemaps |-> sitemaps]

MCPublishers ==
  {Site(<<Two, One>>), Site(<<Loop>>), Site(<<Endless>>), Site(<<One, Lost>>), Site(<<Mistyped>>),
   Site(<<Bad(Broken(2, {"checksum"}))>>), Site(<<Bad(Stale(2))>>), Site(<<Bad([Item(2) EXCEPT !.served.type = "u"])>>), Site(<<>>),
   [Site(<<One>>) EXCEPT !.manifest.faults = {"semantics"}],
   [Site(<<One>>) EXCEPT !.index.faults = {"version", "schema"}]}

MCLimits ==
  {[pages |-> 3, entities |-> 9, requests |-> 99, sitemaps |-> 2],
   [pages |-> 9, entities |-> 2, requests |-> 99, sitemaps |-> 1],
   [pages |-> 3, entities |-> 9, requests |-> 5, sitemaps |-> 2]}
=============================================================================
