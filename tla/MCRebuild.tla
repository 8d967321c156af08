------------------------------ MODULE MCRebuild -----------------------------
(***************************************************************************)
(* Instances of PartitionedRebuild: two routes on two Gateways.            *)
(***************************************************************************)
EXTENDS PartitionedRebuild

Route(parents, targets, rules) == [parents |-> parents, targets |-> targets, rules |-> rules]
Listens(keys, cert) == [keys |-> keys, cert |-> cert]

MCRouteSpecs == {Route(<<"g1", "g2">>, <<"t">>, "some"), Route(<<"g2">>, <<"t", "t">>, "some"),
                 Route(<<"g1">>, <<>>, "none"), Route(<<"g1">>, <<>>, "broken")}
MCFrontSpecs == {Listens({"p1"}, "cert"), Listens({"p1", "p2"}, "none")}
MCFirstRev == [x \in {"ra", "rb", "g1", "g2", "t", "policies"} |->
                CASE x = "ra" -> 1 [] x = "rb" -> 2 [] x = "g1" -> 3 [] x = "g2" -> 4 [] x = "t" -> 5 [] OTHER -> 6]
MCFirstSpec == [x \in {"ra", "rb", "g1", "g2"} |->
                CASE x = "ra" -> Route(<<"g1", "g2">>, <<"t">>, "some") [] x = "rb" -> Route(<<"g2">>, <<"t">>, "some")
                  [] x = "g1" -> Listens({"p1"}, "cert") [] OTHER -> Listens({"p2"}, "none")]
=============================================================================
