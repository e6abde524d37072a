------------------------------ MODULE MCDaemon ------------------------------
(***************************************************************************)
(* An instance of Daemon: four destinations, one without a port and one    *)
(* whose address is too long for CONNECT, and three routing files, one of  *)
(* which cannot be loaded.                                                 *)
(***************************************************************************)
EXTENDS Daemon

MCDsts == {<<"h1", 80>>, <<"h1", 81>>, <<"h2">>, <<"h3", 80>>}

MCAddrOf(d) ==
  CASE d = <<"h1", 80>> -> <<1, 1>>
    [] d = <<"h1", 81>> -> <<1, 2>>
    [] d = <<"h2">>     -> <<2>>
    [] d = <<"h3", 80>> -> <<3, 3, 3>>

MCRoutes(f) ==
  CASE f = "f1"  -> <<Cidr({"h1", "h2", "h3"}, "p1"), Cidr({"h2"}, "p2"), Exact(<<"h1">>, "p2"),
                      Exact(<<"h1", 80>>, "p2"), Exact(<<"h1", 80>>, "p1")>>
    [] f = "f2"  -> <<Exact(<<"h1">>, "p1"), Cidr({"h1", "h2"}, "p2")>>
    [] f = "bad" -> <<Exact(<<"h1">>, "p2"), BadCidr("p1")>>

MCMessages == {<<9>>, <<9, 9, 9>>}
=============================================================================
