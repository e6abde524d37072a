------------------------------- MODULE Router -------------------------------
(***************************************************************************)
(* The routing table (config/config.go).  A destination is <<host, port>>, *)
(* or <<host>> for an address without a port.  A file is a sequence of     *)
(* routes; a CIDR block is the set of hosts in it.                         *)
(***************************************************************************)
EXTENDS Naturals, Sequences, FiniteSetsExt, Functions

CONSTANT NoRoute      \* the error of Lookup

\* RouteConfig, as LoadConfig tells them apart.
Exact(dst, pep) == [kind |-> "exact", dst |-> dst, net |-> {}, pep |-> pep]
Cidr(net, pep)  == [kind |-> "cidr", dst |-> <<>>, net |-> net, pep |-> pep]
BadCidr(pep)    == [kind |-> "bad", dst |-> <<>>, net |-> {}, pep |-> pep]

\* Router: exactMatches, subnets, and whether LoadConfig returned it without an error.
EmptyRouter == [exact |-> <<>>, subnets |-> <<>>, ok |-> TRUE]
NoRouter    == [exact |-> <<>>, subnets |-> <<>>, ok |-> FALSE]

\* exactMatches[dst] = pep
SetMatch(exact, dst, pep) ==
  [d \in DOMAIN exact \cup {dst} |-> IF d = dst THEN pep ELSE exact[d]]

\* One turn of the loop of LoadConfig.
AddRoute(router, r) ==
  [exact   |-> IF r.kind = "exact" THEN SetMatch(router.exact, r.dst, r.pep)
                                   ELSE router.exact,
   subnets |-> IF r.kind = "cidr" THEN Append(router.subnets, r) ELSE router.subnets,
   ok      |-> TRUE]

\* One bad CIDR block fails the whole file.
LoadConfig(file) ==
  LET after[n \in 0 .. Len(file)] ==
        IF n = 0 THEN EmptyRouter ELSE AddRoute(after[n - 1], file[n])
  IN  IF \E j \in DOMAIN file : file[j].kind = "bad" THEN NoRouter ELSE after[Len(file)]

\* The destination as it is, its host, then the first subnet of the file with the host.
Lookup(router, dst) ==
  LET host == <<dst[1]>>
      hits == {j \in DOMAIN router.subnets : dst[1] \in router.subnets[j].net}
  IN  IF dst \in DOMAIN router.exact THEN router.exact[dst]
      ELSE IF host \in DOMAIN router.exact THEN router.exact[host]
      ELSE IF hits # {} THEN router.subnets[Min(hits)].pep
      ELSE NoRoute

\* What the file says of a destination: the last exact route for it or else for its host,
\* or else the first CIDR block.
RouteOf(file, dst) ==
  LET routes(d) == {j \in DOMAIN file : file[j].kind = "exact" /\ file[j].dst = d}
      nets      == {j \in DOMAIN file : file[j].kind = "cidr" /\ dst[1] \in file[j].net}
  IN  IF routes(dst) # {} THEN file[Max(routes(dst))].pep
      ELSE IF routes(<<dst[1]>>) # {} THEN file[Max(routes(<<dst[1]>>))].pep
      ELSE IF nets # {} THEN file[Min(nets)].pep
      ELSE NoRoute
=============================================================================
