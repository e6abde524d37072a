---------------------------- MODULE RouterProofs ----------------------------
(***************************************************************************)
(* Lookup in the table that LoadConfig has built says what the file says:  *)
(* the last exact route for the destination, or for its host, or the first *)
(* CIDR block, for every file.                                             *)
(*                                                                         *)
(* The loop of LoadConfig is a recursive function, and what it computes is *)
(* shown by induction on the number of routes read, from the principle of  *)
(* the least number.                                                       *)
(***************************************************************************)
EXTENDS Router, WellFoundedInduction, TLAPS

(***************************************************************************)
(* Numbers.                                                                *)
(***************************************************************************)

\* A non-empty set of numbers has a least one.
LEMMA LeastOf ==
  ASSUME NEW T \in SUBSET Nat, T # {}
  PROVE  \E x \in T : \A y \in T : x <= y
<1> DEFINE R == OpToRel(<, Nat)
<1>1. IsWellFoundedOn(R, Nat)
  BY NatLessThanWellFounded, Zenon
<1>2. \A x \in Nat : \A y \in Nat : y < x => <<y, x>> \in R
  BY DEF OpToRel
<1> HIDE DEF R
<1>3. PICK x \in T : \A y \in T : ~(<<y, x>> \in R)
  BY <1>1, WFMin, Zenon
<1>4. ASSUME NEW y \in T PROVE x <= y
  <2>1. x \in Nat /\ y \in Nat
    OBVIOUS
  <2>2. ~(y < x)
    BY <1>2, <1>3, <2>1, Zenon
  <2> QED
    BY <2>1, <2>2
<1> QED
  BY <1>4

\* Induction up to N.
LEMMA UpTo ==
  ASSUME NEW N \in Nat, NEW S, 0 \in S, \A n \in 1 .. N : n - 1 \in S => n \in S
  PROVE  \A n \in 0 .. N : n \in S
<1> DEFINE T == {n \in 0 .. N : n \notin S}
<1>1. CASE T # {}
  <2>1. T \in SUBSET Nat
    OBVIOUS
  <2>2. PICK n \in T : \A k \in T : n <= k
    BY <1>1, <2>1, LeastOf, Zenon
  <2>3. n \in 1 .. N /\ n - 1 \in 0 .. N /\ n - 1 \notin T
    BY <2>2
  <2> QED
    BY <2>2, <2>3
<1>2. CASE T = {}
  BY <1>2
<1> QED
  BY <1>1, <1>2

\* Min of a set of numbers is its least one.
LEMMA MinOf ==
  ASSUME NEW T \in SUBSET Nat, T # {}
  PROVE  Min(T) \in T /\ \A y \in T : Min(T) <= y
<1>1. \E x \in T : \A y \in T : x <= y
  BY LeastOf
<1> QED
  BY <1>1, Zenon DEF Min

\* Max of a bounded set of numbers is its greatest one.
LEMMA MaxOf ==
  ASSUME NEW N \in Nat, NEW T \in SUBSET (0 .. N), T # {}
  PROVE  Max(T) \in T /\ \A y \in T : y <= Max(T)
<1> DEFINE U == {n \in 0 .. N : N - n \in T}
<1>1. U \in SUBSET Nat /\ U # {}
  <2>1. PICK t \in T : TRUE
    BY Zenon
  <2>2. N - t \in U
    BY <2>1
  <2> QED
    BY <2>2
<1>2. PICK u \in U : \A v \in U : u <= v
  BY <1>1, LeastOf, Zenon
<1>3. ASSUME NEW y \in T PROVE N - u >= y
  <2>1. N - y \in U
    OBVIOUS
  <2>2. u <= N - y
    BY <1>2, <2>1
  <2> QED
    BY <2>2
<1>4. \E x \in T : \A y \in T : x >= y
  BY <1>3
<1>5. Max(T) \in T /\ \A y \in T : Max(T) >= y
  BY <1>4, Zenon DEF Max
<1> QED
  BY <1>5

(***************************************************************************)
(* The loop.                                                               *)
(***************************************************************************)

\* T is the sequence of tables after 0, 1, ..., n routes.
IsLoad(T, file, n) ==
  T = [k \in 0 .. n |-> IF k = 0 THEN EmptyRouter ELSE AddRoute(T[k - 1], file[k])]

\* There is one, for every file.
LEMMA LoadExists ==
  ASSUME NEW file, NEW N \in Nat
  PROVE  \E T : IsLoad(T, file, N)
<1> DEFINE S == {n \in 0 .. N : \E T : IsLoad(T, file, n)}
<1>1. 0 \in S
  <2> DEFINE T == [k \in 0 .. 0 |-> EmptyRouter]
  <2>1. IsLoad(T, file, 0)
    BY DEF IsLoad
  <2> QED
    BY <2>1
<1>2. ASSUME NEW n \in 1 .. N, n - 1 \in S PROVE n \in S
  <2>1. PICK T : IsLoad(T, file, n - 1)
    BY <1>2
  <2> DEFINE U == [k \in 0 .. n |-> IF k = n THEN AddRoute(T[n - 1], file[n]) ELSE T[k]]
  <2>2. \A k \in 0 .. (n - 1) : T[k] = IF k = 0 THEN EmptyRouter ELSE AddRoute(T[k - 1], file[k])
    BY <2>1 DEF IsLoad
  <2>3. \A k \in 0 .. n : U[k] = IF k = 0 THEN EmptyRouter ELSE AddRoute(U[k - 1], file[k])
    BY <2>2
  <2>4. U = [k \in 0 .. n |-> U[k]]
    OBVIOUS
  <2> HIDE DEF U
  <2>5. IsLoad(U, file, n)
    BY <2>3, <2>4, Zenon DEF IsLoad
  <2> QED
    BY <2>5
<1>3. \A n \in 0 .. N : n \in S
  <2> HIDE DEF S
  <2> QED
    BY <1>1, <1>2, UpTo
<1> QED
  BY <1>3

\* LoadConfig, unless the file is bad, is the last of them.
LEMMA LoadSteps ==
  ASSUME NEW file, Len(file) \in Nat, ~\E j \in DOMAIN file : file[j].kind = "bad"
  PROVE  \E T : /\ LoadConfig(file) = T[Len(file)] /\ T[0] = EmptyRouter
                /\ \A k \in 1 .. Len(file) : T[k] = AddRoute(T[k - 1], file[k])
<1> DEFINE T == CHOOSE T : IsLoad(T, file, Len(file))
<1>1. IsLoad(T, file, Len(file))
  <2>1. \E U : IsLoad(U, file, Len(file))
    BY LoadExists
  <2> QED
    BY <2>1, Zenon
<1>2. LoadConfig(file) = T[Len(file)]
  BY Zenon DEF LoadConfig, IsLoad
<1> HIDE DEF T
<1>3. T[0] = EmptyRouter /\ \A k \in 1 .. Len(file) : T[k] = AddRoute(T[k - 1], file[k])
  BY <1>1 DEF IsLoad
<1> QED
  BY <1>2, <1>3, Zenon

(***************************************************************************)
(* The table.                                                              *)
(***************************************************************************)

\* Route j of the file is an exact route for d, or a CIDR block with host h.
IsExact(file, j, d) == file[j].kind = "exact" /\ file[j].dst = d
IsNet(file, j, h)   == file[j].kind = "cidr" /\ h \in file[j].net

\* After n routes, exactMatches has the last exact route for each destination.
ExactUpTo(t, file, n) ==
  \A d : /\ d \in DOMAIN t.exact <=> \E j \in 1 .. n : IsExact(file, j, d)
        /\ \A j \in 1 .. n :
             IsExact(file, j, d) /\ (\A k \in 1 .. n : IsExact(file, k, d) => k <= j)
               => t.exact[d] = file[j].pep

\* After n routes, the first subnet with a host is the first CIDR block with it.
NetsUpTo(s, file, n, R) ==
  /\ s \in Seq(R)
  /\ \A h :
       /\ (\E i \in 1 .. Len(s) : h \in s[i].net)
            <=> \E j \in 1 .. n : IsNet(file, j, h)
       /\ \A i \in 1 .. Len(s), j \in 1 .. n :
            /\ h \in s[i].net
            /\ \A k \in 1 .. Len(s) : h \in s[k].net => i <= k
            /\ IsNet(file, j, h) /\ \A k \in 1 .. n : IsNet(file, k, h) => j <= k
            => s[i].pep = file[j].pep

\* AddRoute: exactMatches after one more route.
LEMMA ExactStep ==
  ASSUME NEW file, NEW n \in Nat, n > 0, NEW t, ExactUpTo(t, file, n - 1)
  PROVE  ExactUpTo(AddRoute(t, file[n]), file, n)
<1> DEFINE r == file[n]
           u == AddRoute(t, r)
<1>1. u.exact = IF r.kind = "exact" THEN SetMatch(t.exact, r.dst, r.pep) ELSE t.exact
  BY DEF AddRoute
<1>2. CASE r.kind = "exact"
  <2>1. u.exact = [x \in DOMAIN t.exact \cup {r.dst} |-> IF x = r.dst THEN r.pep ELSE t.exact[x]]
    BY <1>1, <1>2 DEF SetMatch
  <2> HIDE DEF u
  <2>2. ASSUME NEW d
        PROVE  d \in DOMAIN u.exact <=> \E j \in 1 .. n : IsExact(file, j, d)
    BY <1>2, <2>1 DEF ExactUpTo, IsExact
  <2>3. ASSUME NEW d, NEW j \in 1 .. n, IsExact(file, j, d),
               \A k \in 1 .. n : IsExact(file, k, d) => k <= j
        PROVE  u.exact[d] = file[j].pep
    <3>1. CASE d = r.dst
      <4>1. IsExact(file, n, d)
        BY <1>2, <3>1 DEF IsExact
      <4>2. j = n
        BY <2>3, <4>1
      <4> QED
        BY <2>1, <3>1, <4>2
    <3>2. CASE d # r.dst
      <4>1. j \in 1 .. (n - 1)
        BY <2>3, <3>2 DEF IsExact
      <4>2. d \in DOMAIN t.exact /\ t.exact[d] = file[j].pep
        BY <2>3, <4>1 DEF ExactUpTo
      <4> QED
        BY <2>1, <3>2, <4>2
    <3> QED
      BY <3>1, <3>2
  <2> QED
    BY <2>2, <2>3 DEF ExactUpTo, u
<1>3. CASE r.kind # "exact"
  <2>1. u.exact = t.exact
    BY <1>1, <1>3
  <2>2. \A d, j : j \in 1 .. n /\ IsExact(file, j, d) => j \in 1 .. (n - 1)
    BY <1>3 DEF IsExact
  <2>3. \A j \in 1 .. (n - 1) : j \in 1 .. n
    OBVIOUS
  <2> HIDE DEF u
  <2>4. ExactUpTo(u, file, n)
    BY <2>1, <2>2, <2>3 DEF ExactUpTo
  <2> QED
    BY <2>4 DEF u
<1> QED
  BY <1>2, <1>3

\* AddRoute: subnets after one more route.
LEMMA NetsStep ==
  ASSUME NEW file, NEW n \in Nat, n > 0, NEW R, file[n] \in R, NEW t, NetsUpTo(t.subnets, file, n - 1, R)
  PROVE  NetsUpTo(AddRoute(t, file[n]).subnets, file, n, R)
<1> DEFINE r == file[n]
           u == AddRoute(t, r)
           m == Len(t.subnets)
<1>0. t.subnets \in Seq(R) /\ m \in Nat
  BY DEF NetsUpTo
<1>1. u.subnets = IF r.kind = "cidr" THEN Append(t.subnets, r) ELSE t.subnets
  BY DEF AddRoute
<1>2. CASE r.kind = "cidr"
  <2>1. /\ u.subnets \in Seq(R) /\ Len(u.subnets) = m + 1 /\ u.subnets[m + 1] = r
        /\ \A i \in 1 .. m : u.subnets[i] = t.subnets[i]
    BY <1>0, <1>1, <1>2
  <2> HIDE DEF u, m
  <2>2. ASSUME NEW h
        PROVE  (\E i \in 1 .. (m + 1) : h \in u.subnets[i].net)
                 <=> \E j \in 1 .. n : IsNet(file, j, h)
    <3>1. (\E i \in 1 .. m : h \in t.subnets[i].net) <=> \E j \in 1 .. (n - 1) : IsNet(file, j, h)
      BY Zenon DEF NetsUpTo, m
    <3>2. h \in r.net <=> IsNet(file, n, h)
      BY <1>2 DEF IsNet
    <3>3. (\E i \in 1 .. (m + 1) : h \in u.subnets[i].net)
            <=> (\E i \in 1 .. m : h \in t.subnets[i].net) \/ h \in r.net
      BY <1>0, <2>1
    <3>4. (\E j \in 1 .. n : IsNet(file, j, h))
            <=> (\E j \in 1 .. (n - 1) : IsNet(file, j, h)) \/ IsNet(file, n, h)
      OBVIOUS
    <3> QED
      BY <3>1, <3>2, <3>3, <3>4, Zenon
  <2>3. ASSUME NEW h, NEW i \in 1 .. (m + 1), NEW j \in 1 .. n, h \in u.subnets[i].net,
               \A k \in 1 .. (m + 1) : h \in u.subnets[k].net => i <= k,
               IsNet(file, j, h), \A k \in 1 .. n : IsNet(file, k, h) => j <= k
        PROVE  u.subnets[i].pep = file[j].pep
    <3>1. CASE \E k \in 1 .. (n - 1) : IsNet(file, k, h)
      <4>1. j \in 1 .. (n - 1) /\ \A k \in 1 .. (n - 1) : IsNet(file, k, h) => j <= k
        BY <2>3, <3>1
      <4>2. PICK k \in 1 .. m : h \in t.subnets[k].net
        BY <3>1, Zenon DEF NetsUpTo, m
      <4>3. \A l \in 1 .. m : h \in t.subnets[l].net => i <= l
        <5>1. ASSUME NEW l \in 1 .. m, h \in t.subnets[l].net PROVE i <= l
          <6>1. l \in 1 .. (m + 1) /\ u.subnets[l] = t.subnets[l]
            BY <1>0, <2>1
          <6> QED
            BY <2>3, <5>1, <6>1, Zenon
        <5> QED
          BY <5>1
      <4>4. i \in 1 .. m
        BY <1>0, <4>2, <4>3
      <4>5. h \in t.subnets[i].net /\ u.subnets[i] = t.subnets[i]
        BY <2>1, <2>3, <4>4
      <4>6. t.subnets[i].pep = file[j].pep
        BY <2>3, <4>1, <4>3, <4>4, <4>5, Zenon DEF NetsUpTo, m
      <4> QED
        BY <4>5, <4>6, Zenon
    <3>2. CASE ~\E k \in 1 .. (n - 1) : IsNet(file, k, h)
      <4>1. j = n
        BY <2>3, <3>2
      <4>2. ~\E k \in 1 .. m : h \in t.subnets[k].net
        BY <3>2 DEF NetsUpTo, m
      <4>3. i = m + 1
        <5>1. CASE i \in 1 .. m
          <6>1. u.subnets[i] = t.subnets[i]
            BY <2>1, <5>1
          <6> QED
            BY <2>3, <4>2, <5>1, <6>1, Zenon
        <5> QED
          BY <1>0, <5>1
      <4> QED
        BY <2>1, <4>1, <4>3
    <3> QED
      BY <3>1, <3>2
  <2>4. ASSUME NEW h
        PROVE  (\E i \in 1 .. Len(u.subnets) : h \in u.subnets[i].net)
                 <=> \E j \in 1 .. n : IsNet(file, j, h)
    BY <2>1, <2>2, Zenon
  <2>5. ASSUME NEW h, NEW i \in 1 .. Len(u.subnets), NEW j \in 1 .. n, h \in u.subnets[i].net,
               \A k \in 1 .. Len(u.subnets) : h \in u.subnets[k].net => i <= k,
               IsNet(file, j, h), \A k \in 1 .. n : IsNet(file, k, h) => j <= k
        PROVE  u.subnets[i].pep = file[j].pep
    BY <2>1, <2>3, <2>5, Zenon
  <2>6. NetsUpTo(u.subnets, file, n, R)
    BY <2>1, <2>4, <2>5, Zenon DEF NetsUpTo
  <2> QED
    BY <2>6, Zenon DEF u
<1>3. CASE r.kind # "cidr"
  <2>1. u.subnets = t.subnets
    BY <1>1, <1>3
  <2>2. \A h, j : j \in 1 .. n /\ IsNet(file, j, h) => j \in 1 .. (n - 1)
    BY <1>3 DEF IsNet
  <2>3. \A j \in 1 .. (n - 1) : j \in 1 .. n
    OBVIOUS
  <2> HIDE DEF u
  <2>4. NetsUpTo(u.subnets, file, n, R)
    <3>1. ASSUME NEW h
          PROVE  (\E i \in 1 .. Len(t.subnets) : h \in t.subnets[i].net)
                   <=> \E j \in 1 .. n : IsNet(file, j, h)
      BY <2>2, <2>3, Zenon DEF NetsUpTo
    <3>2. ASSUME NEW h, NEW i \in 1 .. Len(t.subnets), NEW j \in 1 .. n, h \in t.subnets[i].net,
                 \A k \in 1 .. Len(t.subnets) : h \in t.subnets[k].net => i <= k,
                 IsNet(file, j, h), \A k \in 1 .. n : IsNet(file, k, h) => j <= k
          PROVE  t.subnets[i].pep = file[j].pep
      BY <2>2, <2>3, <3>2, Zenon DEF NetsUpTo
    <3>3. NetsUpTo(t.subnets, file, n, R)
      BY <1>0, <3>1, <3>2, Zenon DEF NetsUpTo
    <3> QED
      BY <2>1, <3>3, Zenon
  <2> QED
    BY <2>4 DEF u
<1> QED
  BY <1>2, <1>3

\* The table after the whole file.
LEMMA TableOf ==
  ASSUME NEW R, NEW file \in Seq(R), ~\E j \in DOMAIN file : file[j].kind = "bad"
  PROVE  /\ ExactUpTo(LoadConfig(file), file, Len(file))
         /\ NetsUpTo(LoadConfig(file).subnets, file, Len(file), R)
<1>0. Len(file) \in Nat /\ \A n \in 1 .. Len(file) : file[n] \in R
  OBVIOUS
<1>1. PICK T : /\ LoadConfig(file) = T[Len(file)] /\ T[0] = EmptyRouter
               /\ \A k \in 1 .. Len(file) : T[k] = AddRoute(T[k - 1], file[k])
  BY <1>0, LoadSteps, Zenon
<1> DEFINE S == {n \in 0 .. Len(file) : /\ ExactUpTo(T[n], file, n)
                                       /\ NetsUpTo(T[n].subnets, file, n, R)}
<1>2. 0 \in S
  <2>1. EmptyRouter.subnets = <<>> /\ EmptyRouter.exact = <<>>
    BY DEF EmptyRouter
  <2>2. ExactUpTo(EmptyRouter, file, 0)
    BY <2>1 DEF ExactUpTo
  <2>3. NetsUpTo(<<>>, file, 0, R)
    BY DEF NetsUpTo
  <2>4. 0 \in 0 .. Len(file)
    BY <1>0
  <2> QED
    BY <1>1, <2>1, <2>2, <2>3, <2>4, Zenon
<1>3. ASSUME NEW n \in 1 .. Len(file), n - 1 \in S PROVE n \in S
  <2>1. n \in Nat /\ n > 0 /\ n \in 0 .. Len(file) /\ file[n] \in R
    BY <1>0
  <2>2. T[n] = AddRoute(T[n - 1], file[n])
    BY <1>1
  <2>3. ExactUpTo(T[n - 1], file, n - 1) /\ NetsUpTo(T[n - 1].subnets, file, n - 1, R)
    BY <1>3, Zenon
  <2>4. ExactUpTo(T[n], file, n)
    BY <2>1, <2>2, <2>3, ExactStep, Zenon
  <2>5. NetsUpTo(T[n].subnets, file, n, R)
    BY <2>1, <2>2, <2>3, NetsStep, Zenon
  <2> QED
    BY <2>1, <2>4, <2>5, Zenon
<1>4. Len(file) \in S
  <2> HIDE DEF S
  <2>1. \A n \in 0 .. Len(file) : n \in S
    BY <1>0, <1>2, <1>3, UpTo, Zenon
  <2> QED
    BY <1>0, <2>1
<1> QED
  BY <1>1, <1>4, Zenon

\* The exact routes for d, the CIDR blocks with h and the subnets with h.
ExactOf(file, d)   == {j \in DOMAIN file : file[j].kind = "exact" /\ file[j].dst = d}
NetsOf(file, h)    == {j \in DOMAIN file : file[j].kind = "cidr" /\ h \in file[j].net}
HitsOf(subnets, h) == {j \in DOMAIN subnets : h \in subnets[j].net}

\* The last exact route.
LEMMA ExactLast ==
  ASSUME NEW R, NEW file \in Seq(R), ~\E j \in DOMAIN file : file[j].kind = "bad", NEW d
  PROVE  /\ d \in DOMAIN LoadConfig(file).exact <=> ExactOf(file, d) # {}
         /\ ExactOf(file, d) # {} => LoadConfig(file).exact[d] = file[Max(ExactOf(file, d))].pep
<1> DEFINE T == ExactOf(file, d)
<1>0. Len(file) \in Nat /\ DOMAIN file = 1 .. Len(file)
  OBVIOUS
<1>1. T = {j \in 1 .. Len(file) : IsExact(file, j, d)}
  BY <1>0 DEF IsExact, ExactOf
<1>2. ExactUpTo(LoadConfig(file), file, Len(file))
  BY TableOf, Zenon
<1> HIDE DEF T
<1>3. d \in DOMAIN LoadConfig(file).exact <=> T # {}
  BY <1>1, <1>2 DEF ExactUpTo
<1>4. ASSUME T # {} PROVE LoadConfig(file).exact[d] = file[Max(T)].pep
  <2>1. T \in SUBSET (0 .. Len(file))
    BY <1>0, <1>1
  <2>2. Max(T) \in T /\ \A y \in T : y <= Max(T)
    BY <1>0, <1>4, <2>1, MaxOf, Zenon
  <2>3. /\ Max(T) \in 1 .. Len(file) /\ IsExact(file, Max(T), d)
        /\ \A k \in 1 .. Len(file) : IsExact(file, k, d) => k <= Max(T)
    BY <1>1, <2>2, Zenon
  <2> QED
    BY <1>2, <2>3, Zenon DEF ExactUpTo
<1> QED
  BY <1>3, <1>4, Zenon DEF T

\* The first CIDR block.
LEMMA NetFirst ==
  ASSUME NEW R, NEW file \in Seq(R), ~\E j \in DOMAIN file : file[j].kind = "bad", NEW h
  PROVE  /\ HitsOf(LoadConfig(file).subnets, h) # {} <=> NetsOf(file, h) # {}
         /\ NetsOf(file, h) # {} =>
              LoadConfig(file).subnets[Min(HitsOf(LoadConfig(file).subnets, h))].pep
                = file[Min(NetsOf(file, h))].pep
<1> DEFINE s == LoadConfig(file).subnets
           I == HitsOf(s, h)
           T == NetsOf(file, h)
<1>0. NetsUpTo(s, file, Len(file), R)
  BY TableOf, Zenon
<1>1. Len(file) \in Nat /\ DOMAIN file = 1 .. Len(file)
  OBVIOUS
<1> HIDE DEF s
<1>2. Len(s) \in Nat /\ DOMAIN s = 1 .. Len(s)
  <2>1. s \in Seq(R)
    BY <1>0, Zenon DEF NetsUpTo
  <2> QED
    BY <2>1
<1>3. I = {i \in 1 .. Len(s) : h \in s[i].net} /\ T = {j \in 1 .. Len(file) : IsNet(file, j, h)}
  BY <1>1, <1>2 DEF IsNet, HitsOf, NetsOf
<1> HIDE DEF I, T
<1>4. I # {} <=> T # {}
  <2>1. (\E i \in 1 .. Len(s) : h \in s[i].net) <=> \E j \in 1 .. Len(file) : IsNet(file, j, h)
    BY <1>0, Zenon DEF NetsUpTo
  <2> QED
    BY <1>3, <2>1, Zenon
<1>5. ASSUME T # {} PROVE s[Min(I)].pep = file[Min(T)].pep
  <2>1. I \in SUBSET Nat /\ T \in SUBSET Nat
    BY <1>1, <1>2, <1>3
  <2>2. Min(I) \in I /\ \A y \in I : Min(I) <= y
    BY <1>4, <1>5, <2>1, MinOf, Zenon
  <2>3. Min(T) \in T /\ \A y \in T : Min(T) <= y
    BY <1>5, <2>1, MinOf, Zenon
  <2>4. /\ Min(I) \in 1 .. Len(s) /\ h \in s[Min(I)].net
        /\ \A k \in 1 .. Len(s) : h \in s[k].net => Min(I) <= k
    BY <1>3, <2>2, Zenon
  <2>5. /\ Min(T) \in 1 .. Len(file) /\ IsNet(file, Min(T), h)
        /\ \A k \in 1 .. Len(file) : IsNet(file, k, h) => Min(T) <= k
    BY <1>3, <2>3, Zenon
  <2> QED
    BY <1>0, <2>4, <2>5, Zenon DEF NetsUpTo
<1> QED
  BY <1>4, <1>5, Zenon DEF s, I, T

\* LoadConfig and Lookup: for every file without a bad CIDR block and every destination,
\* the maps and lists that the loop builds give the answer that the file gives: of two
\* exact routes the later, of two CIDR blocks the earlier, and an exact route for the
\* destination before one for its host before any block.
THEOREM LookupIsRouteOf ==
  ASSUME NEW R, NEW file \in Seq(R), ~\E j \in DOMAIN file : file[j].kind = "bad", NEW dst
  PROVE  Lookup(LoadConfig(file), dst) = RouteOf(file, dst)
<1> DEFINE t == LoadConfig(file)
           host == <<dst[1]>>
           hits == HitsOf(t.subnets, dst[1])
           nets == NetsOf(file, dst[1])
<1>1. /\ dst \in DOMAIN t.exact <=> ExactOf(file, dst) # {}
      /\ ExactOf(file, dst) # {} => t.exact[dst] = file[Max(ExactOf(file, dst))].pep
  BY ExactLast, Zenon
<1>2. /\ host \in DOMAIN t.exact <=> ExactOf(file, host) # {}
      /\ ExactOf(file, host) # {} => t.exact[host] = file[Max(ExactOf(file, host))].pep
  BY ExactLast, Zenon
<1>3. /\ hits # {} <=> nets # {}
      /\ nets # {} => t.subnets[Min(hits)].pep = file[Min(nets)].pep
  BY NetFirst, Zenon
<1>4. Lookup(t, dst) = IF dst \in DOMAIN t.exact THEN t.exact[dst]
                       ELSE IF host \in DOMAIN t.exact THEN t.exact[host]
                       ELSE IF hits # {} THEN t.subnets[Min(hits)].pep
                       ELSE NoRoute
  BY Zenon DEF Lookup, HitsOf
<1>5. RouteOf(file, dst) = IF ExactOf(file, dst) # {} THEN file[Max(ExactOf(file, dst))].pep
                           ELSE IF ExactOf(file, host) # {} THEN file[Max(ExactOf(file, host))].pep
                           ELSE IF nets # {} THEN file[Min(nets)].pep
                           ELSE NoRoute
  BY Zenon DEF RouteOf, ExactOf, NetsOf
<1> HIDE DEF t, host, nets, hits
<1>6. Lookup(t, dst) = RouteOf(file, dst)
  <2>1. CASE ExactOf(file, dst) # {}
    BY <1>1, <1>4, <1>5, <2>1, Zenon
  <2>2. CASE ExactOf(file, dst) = {} /\ ExactOf(file, host) # {}
    BY <1>1, <1>2, <1>4, <1>5, <2>2, Zenon
  <2>3. CASE ExactOf(file, dst) = {} /\ ExactOf(file, host) = {}
    BY <1>1, <1>2, <1>3, <1>4, <1>5, <2>3, Zenon
  <2> QED
    BY <2>1, <2>2, <2>3, Zenon
<1> QED
  BY <1>6 DEF t
=============================================================================
