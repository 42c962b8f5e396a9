-------------------------- MODULE RegistrationProofs --------------------------
(***************************************************************************)
(* For any number of devices, any parameters and REGISTERs of any number   *)
(* of Contacts: the registrar keeps the limit of an address of record and  *)
(* one binding for each URI; and when the refresh is due early enough, a   *)
(* device that takes itself for registered has a live binding.             *)
(*                                                                         *)
(* The registrar scans lists.  What a scan computes takes induction over   *)
(* its length: Induct takes it from the least counterexample, Iterate      *)
(* builds the function that a recursion defines.                           *)
(*                                                                         *)
(* RegisteredIsBound is not inductive: the device does not know the age of *)
(* its binding, only when it sent last.  The strengthening Timely bounds   *)
(* the one by the other, for every datagram under way.                     *)
(***************************************************************************)
EXTENDS Registration, NaturalsInduction, WellFoundedInduction, TLAPS

-----------------------------------------------------------------------------
(* Induction and recursion on the naturals.                                 *)

\* A set of naturals that holds 0 and every successor holds them all.
LEMMA Induct ==
  ASSUME NEW P \in SUBSET Nat, 0 \in P, \A n \in P : n + 1 \in P
  PROVE  P = Nat
  <1> SUFFICES ASSUME P # Nat PROVE FALSE
    OBVIOUS
  <1> DEFINE T == Nat \ P
             R == OpToRel(<, Nat)
  <1>1. T \subseteq Nat /\ T # {}
    BY Zenon
  <1>2. PICK m \in T : \A k \in T : ~ (<<k, m>> \in R)
    <2> HIDE DEF T, R
    <2> QED BY <1>1, NatLessThanWellFounded, WFMin DEF R
  <1>3. m \in Nat /\ m # 0 /\ m - 1 \in Nat /\ m - 1 < m /\ (m - 1) + 1 = m
    OBVIOUS
  <1>4. m - 1 \notin T
    <2>1. <<m - 1, m>> \in R
      BY <1>3, Zenon DEF OpToRel
    <2> QED BY <1>2, <2>1, Zenon
  <1> QED BY <1>3, <1>4

\* What is iterated from a first value exists as a function.
Iterates(f, S, first, step) ==
  /\ f \in [Nat -> S]
  /\ f[0] = first
  /\ \A n \in Nat : f[n + 1] = step[<<n, f[n]>>]

LEMMA Iterate ==
  ASSUME NEW S, NEW first \in S, NEW step \in [Nat \X S -> S]
  PROVE  \E f : Iterates(f, S, first, step)
  <1> DEFINE Start(g, n) == g \in [0 .. n -> S] /\ g[0] = first
                            /\ \A i \in 0 .. n : i < n => g[i + 1] = step[<<i, g[i]>>]
             P == {n \in Nat : \E g : Start(g, n)}
  <1>1. 0 \in P
    <2>1. Start([i \in 0 .. 0 |-> first], 0)
      OBVIOUS
    <2> QED BY <2>1, Zenon
  <1>2. ASSUME NEW n \in P PROVE n + 1 \in P
    <2>1. PICK g : Start(g, n)
      OBVIOUS
    <2> DEFINE h == [i \in 0 .. n + 1 |-> IF i <= n THEN g[i] ELSE step[<<n, g[n]>>]]
    <2>2. h \in [0 .. n + 1 -> S] /\ h[0] = first
      BY <2>1
    <2>3. ASSUME NEW i \in 0 .. n + 1, i < n + 1 PROVE h[i + 1] = step[<<i, h[i]>>]
      <3>1. i \in 0 .. n /\ i + 1 \in 0 .. n + 1 /\ h[i] = g[i]
        BY <2>3
      <3>2. CASE i = n
        <4>1. ~ (i + 1 <= n) /\ h[i + 1] = step[<<n, g[n]>>]
          BY <3>1, <3>2
        <4> QED BY <3>1, <3>2, <4>1, Zenon
      <3>3. CASE i # n
        <4>1. i < n /\ h[i + 1] = g[i + 1]
          BY <3>1, <3>3
        <4> QED BY <2>1, <3>1, <4>1, Zenon
      <3> QED BY <3>2, <3>3
    <2>4. Start(h, n + 1)
      BY <2>2, <2>3, Zenon
    <2>5. n + 1 \in Nat
      OBVIOUS
    <2> HIDE DEF h, Start
    <2> QED BY <2>4, <2>5, Zenon
  <1>3. P = Nat
    <2> HIDE DEF P
    <2> QED BY <1>1, <1>2, Induct, Zenon DEF P
  <1>4. ASSUME NEW n \in Nat, NEW m \in Nat, n <= m, NEW g, NEW h, Start(g, n), Start(h, m)
        PROVE  \A i \in 0 .. n : g[i] = h[i]
    <2> DEFINE Q == {i \in Nat : i <= n => g[i] = h[i]}
    <2>1. 0 \in Q
      BY <1>4
    <2>2. ASSUME NEW i \in Q PROVE i + 1 \in Q
      <3> SUFFICES ASSUME i + 1 <= n PROVE g[i + 1] = h[i + 1]
        OBVIOUS
      <3>1. i \in 0 .. n /\ i \in 0 .. m /\ i < n /\ i < m /\ i <= n
        BY <1>4
      <3> QED BY <1>4, <2>2, <3>1, Zenon
    <2>3. Q = Nat
      <3> HIDE DEF Q
      <3> QED BY <2>1, <2>2, Induct, Zenon DEF Q
    <2> QED BY <2>3
  <1> DEFINE G(n) == CHOOSE g : Start(g, n)
             f == [n \in Nat |-> G(n)[n]]
  <1>5. \A n \in Nat : Start(G(n), n)
    BY <1>3, Zenon
  <1>6. ASSUME NEW n \in Nat
        PROVE  f[n] \in S /\ f[n + 1] = step[<<n, f[n]>>]
    <2>1. n \in 0 .. n /\ n + 1 \in Nat /\ n <= n + 1 /\ n \in 0 .. n + 1 /\ n < n + 1
      OBVIOUS
    <2>2. Start(G(n), n) /\ Start(G(n + 1), n + 1)
      BY <1>5, <2>1, Zenon
    <2>3. f[n] = G(n)[n] /\ f[n + 1] = G(n + 1)[n + 1]
      BY <2>1, Zenon
    <2>4. G(n)[n] = G(n + 1)[n]
      <3> HIDE DEF Start, G
      <3>1. ASSUME NEW g, NEW h, Start(g, n), Start(h, n + 1) PROVE g[n] = h[n]
        <4>1. \A i \in 0 .. n : g[i] = h[i]
          BY <1>4, <2>1, <3>1
        <4> QED BY <2>1, <4>1, Zenon
      <3> QED BY <2>2, <3>1, Zenon
    <2>5. G(n)[n] \in S /\ G(n + 1)[n + 1] = step[<<n, G(n + 1)[n]>>]
      <3>1. ASSUME NEW g, Start(g, n) PROVE g[n] \in S
        BY <2>1, <3>1, Zenon
      <3>2. ASSUME NEW g, Start(g, n + 1) PROVE g[n + 1] = step[<<n, g[n]>>]
        BY <2>1, <3>2, Zenon
      <3> HIDE DEF G, Start
      <3> QED BY <2>2, <3>1, <3>2, Zenon
    <2> HIDE DEF G, f
    <2> QED BY <2>3, <2>4, <2>5, Zenon
  <1>7. f[0] = first
    <2>1. 0 \in Nat /\ Start(G(0), 0)
      BY <1>5, Zenon
    <2>2. f[0] = G(0)[0]
      BY <2>1, Zenon
    <2> HIDE DEF G, f
    <2> QED BY <2>1, <2>2, Zenon
  <1>8. f \in [Nat -> S]
    <2> HIDE DEF G
    <2> QED BY <1>6, Zenon
  <1> HIDE DEF f, G
  <1> QED BY <1>6, <1>7, <1>8, Zenon DEF Iterates

-----------------------------------------------------------------------------
(* The list of bindings.                                                    *)

\* Arithmetic of a scan that has come to n of L.
LEMMA Below ==
  ASSUME NEW n \in Nat, NEW L \in Nat, n + 1 <= L
  PROVE  /\ n < L /\ n <= L /\ n \in 0 .. L /\ n + 1 \in 0 .. L /\ n + 1 \in 1 .. L
         /\ (n + 1) - 1 = n /\ n + 1 # 0
  OBVIOUS

\* Arithmetic of the indices when a scan takes one more.
LEMMA OneMore ==
  ASSUME NEW n \in Nat
  PROVE  /\ \A i \in 1 .. n + 1 : i \in 1 .. n \/ i = n + 1
         /\ \A i \in 1 .. n : i \in 1 .. n + 1 /\ i # n + 1
         /\ n + 1 \in 1 .. n + 1 /\ n + 1 \in Nat
  OBVIOUS

\* What the recursion of retain says of the function it defines.
Scan(cs, keep, k) ==
  [n \in 0 .. Len(cs) |->
     IF n = 0 THEN <<>>
     ELSE IF cs[n] \in keep THEN Append(k[n - 1], cs[n]) ELSE k[n - 1]]

Scanned(cs, keep) == CHOOSE k : k = Scan(cs, keep, k)

\* The recursion has a solution.
LEMMA ScanExists ==
  ASSUME NEW S, NEW cs \in Seq(S), NEW keep
  PROVE  LET k == Scanned(cs, keep)
         IN k = Scan(cs, keep, k) /\ retain(cs, keep) = k[Len(cs)]
  <1> DEFINE L == Len(cs)
             step == [x \in Nat \X Seq(S) |->
                        IF x[1] < L /\ cs[x[1] + 1] \in keep
                        THEN Append(x[2], cs[x[1] + 1]) ELSE x[2]]
  <1>0. L \in Nat /\ \A n \in Nat : n < L => cs[n + 1] \in S
    OBVIOUS
  <1>1. step \in [Nat \X Seq(S) -> Seq(S)]
    BY <1>0
  <1>2. PICK f \in [Nat -> Seq(S)] :
          f[0] = <<>> /\ \A n \in Nat : f[n + 1] = step[<<n, f[n]>>]
    <2>1. <<>> \in Seq(S)
      OBVIOUS
    <2>2. \E f : Iterates(f, Seq(S), <<>>, step)
      <3> HIDE DEF step
      <3> QED BY <1>1, <2>1, Iterate, Zenon
    <2> QED BY <2>2, Zenon DEF Iterates
  <1>3. ASSUME NEW n \in Nat, n < L
        PROVE  f[n + 1] = IF cs[n + 1] \in keep THEN Append(f[n], cs[n + 1]) ELSE f[n]
    <2>1. <<n, f[n]>> \in Nat \X Seq(S) /\ <<n, f[n]>>[1] = n /\ <<n, f[n]>>[2] = f[n]
      BY Zenon
    <2>2. step[<<n, f[n]>>] = IF n < L /\ cs[n + 1] \in keep
                              THEN Append(f[n], cs[n + 1]) ELSE f[n]
      BY <2>1, Zenon
    <2> QED BY <1>2, <1>3, <2>2, Zenon
  <1> HIDE DEF step, L
  <1> DEFINE g == [n \in 0 .. L |-> f[n]]
  <1>4. g = Scan(cs, keep, g)
    <2>1. ASSUME NEW n \in 0 .. L
          PROVE  g[n] = IF n = 0 THEN <<>>
                        ELSE IF cs[n] \in keep THEN Append(g[n - 1], cs[n]) ELSE g[n - 1]
      <3>1. CASE n = 0
        BY <1>2, <3>1, Zenon
      <3>2. CASE n # 0
        <4>1. n - 1 \in Nat /\ n - 1 < L /\ (n - 1) + 1 = n /\ n - 1 \in 0 .. L
          BY <1>0, <3>2
        <4>2. f[n] = IF cs[n] \in keep THEN Append(f[n - 1], cs[n]) ELSE f[n - 1]
          BY <1>3, <4>1, Zenon
        <4> QED BY <3>2, <4>1, <4>2, Zenon
      <3> QED BY <3>1, <3>2, Zenon
    <2> QED BY <2>1, Zenon DEF Scan, L
  <1>5. Scanned(cs, keep) = Scan(cs, keep, Scanned(cs, keep))
    <2> HIDE DEF g
    <2> QED BY <1>4, Zenon DEF Scanned
  <1>6. retain(cs, keep) = Scanned(cs, keep)[Len(cs)]
    BY Zenon DEF retain, Scanned, Scan
  <1> QED BY <1>5, <1>6, Zenon

\* The list k holds what is kept of the first n of cs, and no two of one URI
\* unless cs does.
Distinct(cs) == \A i, j \in DOMAIN cs : cs[i].uri = cs[j].uri => i = j
KeptOf(cs, keep, k, n) ==
  /\ Len(k) <= n
  /\ (\E i \in 1 .. n : cs[i] \notin keep) => Len(k) < n
  /\ \A j \in 1 .. Len(k) : k[j] \in keep /\ \E i \in 1 .. n : k[j] = cs[i]
  /\ \A i \in 1 .. n : cs[i] \in keep => \E j \in 1 .. Len(k) : k[j] = cs[i]
  /\ Distinct(cs) => \A i, j \in 1 .. Len(k) : k[i].uri = k[j].uri => i = j

\* One element is dropped.
LEMMA KeptSkips ==
  ASSUME NEW cs, NEW keep, NEW k, NEW n \in Nat, Len(k) \in Nat,
         KeptOf(cs, keep, k, n), cs[n + 1] \notin keep
  PROVE  KeptOf(cs, keep, k, n + 1)
  <1>1. Len(k) <= n + 1 /\ Len(k) < n + 1
    BY DEF KeptOf
  <1> QED BY <1>1, OneMore, Zenon DEF KeptOf

\* One element is kept.
LEMMA KeptAppends ==
  ASSUME NEW S, NEW cs \in Seq(S), NEW keep, NEW k \in Seq(S), NEW n \in Nat,
         n + 1 <= Len(cs), KeptOf(cs, keep, k, n), cs[n + 1] \in keep
  PROVE  KeptOf(cs, keep, Append(k, cs[n + 1]), n + 1)
  <1> DEFINE r == cs[n + 1]
             h == Append(k, r)
             l == Len(k)
  <1>1. l \in Nat /\ DOMAIN cs = 1 .. Len(cs) /\ Len(cs) \in Nat
    OBVIOUS
  <1>2. Len(h) = l + 1 /\ h[l + 1] = r /\ \A j \in 1 .. l : h[j] = k[j]
    BY <1>1
  <1>3. l <= n /\ l + 1 <= n + 1 /\ (l < n => l + 1 < n + 1)
    BY <1>1 DEF KeptOf
  <1>4. n + 1 \in DOMAIN cs /\ \A i \in 1 .. n : i \in DOMAIN cs
    BY <1>1
  <1> HIDE DEF h, l
  <1>5. ASSUME Distinct(cs), NEW p \in 1 .. l PROVE k[p].uri # r.uri
    <2> SUFFICES ASSUME k[p].uri = r.uri PROVE FALSE
      BY Zenon
    <2>1. PICK q \in 1 .. n : k[p] = cs[q]
      BY Zenon DEF l, KeptOf
    <2>2. q \in DOMAIN cs /\ q # n + 1
      BY <1>4, <2>1, OneMore, Zenon
    <2> QED BY <1>4, <1>5, <2>1, <2>2, Zenon DEF Distinct
  <1>6. ASSUME Distinct(cs), NEW i \in 1 .. l + 1, NEW j \in 1 .. l + 1, h[i].uri = h[j].uri
        PROVE  i = j
    <2>1. CASE i \in 1 .. l /\ j \in 1 .. l
      BY <1>2, <1>6, <2>1, Zenon DEF l, KeptOf
    <2> QED BY <1>1, <1>2, <1>5, <1>6, <2>1, OneMore, Zenon
  <1>7. (\E i \in 1 .. n + 1 : cs[i] \notin keep) => l + 1 < n + 1
    BY <1>3, OneMore, Zenon DEF l, KeptOf
  <1>8. ASSUME NEW j \in 1 .. l + 1 PROVE h[j] \in keep /\ \E i \in 1 .. n + 1 : h[j] = cs[i]
    <2>1. CASE j = l + 1
      BY <1>2, <2>1, OneMore, Zenon
    <2>2. CASE j \in 1 .. l
      <3>1. h[j] = k[j] /\ k[j] \in keep
        BY <1>2, <2>2, Zenon DEF l, KeptOf
      <3>2. PICK i \in 1 .. n : k[j] = cs[i]
        BY <2>2, Zenon DEF l, KeptOf
      <3> QED BY <3>1, <3>2, OneMore, Zenon
    <2> QED BY <1>1, <2>1, <2>2, OneMore, Zenon
  <1>9. ASSUME NEW i \in 1 .. n + 1, cs[i] \in keep PROVE \E j \in 1 .. l + 1 : h[j] = cs[i]
    <2>1. CASE i = n + 1
      BY <1>1, <1>2, <2>1, OneMore, Zenon
    <2>2. CASE i \in 1 .. n
      <3>1. PICK j \in 1 .. l : k[j] = cs[i]
        BY <1>9, <2>2, Zenon DEF l, KeptOf
      <3> QED BY <1>1, <1>2, <3>1, OneMore, Zenon
    <2> QED BY <2>1, <2>2, OneMore, Zenon
  <1>10. KeptOf(cs, keep, h, n + 1)
    BY <1>2, <1>3, <1>6, <1>7, <1>8, <1>9, Zenon DEF KeptOf
  <1> QED BY <1>10, Zenon DEF h

\* retain keeps exactly what it is told to.
LEMMA RetainKeeps ==
  ASSUME NEW S, NEW cs \in Seq(S), NEW keep
  PROVE  retain(cs, keep) \in Seq(S) /\ KeptOf(cs, keep, retain(cs, keep), Len(cs))
  <1> DEFINE L == Len(cs)
             k == Scanned(cs, keep)
             P == {n \in Nat : n <= L => k[n] \in Seq(S) /\ KeptOf(cs, keep, k[n], n)}
  <1>0. L \in Nat /\ \A n \in 1 .. L : cs[n] \in S
    OBVIOUS
  <1>1. /\ \A n \in 0 .. L : k[n] = IF n = 0 THEN <<>>
                                    ELSE IF cs[n] \in keep THEN Append(k[n - 1], cs[n])
                                    ELSE k[n - 1]
        /\ retain(cs, keep) = k[L]
    <2> HIDE DEF k
    <2>1. k = Scan(cs, keep, k) /\ retain(cs, keep) = k[L]
      BY ScanExists, Zenon DEF k
    <2> QED BY <2>1, Zenon DEF Scan
  <1> HIDE DEF k, L
  <1>2. 0 \in P
    <2>1. 0 \in 0 .. L /\ 1 .. 0 = {} /\ Len(<<>>) = 0 /\ <<>> \in Seq(S) /\ 0 <= 0
      BY <1>0
    <2>2. k[0] = <<>>
      BY <1>1, <2>1, Zenon
    <2>3. KeptOf(cs, keep, <<>>, 0)
      BY <2>1, Zenon DEF KeptOf
    <2> QED BY <2>1, <2>2, <2>3, Zenon
  <1>3. ASSUME NEW n \in P PROVE n + 1 \in P
    <2>1. n \in Nat /\ (n <= L => k[n] \in Seq(S) /\ KeptOf(cs, keep, k[n], n))
      BY <1>3, Zenon
    <2> HIDE DEF P
    <2>2. ASSUME n + 1 <= L
          PROVE  k[n + 1] \in Seq(S) /\ KeptOf(cs, keep, k[n + 1], n + 1)
      <3>1. /\ n <= L /\ n + 1 \in 0 .. L /\ n + 1 \in 1 .. L /\ (n + 1) - 1 = n /\ n + 1 # 0
        BY <1>0, <2>1, <2>2, Below, Zenon
      <3>2. k[n + 1] = IF cs[n + 1] \in keep THEN Append(k[n], cs[n + 1]) ELSE k[n]
        BY <1>1, <3>1, Zenon
      <3>3. k[n] \in Seq(S) /\ KeptOf(cs, keep, k[n], n) /\ Len(k[n]) \in Nat /\ cs[n + 1] \in S
        BY <1>0, <2>1, <3>1
      <3>4. CASE cs[n + 1] \notin keep
        BY <2>1, <3>2, <3>3, <3>4, KeptSkips, Zenon
      <3>5. CASE cs[n + 1] \in keep
        <4>1. KeptOf(cs, keep, Append(k[n], cs[n + 1]), n + 1)
          BY <2>1, <2>2, <3>3, <3>5, KeptAppends, Zenon DEF L
        <4>2. Append(k[n], cs[n + 1]) \in Seq(S)
          BY <3>3
        <4> QED BY <3>2, <3>5, <4>1, <4>2, Zenon
      <3> QED BY <3>4, <3>5, Zenon
    <2> QED BY <2>1, <2>2, OneMore, Zenon DEF P
  <1>4. P = Nat
    <2>1. P \in SUBSET Nat
      BY Zenon
    <2> HIDE DEF P
    <2> QED BY <1>2, <1>3, <2>1, Induct, Zenon
  <1>5. L <= L
    BY <1>0
  <1>6. L \in P
    <2> HIDE DEF P
    <2> QED BY <1>0, <1>4, Zenon
  <1> QED BY <1>1, <1>5, <1>6, Zenon DEF L

-----------------------------------------------------------------------------
(* The registrar's operations.                                              *)

Bindings == [uri : Uris, expiration : 1 .. maximum_expiration, age : 0 .. MaxClock]
Requests == [uri : Uris, expires : Nat]

\* A list of bindings the registrar may hold.
Bounded(cs) == cs \in Seq(Bindings) /\ Len(cs) <= max_contacts /\ Distinct(cs)

\* The list cs is made of bindings of ds, and of others whose URI is in U.
From(cs, ds, U) ==
  \A j \in DOMAIN cs : cs[j].uri \in U \/ \E i \in DOMAIN ds : cs[j] = ds[i]

\* What is made of a list made of ds is made of ds.
LEMMA FromFrom ==
  ASSUME NEW bs, NEW cs, NEW ds, NEW U, From(bs, cs, U), From(cs, ds, U)
  PROVE  From(bs, ds, U)
  <1> SUFFICES ASSUME NEW j \in DOMAIN bs, bs[j].uri \notin U
               PROVE  \E i \in DOMAIN ds : bs[j] = ds[i]
    BY Zenon DEF From
  <1>1. PICK p \in DOMAIN cs : bs[j] = cs[p]
    BY Zenon DEF From
  <1> QED BY <1>1, Zenon DEF From

Holding(cs, r) == \E j \in DOMAIN cs : cs[j] = r

\* The parameters, one by one.
LEMMA Params ==
  /\ Expiration \in Nat /\ RefreshPoint \in Nat /\ Timeout \in Nat /\ max_retries \in Nat
  /\ forbidden_retry_interval \in Nat /\ minimum_expiration \in Nat
  /\ maximum_expiration \in Nat /\ MaxDelay \in Nat /\ MaxNet \in Nat /\ MaxClock \in Nat
  /\ max_contacts \in Nat /\ max_contacts >= 1 /\ Me \notin Others /\ "*" \notin Uris
  BY RegAssumption DEF Me, Uris

\* Vec::retain on the registrar's list: what it keeps, that it keeps all of it,
\* and that it shortens the list when it drops something.
LEMMA Kept ==
  ASSUME NEW cs, Bounded(cs), NEW keep
  PROVE  LET k == retain(cs, keep)
         IN /\ Bounded(k)
            /\ \A j \in DOMAIN k : k[j] \in keep /\ \E i \in DOMAIN cs : k[j] = cs[i]
            /\ \A i \in DOMAIN cs : cs[i] \in keep => Holding(k, cs[i])
            /\ (\E i \in DOMAIN cs : cs[i] \notin keep) => Len(k) < Len(cs)
  <1> DEFINE k == retain(cs, keep)
  <1>1. cs \in Seq(Bindings)
    BY Zenon DEF Bounded
  <1>2. k \in Seq(Bindings) /\ KeptOf(cs, keep, k, Len(cs))
    BY <1>1, RetainKeeps, Zenon
  <1> HIDE DEF k
  <1>3. /\ DOMAIN cs = 1 .. Len(cs) /\ DOMAIN k = 1 .. Len(k) /\ Len(cs) \in Nat /\ Len(k) \in Nat
    BY <1>1, <1>2
  <1>4. Len(k) <= max_contacts
    <2>1. Len(k) <= Len(cs) /\ Len(cs) <= max_contacts
      BY <1>2, Zenon DEF KeptOf, Bounded
    <2> QED BY <1>3, <2>1, Params
  <1>5. Distinct(k)
    BY <1>2, <1>3, Zenon DEF KeptOf, Bounded, Distinct
  <1>6. Bounded(k)
    BY <1>2, <1>4, <1>5, Zenon DEF Bounded
  <1>7. /\ \A j \in DOMAIN k : k[j] \in keep /\ \E i \in DOMAIN cs : k[j] = cs[i]
        /\ \A i \in DOMAIN cs : cs[i] \in keep => Holding(k, cs[i])
        /\ (\E i \in DOMAIN cs : cs[i] \notin keep) => Len(k) < Len(cs)
    BY <1>2, <1>3, Zenon DEF KeptOf, Holding
  <1> QED BY <1>6, <1>7, Zenon DEF k

\* unregister leaves no binding of the URI, and the others alone.
LEMMA Unregistered ==
  ASSUME NEW cs, Bounded(cs), NEW u, NEW U, u \in U
  PROVE  LET k == unregister(cs, u)
         IN /\ Bounded(k) /\ From(k, cs, U)
            /\ \A j \in DOMAIN k : k[j].uri # u
            /\ Len(k) <= Len(cs)
            /\ Bound_to(cs, u) => Len(k) < Len(cs)
  <1> DEFINE keep == {r \in Range(cs) : r.uri # u}
             k == retain(cs, keep)
  <1>1. unregister(cs, u) = k
    BY Zenon DEF unregister
  <1>2. /\ Bounded(k)
        /\ \A j \in DOMAIN k : k[j] \in keep /\ \E i \in DOMAIN cs : k[j] = cs[i]
        /\ (\E i \in DOMAIN cs : cs[i] \notin keep) => Len(k) < Len(cs)
    <2> HIDE DEF keep
    <2>1. Bounded(k)
      BY Kept, Zenon
    <2>3. ASSUME NEW j \in DOMAIN k PROVE k[j] \in keep
      BY <2>3, Kept, Zenon
    <2>4. ASSUME NEW j \in DOMAIN k PROVE \E i \in DOMAIN cs : k[j] = cs[i]
      <3>1. \A p \in DOMAIN k : k[p] \in keep /\ \E i \in DOMAIN cs : k[p] = cs[i]
        BY Kept
      <3> QED BY <2>4, <3>1, Zenon
    <2>2. (\E i \in DOMAIN cs : cs[i] \notin keep) => Len(k) < Len(cs)
      BY Kept, Zenon
    <2> QED BY <2>1, <2>2, <2>3, <2>4, Zenon
  <1>3. Len(k) <= Len(cs)
    <2>1. cs \in Seq(Bindings) /\ KeptOf(cs, keep, k, Len(cs))
      <3> HIDE DEF keep
      <3> QED BY RetainKeeps, Zenon DEF Bounded
    <2> HIDE DEF keep, k
    <2> QED BY <2>1, Zenon DEF KeptOf
  <1> HIDE DEF k
  <1>4. From(k, cs, U)
    <2> HIDE DEF keep
    <2> QED BY <1>2, Zenon DEF From
  <1>5. \A j \in DOMAIN k : k[j].uri # u
    BY <1>2, Zenon
  <1>6. Bound_to(cs, u) => Len(k) < Len(cs)
    BY <1>2, Zenon DEF Bound_to
  <1> QED BY <1>1, <1>2, <1>3, <1>4, <1>5, <1>6, Zenon

\* register makes room for the binding only if there was none of its URI.
LEMMA Registered ==
  ASSUME NEW cs, Bounded(cs), NEW u \in Uris, NEW e \in 1 .. maximum_expiration, NEW U, u \in U,
         Bound_to(cs, u) \/ Len(cs) < max_contacts
  PROVE  LET k == register(cs, u, e)
         IN /\ Bounded(k) /\ From(k, cs, U)
            /\ Holding(k, [uri |-> u, expiration |-> e, age |-> 0])
  <1> DEFINE r == [uri |-> u, expiration |-> e, age |-> 0]
             d == unregister(cs, u)
             k == Append(d, r)
             l == Len(d)
  <1>1. register(cs, u, e) = k
    BY Zenon DEF register
  <1>2. r \in Bindings
    BY Params DEF Bindings
  <1>3. /\ Bounded(d) /\ From(d, cs, U)
        /\ \A j \in DOMAIN d : d[j].uri # u
        /\ Len(d) <= Len(cs)
        /\ Bound_to(cs, u) => Len(d) < Len(cs)
    BY Unregistered, Zenon
  <1>4. r.uri = u
    BY Zenon
  <1> HIDE DEF r, d
  <1>5. d \in Seq(Bindings) /\ cs \in Seq(Bindings) /\ Len(cs) <= max_contacts
    BY <1>3, Zenon DEF Bounded
  <1>6. /\ k \in Seq(Bindings) /\ Len(k) = l + 1 /\ k[l + 1] = r
        /\ \A j \in 1 .. l : k[j] = d[j]
        /\ DOMAIN k = 1 .. l + 1 /\ DOMAIN d = 1 .. l /\ l \in Nat
    BY <1>2, <1>5
  <1>7. Len(k) <= max_contacts
    <2>1. Len(d) < Len(cs) \/ Len(cs) < max_contacts
      BY <1>3, Zenon
    <2>2. Len(d) \in Nat /\ Len(cs) \in Nat
      BY <1>5
    <2> QED BY <1>3, <1>5, <1>6, <2>1, <2>2, Params
  <1> HIDE DEF k, l
  <1>8. ASSUME NEW j \in DOMAIN k
        PROVE  (j \in DOMAIN d /\ k[j] = d[j]) \/ (j = l + 1 /\ k[j] = r)
    <2>1. j \in 1 .. l \/ j = l + 1
      BY <1>6, OneMore, Zenon
    <2> QED BY <1>6, <2>1, Zenon
  <1>9. Distinct(k)
    BY <1>3, <1>4, <1>8, Zenon DEF Distinct, Bounded
  <1>10. From(k, cs, U)
    BY <1>3, <1>4, <1>8, Zenon DEF From
  <1>11. Holding(k, r)
    BY <1>6, OneMore, Zenon DEF Holding
  <1> QED BY <1>1, <1>6, <1>7, <1>9, <1>10, <1>11, Zenon DEF Bounded, r

\* remove_oldest makes room for one.
LEMMA Evicted ==
  ASSUME NEW cs, Bounded(cs), Len(cs) >= max_contacts, NEW U
  PROVE  Bounded(Tail(cs)) /\ From(Tail(cs), cs, U) /\ Len(Tail(cs)) < max_contacts
  <1> DEFINE k == Tail(cs)
             l == Len(cs)
  <1>1. cs \in Seq(Bindings) /\ l <= max_contacts /\ l >= max_contacts /\ l \in Nat
    BY DEF Bounded
  <1>2. /\ k \in Seq(Bindings) /\ Len(k) = l - 1 /\ l >= 1
        /\ \A j \in 1 .. l - 1 : k[j] = cs[j + 1]
        /\ DOMAIN k = 1 .. l - 1 /\ DOMAIN cs = 1 .. l
    BY <1>1, Params
  <1> HIDE DEF k, l
  <1>3. Len(k) < max_contacts /\ Len(k) <= max_contacts
    BY <1>1, <1>2, Params
  <1>4. /\ \A j \in 1 .. l - 1 : j + 1 \in 1 .. l
        /\ \A i, j \in 1 .. l - 1 : i + 1 = j + 1 => i = j
    BY <1>1, <1>2
  <1>5. \A j \in DOMAIN k : j + 1 \in DOMAIN cs /\ k[j] = cs[j + 1]
    BY <1>2, <1>4, Zenon
  <1>6. Distinct(k)
    <2> SUFFICES ASSUME NEW i \in DOMAIN k, NEW j \in DOMAIN k, k[i].uri = k[j].uri PROVE i = j
      BY Zenon DEF Distinct
    <2>1. i + 1 \in DOMAIN cs /\ j + 1 \in DOMAIN cs /\ cs[i + 1].uri = cs[j + 1].uri
      BY <1>5, Zenon
    <2>2. i + 1 = j + 1
      BY <2>1, Zenon DEF Distinct, Bounded
    <2> QED BY <1>2, <1>4, <2>2, Zenon
  <1>7. From(k, cs, U)
    BY <1>5, Zenon DEF From
  <1> QED BY <1>2, <1>3, <1>6, <1>7, Zenon DEF Bounded, k

\* What is granted does not exceed the maximum.
LEMMA Clamped ==
  ASSUME NEW raw \in Nat
  PROVE  determine_expiration(raw) \in 0 .. maximum_expiration
  BY Params DEF determine_expiration

\* One Contact of a REGISTER.
Accs == {a \in [contacts : Seq(Bindings), ok : BOOLEAN] : Bounded(a.contacts)}

\* bind keeps the limit and touches no URI but its own; when it binds, the new
\* binding is there, and when it refuses, nothing has changed.
LEMMA BindOne ==
  ASSUME NEW acc \in Accs, NEW c \in Requests, NEW U, c.uri \in U
  PROVE  LET b == bind(acc, c)
             e == determine_expiration(c.expires)
         IN /\ b \in Accs /\ From(b.contacts, acc.contacts, U)
            /\ acc.ok /\ b.ok /\ e # 0 =>
                 Holding(b.contacts, [uri |-> c.uri, expiration |-> e, age |-> 0])
            /\ acc.ok /\ ~ b.ok =>
                 b.contacts = acc.contacts /\ ~ Bound_to(acc.contacts, c.uri)
  <1> DEFINE b == bind(acc, c)
             e == determine_expiration(c.expires)
             cs == acc.contacts
             fresh == ~ Bound_to(cs, c.uri)
             full == Len(cs) >= max_contacts
             room == IF fresh /\ full THEN Tail(cs) ELSE cs
             with(d) == [acc EXCEPT !.contacts = d]
  <1>1. /\ acc \in [contacts : Seq(Bindings), ok : BOOLEAN] /\ Bounded(cs)
        /\ c.uri \in Uris /\ c.expires \in Nat
    BY Zenon DEF Accs, Requests
  <1>2. e \in 0 .. maximum_expiration
    BY <1>1, Clamped, Zenon
  <1>3. b = IF ~ acc.ok THEN acc
            ELSE IF e = 0 THEN with(unregister(cs, c.uri))
            ELSE IF fresh /\ full /\ ~ policy.remove_existing THEN [acc EXCEPT !.ok = FALSE]
            ELSE with(register(room, c.uri, e))
    BY Zenon DEF bind
  <1>4. ASSUME NEW d, Bounded(d)
        PROVE  with(d) \in Accs /\ with(d).contacts = d /\ (acc.ok => with(d).ok)
    <2>1. d \in Seq(Bindings)
      BY <1>4, Zenon DEF Bounded
    <2>2. /\ with(d) \in [contacts : Seq(Bindings), ok : BOOLEAN]
          /\ with(d).contacts = d /\ with(d).ok = acc.ok
      BY <1>1, <2>1
    <2> QED BY <1>4, <2>2, Zenon DEF Accs
  <1>5. From(cs, cs, U)
    BY Zenon DEF From
  <1>6. /\ [acc EXCEPT !.ok = FALSE] \in Accs /\ [acc EXCEPT !.ok = FALSE].contacts = cs
        /\ ~ [acc EXCEPT !.ok = FALSE].ok
    <2>1. /\ [acc EXCEPT !.ok = FALSE] \in [contacts : Seq(Bindings), ok : BOOLEAN]
          /\ [acc EXCEPT !.ok = FALSE].contacts = cs /\ [acc EXCEPT !.ok = FALSE].ok = FALSE
      BY <1>1, Zenon
    <2> QED BY <1>1, <2>1, Zenon DEF Accs
  <1>7. Bounded(unregister(cs, c.uri)) /\ From(unregister(cs, c.uri), cs, U)
    BY <1>1, Unregistered, Zenon
  <1>8. ASSUME e # 0
        PROVE  LET k == register(room, c.uri, e)
               IN /\ Bounded(k) /\ From(k, cs, U)
                  /\ Holding(k, [uri |-> c.uri, expiration |-> e, age |-> 0])
    <2>1. e \in 1 .. maximum_expiration
      BY <1>2, <1>8, Params
    <2>2. CASE fresh /\ full
      <3> DEFINE t == Tail(cs)
                 k == register(t, c.uri, e)
      <3>1. Bounded(t) /\ From(t, cs, U) /\ Len(t) < max_contacts
        BY <1>1, <2>2, Evicted, Zenon
      <3> HIDE DEF t
      <3>2. /\ Bounded(k) /\ From(k, t, U)
            /\ Holding(k, [uri |-> c.uri, expiration |-> e, age |-> 0])
        <4> HIDE DEF e
        <4> QED BY <1>1, <2>1, <3>1, Registered, Zenon
      <3> HIDE DEF k
      <3>3. From(k, cs, U)
        BY <3>1, <3>2, FromFrom, Zenon
      <3> QED BY <2>2, <3>2, <3>3, Zenon DEF k, t
    <2>3. CASE ~ (fresh /\ full)
      <3>1. Bound_to(cs, c.uri) \/ Len(cs) < max_contacts
        <4>1. Len(cs) \in Nat
          BY <1>1
        <4> QED BY <2>3, <4>1, Params
      <3> HIDE DEF e
      <3> QED BY <1>1, <2>1, <2>3, <3>1, Registered, Zenon
    <2> QED BY <2>2, <2>3, Zenon
  <1> HIDE DEF e, fresh, full, room, with
  <1>9. CASE ~ acc.ok
    BY <1>3, <1>5, <1>9, Zenon
  <1>10. CASE acc.ok /\ e = 0
    <2>1. b = with(unregister(cs, c.uri))
      BY <1>3, <1>10, Zenon
    <2>2. b \in Accs /\ b.contacts = unregister(cs, c.uri)
      BY <1>4, <1>7, <2>1, Zenon
    <2>3. b.ok
      BY <1>4, <1>7, <1>10, <2>1, Zenon
    <2> QED BY <1>7, <1>10, <2>2, <2>3, Zenon DEF e
  <1>11. CASE acc.ok /\ e # 0 /\ fresh /\ full /\ ~ policy.remove_existing
    <2>1. b = [acc EXCEPT !.ok = FALSE]
      BY <1>3, <1>11, Zenon
    <2> QED BY <1>5, <1>6, <1>11, <2>1, Zenon DEF fresh
  <1>12. CASE acc.ok /\ e # 0 /\ ~ (fresh /\ full /\ ~ policy.remove_existing)
    <2>1. b = with(register(room, c.uri, e))
      BY <1>3, <1>12, Zenon
    <2> DEFINE k == register(room, c.uri, e)
    <2>2. /\ Bounded(k) /\ From(k, cs, U)
          /\ Holding(k, [uri |-> c.uri, expiration |-> e, age |-> 0])
      BY <1>8, <1>12, Zenon
    <2>3. b = with(k)
      BY <2>1, Zenon
    <2> HIDE DEF k
    <2>4. b \in Accs /\ b.contacts = k /\ b.ok
      BY <1>4, <1>12, <2>2, <2>3, Zenon
    <2> QED BY <1>12, <2>2, <2>4, Zenon DEF e
  <1>13. \/ ~ acc.ok \/ (acc.ok /\ e = 0)
         \/ (acc.ok /\ e # 0 /\ fresh /\ full /\ ~ policy.remove_existing)
         \/ (acc.ok /\ e # 0 /\ ~ (fresh /\ full /\ ~ policy.remove_existing))
    BY Zenon
  <1> QED BY <1>9, <1>10, <1>11, <1>12, <1>13, Zenon DEF e

\* The purge of a 200 keeps what has not expired.
LEMMA LiveKeeps ==
  ASSUME NEW cs, Bounded(cs), NEW U
  PROVE  /\ Bounded(Live(cs)) /\ From(Live(cs), cs, U)
         /\ \A i \in DOMAIN cs : ~ is_expired(cs[i]) => Holding(Live(cs), cs[i])
  <1> DEFINE keep == {r \in Range(cs) : ~ is_expired(r)}
             k == retain(cs, keep)
  <1>1. Live(cs) = k
    BY Zenon DEF Live
  <1>2. ASSUME NEW i \in DOMAIN cs, ~ is_expired(cs[i]) PROVE cs[i] \in keep
    BY <1>2, Zenon DEF Range
  <1> HIDE DEF keep
  <1>3. /\ Bounded(k)
        /\ \A i \in DOMAIN cs : cs[i] \in keep => Holding(k, cs[i])
    BY Kept, Zenon
  <1>4. \A j \in DOMAIN k : k[j] \in keep /\ \E i \in DOMAIN cs : k[j] = cs[i]
    BY Kept
  <1>5. From(k, cs, U)
    BY <1>4, Zenon DEF From
  <1> QED BY <1>1, <1>2, <1>3, <1>5, Zenon

\* What the recursion of handle_register says of the function it defines.
First == [contacts |-> contacts, ok |-> TRUE]
Handle(cs, k) == [n \in 0 .. Len(cs) |-> IF n = 0 THEN First ELSE bind(k[n - 1], cs[n])]
Handled(cs) == CHOOSE k : k = Handle(cs, k)

\* The recursion has a solution, and handle_register uses it.
LEMMA HandleExists ==
  ASSUME Bounded(contacts), NEW cs \in Seq(Requests)
  PROVE  First \in Accs /\ Handled(cs) = Handle(cs, Handled(cs))
  <1> DEFINE L == Len(cs)
             step == [x \in Nat \X Accs |->
                        IF x[1] < L THEN bind(x[2], cs[x[1] + 1]) ELSE x[2]]
  <1>0. L \in Nat /\ \A n \in Nat : n < L => cs[n + 1] \in Requests
    OBVIOUS
  <1> HIDE DEF L
  <1>1. First \in Accs
    <2>1. First.contacts = contacts /\ contacts \in Seq(Bindings)
      BY Zenon DEF First, Bounded
    <2>2. First \in [contacts : Seq(Bindings), ok : BOOLEAN]
      BY <2>1 DEF First
    <2> QED BY <2>1, <2>2, Zenon DEF Accs
  <1>2. step \in [Nat \X Accs -> Accs]
    <2>1. ASSUME NEW n \in Nat, NEW a \in Accs, n < L PROVE bind(a, cs[n + 1]) \in Accs
      <3>1. cs[n + 1].uri \in {cs[n + 1].uri}
        BY Zenon
      <3> QED BY <1>0, <2>1, <3>1, BindOne, Zenon
    <2>2. ASSUME NEW x \in Nat \X Accs PROVE step[x] \in Accs
      <3>1. x[1] \in Nat /\ x[2] \in Accs
        BY <2>2, Zenon
      <3>2. step[x] = IF x[1] < L THEN bind(x[2], cs[x[1] + 1]) ELSE x[2]
        BY <2>2, Zenon
      <3> HIDE DEF step
      <3> QED BY <2>1, <3>1, <3>2, Zenon
    <2> QED BY <2>2, Zenon
  <1>3. PICK f : Iterates(f, Accs, First, step)
    <2> HIDE DEF step
    <2> QED BY <1>1, <1>2, Iterate, Zenon
  <1>4. ASSUME NEW n \in Nat, n < L PROVE f[n + 1] = bind(f[n], cs[n + 1])
    <2>1. f[n] \in Accs /\ f[n + 1] = step[<<n, f[n]>>]
      <3> HIDE DEF step
      <3> QED BY <1>3, Zenon DEF Iterates
    <2>2. <<n, f[n]>> \in Nat \X Accs /\ <<n, f[n]>>[1] = n /\ <<n, f[n]>>[2] = f[n]
      BY <2>1, Zenon
    <2>3. step[<<n, f[n]>>] = IF n < L THEN bind(f[n], cs[n + 1]) ELSE f[n]
      BY <2>2, Zenon
    <2> QED BY <1>4, <2>1, <2>3, Zenon
  <1> HIDE DEF step
  <1> DEFINE g == [n \in 0 .. L |-> f[n]]
  <1>5. g = Handle(cs, g)
    <2>1. ASSUME NEW n \in 0 .. L PROVE g[n] = IF n = 0 THEN First ELSE bind(g[n - 1], cs[n])
      <3>1. CASE n = 0
        BY <1>3, <3>1, Zenon DEF Iterates
      <3>2. CASE n # 0
        <4>1. n - 1 \in Nat /\ n - 1 < L /\ (n - 1) + 1 = n /\ n - 1 \in 0 .. L
          BY <1>0, <3>2
        <4>2. f[n] = bind(f[n - 1], cs[n])
          BY <1>4, <4>1, Zenon
        <4> QED BY <3>2, <4>1, <4>2, Zenon
      <3> QED BY <3>1, <3>2, Zenon
    <2> QED BY <2>1, Zenon DEF Handle, L
  <1> HIDE DEF g
  <1> QED BY <1>1, <1>5, Zenon DEF Handled

\* A REGISTER, however many Contacts it has: what it leaves is within the
\* limit, and the bindings it does not name are left alone or removed.
LEMMA HandleKeeps ==
  ASSUME Bounded(contacts), NEW cs \in Seq(Requests), NEW U,
         \A n \in DOMAIN cs : cs[n].uri \in U
  PROVE  LET k == Handled(cs)
         IN /\ k[Len(cs)] \in Accs /\ From(k[Len(cs)].contacts, contacts, U)
            /\ k[0] = First
            /\ \A n \in Nat : n + 1 <= Len(cs) => k[n + 1] = bind(k[n], cs[n + 1])
  <1> DEFINE L == Len(cs)
             k == Handled(cs)
             P == {n \in Nat : n <= L => k[n] \in Accs /\ From(k[n].contacts, contacts, U)}
  <1>0. L \in Nat /\ \A n \in 1 .. L : cs[n] \in Requests /\ cs[n].uri \in U
    OBVIOUS
  <1>1. First \in Accs /\ k = Handle(cs, k)
    BY HandleExists, Zenon
  <1> HIDE DEF L, k
  <1>2. \A n \in 0 .. L : k[n] = IF n = 0 THEN First ELSE bind(k[n - 1], cs[n])
    BY <1>1, Zenon DEF Handle, L
  <1>3. k[0] = First /\ 0 \in Nat
    <2>1. 0 \in 0 .. L /\ 0 \in Nat
      BY <1>0
    <2> QED BY <1>2, <2>1, Zenon
  <1>4. ASSUME NEW n \in Nat, n + 1 <= L PROVE k[n + 1] = bind(k[n], cs[n + 1])
    <2>1. n + 1 \in 0 .. L /\ (n + 1) - 1 = n /\ n + 1 # 0
      BY <1>0, <1>4, Below, Zenon
    <2> QED BY <1>2, <2>1, Zenon
  <1>5. 0 \in P
    <2>1. From(First.contacts, contacts, U)
      BY Zenon DEF First, From
    <2> QED BY <1>1, <1>3, <2>1, Zenon
  <1>6. ASSUME NEW n \in P PROVE n + 1 \in P
    <2>1. n \in Nat /\ (n <= L => k[n] \in Accs /\ From(k[n].contacts, contacts, U))
      BY <1>6, Zenon
    <2> HIDE DEF P
    <2>2. ASSUME n + 1 <= L PROVE k[n + 1] \in Accs /\ From(k[n + 1].contacts, contacts, U)
      <3>1. n <= L /\ n + 1 \in 1 .. L
        BY <1>0, <2>1, <2>2, Below, Zenon
      <3> DEFINE b == bind(k[n], cs[n + 1])
      <3>2. b \in Accs /\ From(b.contacts, k[n].contacts, U)
        BY <1>0, <2>1, <3>1, BindOne, Zenon
      <3>3. From(b.contacts, contacts, U)
        <4> HIDE DEF b
        <4> QED BY <2>1, <3>1, <3>2, FromFrom, Zenon
      <3> QED BY <1>4, <2>1, <2>2, <3>2, <3>3, Zenon
    <2> QED BY <2>1, <2>2, OneMore, Zenon DEF P
  <1>7. P = Nat
    <2>1. P \in SUBSET Nat
      BY Zenon
    <2> HIDE DEF P
    <2> QED BY <1>5, <1>6, <2>1, Induct, Zenon
  <1>8. L \in P /\ L <= L
    <2>1. L <= L
      BY <1>0
    <2> HIDE DEF P
    <2> QED BY <1>0, <1>7, <2>1, Zenon
  <1> QED BY <1>3, <1>4, <1>8, Zenon DEF L, k

\* A REGISTER of any number of Contacts keeps the limit and touches no URI but
\* those it names, refused half way or not.
LEMMA RegisterKeeps ==
  ASSUME Bounded(contacts), NEW cs, NEW U,
         \/ Bound_to(cs, "*")
         \/ cs \in Seq(Requests) /\ \A n \in DOMAIN cs : cs[n].uri \in U
  PROVE  LET r == handle_register(cs)
         IN Bounded(r.contacts) /\ From(r.contacts, contacts, U) /\ (~ Bound_to(cs, "*") => r.status \in {"200", "403"})
  <1>1. CASE Bound_to(cs, "*")
    <2>1. \/ handle_register(cs) = [status |-> "200", contacts |-> <<>>]
          \/ handle_register(cs) = [status |-> "400", contacts |-> contacts]
      BY <1>1, Zenon DEF handle_register
    <2>2. Bounded(<<>>) /\ From(<<>>, contacts, U)
      BY Params DEF Bounded, From, Distinct
    <2>3. From(contacts, contacts, U)
      BY Zenon DEF From
    <2>4. handle_register(cs).contacts = <<>> \/ handle_register(cs).contacts = contacts
      BY <2>1
    <2> QED BY <1>1, <2>2, <2>3, <2>4, Zenon
  <1>2. CASE ~ Bound_to(cs, "*")
    <2> DEFINE a == Handled(cs)[Len(cs)]
    <2>1. handle_register(cs) = IF a.ok THEN [status |-> "200", contacts |-> Live(a.contacts)]
                                ELSE [status |-> "403", contacts |-> a.contacts]
      BY <1>2, Zenon DEF handle_register, Handled, Handle, First
    <2>2. a \in Accs /\ From(a.contacts, contacts, U)
      BY <1>2, HandleKeeps, Zenon
    <2> HIDE DEF a
    <2>3. Bounded(a.contacts)
      BY <2>2, Zenon DEF Accs
    <2>4. Bounded(Live(a.contacts)) /\ From(Live(a.contacts), contacts, U)
      BY <2>2, <2>3, LiveKeeps, FromFrom, Zenon
    <2>5. CASE a.ok
      <3>1. handle_register(cs).contacts = Live(a.contacts) /\ handle_register(cs).status = "200"
        BY <2>1, <2>5
      <3> QED BY <2>4, <3>1, Zenon
    <2>6. CASE ~ a.ok
      <3>1. handle_register(cs).contacts = a.contacts /\ handle_register(cs).status = "403"
        BY <2>1, <2>6
      <3> QED BY <2>2, <2>3, <3>1, Zenon
    <2> QED BY <2>5, <2>6, Zenon
  <1> QED BY <1>1, <1>2, Zenon

\* The device's own REGISTER binds it, or finds it unbound and the list full.
LEMMA MineBinds ==
  ASSUME Bounded(contacts), NEW e \in Nat, determine_expiration(e) # 0
  PROVE  LET r == handle_register(<< [uri |-> Me, expires |-> e] >>)
         IN /\ r.status = "200" =>
                 Holding(r.contacts, [uri |-> Me, expiration |-> determine_expiration(e),
                                      age |-> 0])
            /\ r.status # "200" => r.contacts = contacts /\ ~ Bound_to(contacts, Me)
  <1> DEFINE c == [uri |-> Me, expires |-> e]
             cs == << c >>
             a == Handled(cs)[Len(cs)]
             x == determine_expiration(e)
             m == [uri |-> Me, expiration |-> x, age |-> 0]
  <1>1. c \in Requests /\ c.uri = Me /\ c.expires = e
    BY DEF Requests, Uris
  <1>2. cs \in Seq(Requests) /\ Len(cs) = 1 /\ cs[1] = c /\ DOMAIN cs = {1}
    <2> HIDE DEF c
    <2> QED BY <1>1
  <1>3. ~ Bound_to(cs, "*")
    <2>1. Me # "*"
      BY DEF Me
    <2> HIDE DEF c, cs
    <2> QED BY <1>1, <1>2, <2>1, Zenon DEF Bound_to
  <1>4. handle_register(cs) = IF a.ok THEN [status |-> "200", contacts |-> Live(a.contacts)]
                              ELSE [status |-> "403", contacts |-> a.contacts]
    BY <1>3, Zenon DEF handle_register, Handled, Handle, First
  <1> HIDE DEF cs, c
  <1>5. a = bind(First, c) /\ a \in Accs
    <2>1. \A n \in DOMAIN cs : cs[n].uri \in Uris
      BY <1>1, <1>2, Zenon DEF Uris
    <2>2. 0 \in Nat /\ 0 + 1 <= Len(cs) /\ 0 + 1 = 1
      BY <1>2
    <2>3. /\ Handled(cs)[Len(cs)] \in Accs /\ Handled(cs)[0] = First
          /\ \A n \in Nat : n + 1 <= Len(cs) => Handled(cs)[n + 1] = bind(Handled(cs)[n], cs[n + 1])
      BY <1>2, <2>1, HandleKeeps, Zenon
    <2> QED BY <1>2, <2>2, <2>3, Zenon
  <1>6. First \in Accs /\ First.ok /\ First.contacts = contacts
    BY <1>2, HandleExists, Zenon DEF First
  <1>7. /\ a.ok => Holding(a.contacts, m)
        /\ ~ a.ok => a.contacts = contacts /\ ~ Bound_to(contacts, Me)
    <2>1. c.uri \in {Me}
      BY <1>1, Zenon
    <2> QED BY <1>1, <1>5, <1>6, <2>1, BindOne, Zenon
  <1> HIDE DEF a
  <1>8. ~ is_expired(m)
    <2>1. x \in 0 .. maximum_expiration
      BY Clamped, Zenon
    <2> QED BY <2>1, Params DEF is_expired
  <1> HIDE DEF m, x
  <1>9. a.ok => Holding(Live(a.contacts), m)
    <2> SUFFICES ASSUME a.ok PROVE Holding(Live(a.contacts), m)
      BY Zenon
    <2>1. Bounded(a.contacts)
      BY <1>5, Zenon DEF Accs
    <2>2. PICK i \in DOMAIN a.contacts : a.contacts[i] = m
      BY <1>7, Zenon DEF Holding
    <2> QED BY <1>8, <2>1, <2>2, LiveKeeps, Zenon
  <1>10. CASE a.ok
    <2>1. handle_register(cs).contacts = Live(a.contacts) /\ handle_register(cs).status = "200"
      BY <1>4, <1>10
    <2> QED BY <1>9, <1>10, <2>1, Zenon DEF cs, c, m, x
  <1>11. CASE ~ a.ok
    <2>1. handle_register(cs).contacts = a.contacts /\ handle_register(cs).status = "403"
      BY <1>4, <1>11
    <2> QED BY <1>7, <1>11, <2>1, Zenon DEF cs, c, m, x
  <1> QED BY <1>10, <1>11, Zenon

-----------------------------------------------------------------------------
(* Types and the limit.                                                     *)

States == {"Unregistered", "Registering", "Registered", "Refreshing", "Rejected", "Stopping"}
Tries == 0 .. max_retries
Times == SUBSET (0 .. MaxClock)
Agents == [state : States, retries : Tries, challenged : BOOLEAN, last_sent : Times]
Ups == [expires : {0, Expiration}, auth : BOOLEAN, age : 0 .. MaxDelay]
Downs == [status : {"200", "401", "403", "503"}, age : 0 .. MaxDelay]

Typed ==
  /\ Bounded(contacts)
  /\ agent \in Agents /\ up \subseteq Ups /\ down \subseteq Downs
  /\ ticked \in BOOLEAN /\ history \in [stopped : BOOLEAN, unbound : BOOLEAN]

\* The clock and the count start in range.
LEMMA Zero == {0} \in Times /\ 0 \in Tries
  BY Params DEF Times, Tries

\* Of what is sent at most the new datagram is added.
LEMMA Sends ==
  ASSUME NEW ms, NEW m
  PROVE  Put(ms, m) \subseteq ms \cup {m}
  BY Zenon DEF Put

\* What is under way stays of one kind.
LEMMA SendsOne ==
  ASSUME NEW T, NEW ms \in SUBSET T, NEW m \in T
  PROVE  Put(ms, m) \subseteq T
  BY Zenon DEF Put

\* The requests of the other devices name URIs of theirs.
LEMMA OthersAsk ==
  ASSUME NEW cs \in OtherRequests
  PROVE  \/ Bound_to(cs, "*")
         \/ cs \in Seq(Requests) /\ \A n \in DOMAIN cs : cs[n].uri \in Others
  <1> DEFINE T == [uri : Others, expires : Nat]
  <1>1. CASE cs \in Seq(T)
    <2>1. T \subseteq Requests /\ \A c \in T : c.uri \in Others
      BY DEF Requests, Uris
    <2> HIDE DEF T
    <2>2. Len(cs) \in Nat /\ DOMAIN cs = 1 .. Len(cs) /\ \A n \in 1 .. Len(cs) : cs[n] \in T
      BY <1>1
    <2>3. cs \in Seq(Requests)
      <3>1. cs \in [1 .. Len(cs) -> T]
        BY <1>1
      <3>2. cs \in [1 .. Len(cs) -> Requests]
        BY <2>1, <3>1
      <3> QED BY <2>2, <3>2
    <2> QED BY <2>1, <2>2, <2>3, Zenon
  <1>2. CASE cs \in Seq([uri : {"*"}, expires : Nat]) /\ Len(cs) = 1
    <2> DEFINE W == [uri : {"*"}, expires : Nat]
    <2>0. \A c \in W : c.uri = "*"
      OBVIOUS
    <2> HIDE DEF W
    <2>2. 1 \in DOMAIN cs /\ cs[1] \in W
      <3>1. cs \in Seq(W) /\ Len(cs) = 1
        BY <1>2, Zenon DEF W
      <3> QED BY <3>1
    <2>1. 1 \in DOMAIN cs /\ cs[1].uri = "*"
      BY <2>0, <2>2, Zenon
    <2> QED BY <2>1, Zenon DEF Bound_to
  <1> QED BY <1>1, <1>2, RegAssumption, Zenon

\* What a call of tick() does.
Tried(a) == a.state \in {"Unregistered", "Rejected"} /\ a.last_sent = {0}

\* handle_failure leaves the device out of Registered, its clock restarted.
LEMMA Failing ==
  ASSUME agent \in Agents
  PROVE  handle_failure(agent) \in Agents /\ Tried(handle_failure(agent))
  <1> DEFINE n == IF agent.retries < max_retries THEN agent.retries + 1 ELSE agent.retries
             st == IF max_retries > 0 /\ agent.retries + 1 >= max_retries
                   THEN "Rejected" ELSE "Unregistered"
             a == [agent EXCEPT !.retries = n, !.state = st, !.last_sent = {0}]
  <1>1. handle_failure(agent) = a
    BY DEF handle_failure
  <1>2. n \in Tries
    <2>1. agent.retries \in Tries
      BY Zenon DEF Agents
    <2> QED BY <2>1, Params DEF Tries
  <1>3. st \in {"Unregistered", "Rejected"} /\ st \in States
    BY Zenon DEF States
  <1> HIDE DEF n, st
  <1>4. a \in Agents /\ a.state = st /\ a.last_sent = {0}
    BY <1>2, <1>3, Zero, Zenon DEF Agents
  <1> QED BY <1>1, <1>3, <1>4, Zenon DEF Tried

\* tick sends a REGISTER, gives up an attempt, or does nothing because nothing
\* is due.
LEMMA TickSteps ==
  ASSUME Typed, tick
  PROVE  \/ /\ agent' \in Agents /\ agent'.state \in {"Registering", "Refreshing"}
            /\ agent'.last_sent = {0}
            /\ up' \subseteq up \cup {[expires |-> Expiration, auth |-> FALSE, age |-> 0]}
         \/ agent' \in Agents /\ Tried(agent') /\ up' = up
         \/ agent' = agent /\ up' = up /\ (agent.state = "Registered" => ~ Due(RefreshPoint))
  <1>0. agent \in Agents
    BY Zenon DEF Typed
  <1>1. ASSUME NEW s \in {"Registering", "Refreshing"},
               build_register([agent EXCEPT !.state = s], Expiration, FALSE)
        PROVE  /\ agent' \in Agents /\ agent'.state \in {"Registering", "Refreshing"}
               /\ agent'.last_sent = {0}
               /\ up' \subseteq up \cup {[expires |-> Expiration, auth |-> FALSE, age |-> 0]}
    <2>1. agent' = [[agent EXCEPT !.state = s] EXCEPT !.last_sent = {0}]
      BY <1>1, Zenon DEF build_register
    <2>2. agent' \in Agents /\ agent'.state = s /\ agent'.last_sent = {0}
      BY <1>0, <2>1, Zero, Zenon DEF Agents, States
    <2>3. up' \subseteq up \cup {[expires |-> Expiration, auth |-> FALSE, age |-> 0]}
      BY <1>1 DEF build_register, Put
    <2> QED BY <2>2, <2>3, Zenon
  <1>2. CASE agent.state = "Unregistered"
    <2>1. build_register([agent EXCEPT !.state = "Registering"], Expiration, FALSE)
      BY <1>2, Zenon DEF tick
    <2> QED BY <1>1, <2>1, Zenon
  <1>3. CASE agent.state \in {"Registering", "Refreshing"}
    <2>1. Quiet(IF Due(Timeout + 1) THEN handle_failure(agent) ELSE agent)
      BY <1>3, Zenon DEF tick
    <2>2. up' = up /\ (agent' = handle_failure(agent) \/ agent' = agent)
      BY <2>1, Zenon DEF Quiet
    <2> QED BY <1>0, <1>3, <2>2, Failing
  <1>4. CASE agent.state = "Registered"
    <2>1. CASE Due(RefreshPoint)
      <3>1. build_register([agent EXCEPT !.state = "Refreshing"], Expiration, FALSE)
        BY <1>4, <2>1, Zenon DEF tick
      <3> QED BY <1>1, <3>1, Zenon
    <2>2. CASE ~ Due(RefreshPoint)
      <3>1. Quiet(agent)
        BY <1>4, <2>2 DEF tick
      <3> QED BY <2>2, <3>1, Zenon DEF Quiet
    <2> QED BY <2>1, <2>2, Zenon
  <1>5. CASE agent.state = "Rejected"
    <2>1. \/ build_register([agent EXCEPT !.state = "Registering"], Expiration, FALSE)
          \/ Quiet(agent)
      BY <1>5, Zenon DEF tick
    <2>2. CASE Quiet(agent)
      BY <1>5, <2>2 DEF Quiet
    <2> QED BY <1>1, <2>1, <2>2, Zenon
  <1>6. CASE agent.state = "Stopping"
    <2>1. Quiet(agent)
      BY <1>6 DEF tick
    <2> QED BY <1>6, <2>1 DEF Quiet
  <1>7. agent.state \in States
    BY <1>0 DEF Agents
  <1> QED BY <1>2, <1>3, <1>4, <1>5, <1>6, <1>7, Zenon DEF States

\* What a response does.
LEMMA ResponseSteps ==
  ASSUME Typed, NEW st \in {"200", "401", "403", "503"}, on_response(st)
  PROVE  /\ agent' \in Agents
         /\ \/ /\ st = "200" /\ agent'.state = "Registered" /\ ~ agent'.challenged
               /\ agent'.last_sent = agent.last_sent /\ up' = up
            \/ /\ st = "401" /\ (auth_rejection_permanent => ~ agent.challenged)
               /\ agent'.challenged
               /\ agent'.state = agent.state /\ agent'.last_sent = {0}
               /\ up' \subseteq up \cup {[expires |-> Expiration, auth |-> TRUE, age |-> 0]}
            \/ Tried(agent') /\ up' = up
  <1>0. agent \in Agents
    BY Zenon DEF Typed
  <1>1. CASE st = "200"
    <2>1. Quiet([agent EXCEPT !.state = "Registered", !.retries = 0, !.challenged = FALSE])
      BY <1>1 DEF on_response
    <2>2. /\ agent' = [agent EXCEPT !.state = "Registered", !.retries = 0, !.challenged = FALSE]
          /\ up' = up
      BY <2>1, Zenon DEF Quiet
    <2>3. /\ agent' \in Agents /\ agent'.state = "Registered" /\ agent'.challenged = FALSE
          /\ agent'.last_sent = agent.last_sent
      BY <1>0, <2>2, Zero, Zenon DEF Agents, States
    <2> QED BY <1>1, <2>2, <2>3, Zenon
  <1>2. ASSUME Quiet([agent EXCEPT !.state = "Rejected", !.last_sent = {0}])
        PROVE  agent' \in Agents /\ Tried(agent') /\ up' = up
    <2>1. agent' = [agent EXCEPT !.state = "Rejected", !.last_sent = {0}] /\ up' = up
      BY <1>2, Zenon DEF Quiet
    <2>2. agent' \in Agents /\ agent'.state = "Rejected" /\ agent'.last_sent = {0}
      BY <1>0, <2>1, Zero, Zenon DEF Agents, States
    <2> QED BY <2>1, <2>2, Zenon DEF Tried
  <1>3. CASE st = "401"
    <2>1. CASE agent.challenged /\ auth_rejection_permanent
      <3>1. Quiet([agent EXCEPT !.state = "Rejected", !.last_sent = {0}])
        BY <1>3, <2>1 DEF on_response
      <3> QED BY <1>2, <3>1, Zenon
    <2>2. CASE ~ (agent.challenged /\ auth_rejection_permanent)
      <3>1. build_register([agent EXCEPT !.challenged = TRUE], Expiration, TRUE)
        BY <1>3, <2>2, Zenon DEF on_response
      <3>2. agent' = [[agent EXCEPT !.challenged = TRUE] EXCEPT !.last_sent = {0}]
        BY <3>1, Zenon DEF build_register
      <3>3. /\ agent' \in Agents /\ agent'.challenged = TRUE /\ agent'.state = agent.state
            /\ agent'.last_sent = {0}
        BY <1>0, <3>2, Zero, Zenon DEF Agents
      <3>4. up' \subseteq up \cup {[expires |-> Expiration, auth |-> TRUE, age |-> 0]}
        BY <3>1 DEF build_register, Put
      <3> QED BY <1>3, <2>2, <3>3, <3>4, Zenon
    <2> QED BY <2>1, <2>2, Zenon
  <1>4. CASE st = "403"
    <2>1. Quiet([agent EXCEPT !.state = "Rejected", !.last_sent = {0}])
      BY <1>4 DEF on_response
    <2> QED BY <1>2, <2>1, Zenon
  <1>5. CASE st = "503"
    <2>1. Quiet(handle_failure(agent))
      BY <1>5 DEF on_response
    <2> QED BY <1>0, <2>1, Failing, Zenon DEF Quiet
  <1> QED BY <1>1, <1>3, <1>4, <1>5, Zenon

\* A unit of time makes every binding older, and changes nothing else of it.
LEMMA Ages ==
  ASSUME NEW n \in 0 .. MaxClock
  PROVE  Older(n) \in 0 .. MaxClock /\ Older(n) <= n + 1
  BY Params DEF Older

\* The passing of time makes a binding at most so much older, and changes nothing
\* else of it.
LEMMA TimeKeeps ==
  ASSUME Typed, TimePasses
  PROVE  /\ Bounded(contacts') /\ DOMAIN contacts' = DOMAIN contacts
         /\ \A i \in DOMAIN contacts :
              /\ contacts[i] \in Bindings
              /\ contacts'[i].uri = contacts[i].uri
              /\ contacts'[i].expiration = contacts[i].expiration
              /\ contacts'[i].age \in 0 .. MaxClock
              /\ contacts'[i].age <= Older(contacts[i].age)
  <1> DEFINE l == Len(contacts)
             d == DOMAIN contacts
  <1>1. contacts \in Seq(Bindings) /\ l <= max_contacts /\ Distinct(contacts)
    BY Zenon DEF Typed, Bounded
  <1>2. l \in Nat /\ d = 1 .. l /\ \A i \in d : contacts[i] \in Bindings
    BY <1>1
  <1>3. contacts' = [i \in d |-> Aged(contacts[i])]
    BY Zenon DEF TimePasses
  <1>4. ASSUME NEW r \in Bindings
        PROVE  LET o == Aged(r)
               IN o \in Bindings /\ o.uri = r.uri /\ o.expiration = r.expiration
                  /\ o.age \in 0 .. MaxClock /\ o.age <= Older(r.age)
    <2> DEFINE n == IF is_expired(r) THEN r.age ELSE Older(r.age)
    <2>1. r.age \in 0 .. MaxClock
      BY <1>4, Zenon DEF Bindings
    <2>2. n \in 0 .. MaxClock /\ n <= Older(r.age)
      BY <2>1, Params DEF Older
    <2>3. Aged(r) = [r EXCEPT !.age = n]
      BY Zenon DEF Aged
    <2> HIDE DEF n
    <2> QED BY <1>4, <2>2, <2>3 DEF Bindings
  <1> HIDE DEF l, d
  <1>5. DOMAIN contacts' = d
    BY <1>3, Zenon
  <1>6. ASSUME NEW i \in d
        PROVE  /\ contacts'[i] \in Bindings
               /\ contacts'[i].uri = contacts[i].uri
               /\ contacts'[i].expiration = contacts[i].expiration
               /\ contacts'[i].age \in 0 .. MaxClock
               /\ contacts'[i].age <= Older(contacts[i].age)
    <2>1. contacts'[i] = Aged(contacts[i]) /\ contacts[i] \in Bindings
      BY <1>2, <1>3, Zenon
    <2> QED BY <1>4, <2>1, Zenon
  <1>7. contacts' \in Seq(Bindings) /\ Len(contacts') = l
    <2>1. contacts' \in [1 .. l -> Bindings]
      BY <1>2, <1>3, <1>6, Zenon
    <2> QED BY <1>2, <2>1
  <1>8. Distinct(contacts')
    BY <1>1, <1>5, <1>6, Zenon DEF Distinct, d
  <1> QED BY <1>1, <1>2, <1>5, <1>6, <1>7, <1>8, Zenon DEF Bounded, d

\* Every step keeps the types and the limit.
LEMMA TypedKept == Typed /\ [RegNext]_regVars => Typed'
  <1> SUFFICES ASSUME Typed, [RegNext]_regVars PROVE Typed'
    BY Zenon
  <1> USE DEF Typed
  <1>0. /\ [expires |-> Expiration, auth |-> FALSE, age |-> 0] \in Ups
        /\ [expires |-> Expiration, auth |-> TRUE, age |-> 0] \in Ups
        /\ [expires |-> 0, auth |-> FALSE, age |-> 0] \in Ups
        /\ \A st \in {"200", "401", "403", "503"} : [status |-> st, age |-> 0] \in Downs
    BY Params DEF Ups, Downs
  <1>1. ASSUME NEW h, NEW b \in BOOLEAN, h = [history EXCEPT !.unbound = b]
        PROVE  h \in [stopped : BOOLEAN, unbound : BOOLEAN]
    BY <1>1
  <1>2. ASSUME NEW cs \in OtherRequests, OtherRegisters(cs) PROVE Typed'
    <2>1. Bounded(handle_register(cs).contacts)
      BY OthersAsk, RegisterKeeps, Zenon
    <2>2. contacts' = handle_register(cs).contacts /\ UNCHANGED <<agent, up, down, ticked>>
      BY <1>2, Zenon DEF OtherRegisters
    <2>3. history' \in [stopped : BOOLEAN, unbound : BOOLEAN]
      <3> DEFINE b == history.unbound \/ (Bound_to(contacts, Me)
                                          /\ ~ Bound_to(handle_register(cs).contacts, Me))
      <3>1. history' = [history EXCEPT !.unbound = b]
        BY <1>2, Zenon DEF OtherRegisters
      <3>2. b \in BOOLEAN
        BY Zenon
      <3> HIDE DEF b
      <3> QED BY <1>1, <3>1, <3>2, Zenon
    <2> QED BY <2>1, <2>2, <2>3, Zenon DEF Bounded
  <1>3. ASSUME NEW m \in up, RegisterArrives(m) PROVE Typed'
    <2> DEFINE c == [uri |-> Me, expires |-> m.expires]
               r == handle_register(<<c>>)
               challenged == policy.auth /\ ~ m.auth
    <2>1. c \in Requests
      <3>1. m.expires \in {0, Expiration}
        BY Zenon DEF Ups
      <3>2. m.expires \in Nat
        BY <3>1, Params
      <3> QED BY <3>2, Zenon DEF Requests, Uris
    <2>2. /\ <<c>> \in Seq(Requests) /\ \A n \in DOMAIN <<c>> : <<c>>[n].uri \in Uris
          /\ ~ Bound_to(<<c>>, "*")
      <3>1. c.uri \in Uris
        BY Zenon DEF Uris
      <3> HIDE DEF c
      <3>2. <<c>> \in Seq(Requests) /\ \A n \in DOMAIN <<c>> : <<c>>[n].uri \in Uris
        BY <2>1, <3>1
      <3>3. \A n \in DOMAIN <<c>> : <<c>>[n].uri # "*"
        BY <3>2, Params, Zenon
      <3> QED BY <3>2, <3>3, Zenon DEF Bound_to
    <2>3. Bounded(r.contacts) /\ r.status \in {"200", "403"}
      <3> HIDE DEF c
      <3> QED BY <2>2, RegisterKeeps, Zenon
    <2>4. /\ contacts' = (IF challenged THEN contacts ELSE r.contacts)
          /\ UNCHANGED <<agent, ticked>> /\ up' = up \ {m}
          /\ down' = Put(down, [status |-> IF challenged THEN "401" ELSE r.status, age |-> 0])
          /\ history' = [history EXCEPT !.unbound =
                           @ /\ ~ (~ challenged /\ Bound_to(r.contacts, Me))]
      BY <1>3, Zenon DEF RegisterArrives
    <2>5. Bounded(contacts')
      <3> HIDE DEF r, challenged
      <3> QED BY <2>3, <2>4, Zenon
    <2>6. down' \subseteq Downs
      <3> HIDE DEF r, challenged
      <3>1. (IF challenged THEN "401" ELSE r.status) \in {"200", "401", "403", "503"}
        BY <2>3, Zenon
      <3>2. [status |-> IF challenged THEN "401" ELSE r.status, age |-> 0] \in Downs
        BY <1>0, <3>1, Zenon
      <3> QED BY <2>4, <3>2, SendsOne, Zenon
    <2>7. history' \in [stopped : BOOLEAN, unbound : BOOLEAN]
      <3> DEFINE b == history.unbound /\ ~ (~ challenged /\ Bound_to(r.contacts, Me))
      <3>1. history' = [history EXCEPT !.unbound = b]
        BY <2>4, Zenon
      <3>2. b \in BOOLEAN
        BY Zenon
      <3> HIDE DEF b
      <3> QED BY <1>1, <3>1, <3>2, Zenon
    <2> HIDE DEF r, challenged
    <2> QED BY <2>4, <2>5, <2>6, <2>7, Zenon DEF Bounded
  <1>4. ASSUME NEW m \in up, ServerFails(m) \/ RegisterForbidden(m) PROVE Typed'
    <2>1. /\ up' = up \ {m} /\ UNCHANGED <<contacts, agent, ticked, history>>
          /\ \E st \in {"403", "503"} : down' = Put(down, [status |-> st, age |-> 0])
      BY <1>4, Zenon DEF ServerFails, RegisterForbidden
    <2>2. down' \subseteq Downs
      BY <1>0, <2>1, SendsOne, Zenon
    <2>3. up' \subseteq Ups
      BY <2>1, Zenon
    <2> QED BY <2>1, <2>2, <2>3, Zenon DEF Bounded
  <1>5. ASSUME NEW m \in down, ResponseArrives(m) PROVE Typed'
    <2>1. m.status \in {"200", "401", "403", "503"}
      BY Zenon DEF Downs
    <2>2. on_response(m.status) /\ down' \subseteq down /\ UNCHANGED <<contacts, ticked, history>>
      BY <1>5, Zenon DEF ResponseArrives
    <2>3. agent' \in Agents /\ up' \subseteq Ups
      BY <1>0, <2>1, <2>2, ResponseSteps, Zenon
    <2> QED BY <2>2, <2>3, Zenon DEF Bounded
  <1>6. CASE AgentTicks
    <2>1. tick /\ ticked' = TRUE /\ UNCHANGED <<contacts, down, history>>
      BY <1>6, Zenon DEF AgentTicks
    <2>2. agent' \in Agents /\ up' \subseteq Ups
      BY <1>0, <2>1, TickSteps, Zenon
    <2> QED BY <2>1, <2>2, Zenon DEF Bounded
  <1>7. CASE build_unregister
    <2>1. /\ agent' = [[agent EXCEPT !.state = "Stopping"] EXCEPT !.last_sent = {0}]
          /\ up' = Put(up, [expires |-> 0, auth |-> FALSE, age |-> 0])
          /\ history' = [history EXCEPT !.stopped = TRUE]
          /\ UNCHANGED <<contacts, down, ticked>>
      BY <1>7, Zenon DEF build_unregister, build_register
    <2>2. agent' \in Agents
      BY <2>1, Zero, Zenon DEF Agents, States
    <2>3. up' \subseteq Ups
      BY <1>0, <2>1, SendsOne, Zenon
    <2>4. history' \in [stopped : BOOLEAN, unbound : BOOLEAN]
      BY <2>1, Zenon
    <2> QED BY <2>1, <2>2, <2>3, <2>4, Zenon DEF Bounded
  <1>8. CASE TimePasses
    <2>1. Bounded(contacts')
      BY <1>8, TimeKeeps, Zenon
    <2>2. agent' = [agent EXCEPT !.last_sent = {Older(s) : s \in @}]
      BY <1>8, Zenon DEF TimePasses
    <2>3. {Older(s) : s \in agent.last_sent} \in Times
      <3>1. agent.last_sent \subseteq 0 .. MaxClock
        BY Zenon DEF Agents, Times
      <3> QED BY <3>1, Ages, Zenon DEF Times
    <2>4. agent' \in Agents
      BY <2>2, <2>3, SMTT(30) DEF Agents
    <2>5. ASSUME NEW m \in Ups, m.age < MaxDelay PROVE [m EXCEPT !.age = @ + 1] \in Ups
      BY <2>5, Params DEF Ups
    <2>6. ASSUME NEW m \in Downs, m.age < MaxDelay PROVE [m EXCEPT !.age = @ + 1] \in Downs
      BY <2>6, Params DEF Downs
    <2>7. up' \subseteq Ups /\ down' \subseteq Downs
      BY <1>8, <2>5, <2>6, Zenon DEF TimePasses, UnderWay
    <2> QED BY <1>8, <2>1, <2>4, <2>7, Zenon DEF TimePasses, Bounded
  <1>9. CASE UNCHANGED regVars
    BY <1>9, Zenon DEF regVars, Bounded
  <1> QED BY <1>2, <1>3, <1>4, <1>5, <1>6, <1>7, <1>8, <1>9, Zenon DEF RegNext

-----------------------------------------------------------------------------
(* The binding of a device that takes itself for registered.                *)

\* The refresh is due early enough that a challenge and its answer, each as
\* late as the network allows, still find the binding alive.
RefreshInTime ==
  RefreshPoint >= 1 /\ RefreshPoint + 3 * MaxDelay < determine_expiration(Expiration)

\* The device has sent something, and nothing earlier than n ago counts.
SentBy(a, n) == a.last_sent # {} /\ \A s \in a.last_sent : s <= n

\* The list binds the device, for as long as it asked, since at most n.
Held(cs, n) ==
  \E i \in DOMAIN cs :
    /\ cs[i].uri = Me /\ cs[i].age <= n
    /\ cs[i].expiration = determine_expiration(Expiration)

\* What is under way was sent since the device last sent, or by it then.
Asking ==
  /\ \A m \in up : SentBy(agent, m.age) /\ (m.expires = 0 => history.stopped)
  /\ \A m \in down : SentBy(agent, m.age + MaxDelay)
  /\ agent.state = "Registered" => agent.last_sent # {}

\* A 200 is no older than the binding; a device that believes it refreshes in
\* time, or has just been told.
Answered(cs, ds) == \A m \in ds : m.status = "200" => Held(cs, m.age)
Slack(a) == IF a.challenged THEN 3 * MaxDelay ELSE MaxDelay
Trusted(cs, a, t) ==
  a.state = "Registered" =>
    \A s \in a.last_sent :
      /\ Held(cs, s + Slack(a))
      /\ \/ Held(cs, IF t THEN MaxDelay ELSE MaxDelay + 1)
         \/ s < RefreshPoint
         \/ s = RefreshPoint /\ ~ t

Excused == history.stopped \/ history.unbound
Timely ==
  /\ Asking
  /\ Excused \/ (Answered(contacts, down) /\ Trusted(contacts, agent, ticked))

\* What is held since n is held since longer ago.
LEMMA HeldLonger ==
  ASSUME NEW cs, Bounded(cs), NEW n \in Nat, NEW k \in Nat, n <= k, Held(cs, n)
  PROVE  Held(cs, k)
  <1>1. PICK i \in DOMAIN cs : /\ cs[i].uri = Me /\ cs[i].age <= n
                               /\ cs[i].expiration = determine_expiration(Expiration)
    BY Zenon DEF Held
  <1>2. cs[i].age \in Nat
    <2>1. cs[i] \in Bindings
      BY <1>1 DEF Bounded
    <2>2. cs[i].age \in 0 .. MaxClock
      BY <2>1, Zenon DEF Bindings
    <2> QED BY <2>2
  <1>3. cs[i].age <= k
    BY <1>1, <1>2
  <1> QED BY <1>1, <1>3, Zenon DEF Held

\* The numbers in play.
LEMMA Numbers ==
  ASSUME Typed
  PROVE  /\ \A s \in agent.last_sent : s \in 0 .. MaxClock /\ s \in Nat
         /\ \A m \in up : m.age \in 0 .. MaxDelay /\ m.age \in Nat
         /\ \A m \in down : m.age \in 0 .. MaxDelay /\ m.age \in Nat
         /\ Slack(agent) \in Nat
  <1>1. /\ \A s \in agent.last_sent : s \in 0 .. MaxClock
        /\ \A m \in up : m.age \in 0 .. MaxDelay
        /\ \A m \in down : m.age \in 0 .. MaxDelay
    BY Zenon DEF Typed, Agents, Times, Ups, Downs
  <1>2. (\A n \in 0 .. MaxClock : n \in Nat) /\ (\A n \in 0 .. MaxDelay : n \in Nat)
    OBVIOUS
  <1>3. MaxDelay \in Nat /\ 3 * MaxDelay \in Nat
    BY Params
  <1> QED BY <1>1, <1>2, <1>3, Zenon DEF Slack

\* A device that has just sent has sent nothing later.
LEMMA JustSent ==
  ASSUME NEW a, a.last_sent = {0}, NEW n \in Nat
  PROVE  SentBy(a, n)
  <1>1. 0 <= n
    OBVIOUS
  <1> QED BY <1>1, Zenon DEF SentBy

\* However datagrams are delayed, none outlives the device's memory of having
\* sent by more than the network allows.
LEMMA AskingKept ==
  ASSUME RefreshInTime, Typed, Asking, [RegNext]_regVars
  PROVE  Asking'
  <1>0. MaxDelay \in Nat /\ Expiration # 0 /\ \A m \in down : m.age + MaxDelay \in Nat
    <2>1. Expiration = 0 => determine_expiration(Expiration) = 0
      BY DEF determine_expiration
    <2>2. Expiration # 0
      BY <2>1, Params DEF RefreshInTime
    <2> QED BY <2>2, Numbers, Params
  <1>1. ASSUME agent'.last_sent = {0}, history'.stopped <=> history.stopped,
               NEW b, up' \subseteq up \cup {[expires |-> Expiration, auth |-> b, age |-> 0]},
               down' \subseteq down
        PROVE  Asking'
    <2>1. ASSUME NEW m \in up' PROVE SentBy(agent', m.age) /\ (m.expires = 0 => history'.stopped)
      <3>1. CASE m \in up
        BY <1>1, <3>1, Numbers, JustSent, Zenon DEF Asking
      <3>2. CASE m = [expires |-> Expiration, auth |-> b, age |-> 0]
        <4>1. m.age = 0 /\ m.expires = Expiration /\ 0 \in Nat
          BY <3>2
        <4> QED BY <1>0, <1>1, <4>1, JustSent, Zenon
      <3> QED BY <1>1, <2>1, <3>1, <3>2, Zenon
    <2>2. ASSUME NEW m \in down' PROVE SentBy(agent', m.age + MaxDelay)
      BY <1>0, <1>1, <2>2, JustSent, Zenon
    <2>3. agent'.last_sent # {}
      BY <1>1, Zenon
    <2> QED BY <2>1, <2>2, <2>3, Zenon DEF Asking
  <1>2. ASSUME UNCHANGED agent, up' \subseteq up, history'.stopped <=> history.stopped,
               NEW st, NEW m \in up, down' \subseteq down \cup {[status |-> st, age |-> 0]}
        PROVE  Asking'
    <2>1. [status |-> st, age |-> 0].age = 0
      OBVIOUS
    <2>2. SentBy(agent, 0 + MaxDelay)
      <3>1. /\ SentBy(agent, m.age) /\ m.age <= MaxDelay /\ m.age \in Nat
            /\ \A s \in agent.last_sent : s \in Nat
        <4>1. m.age \in 0 .. MaxDelay /\ \A s \in agent.last_sent : s \in Nat
          BY Numbers, Zenon
        <4>2. m.age <= MaxDelay /\ m.age \in Nat
          BY <4>1, Params
        <4> QED BY <4>1, <4>2, Zenon DEF Asking
      <3>2. \A s \in agent.last_sent : s <= 0 + MaxDelay
        <4> SUFFICES ASSUME NEW s \in agent.last_sent PROVE s <= 0 + MaxDelay
          BY Zenon
        <4>1. s <= m.age /\ s \in Nat
          BY <3>1, Zenon DEF SentBy
        <4> QED BY <3>1, <4>1, Params
      <3> QED BY <3>1, <3>2, Zenon DEF SentBy
    <2> QED BY <1>2, <2>1, <2>2, Zenon DEF Asking
  <1>3. ASSUME UNCHANGED <<agent, up, down>>, history'.stopped <=> history.stopped PROVE Asking'
    BY <1>3, Zenon DEF Asking
  <1>4. ASSUME NEW b, history' = [history EXCEPT !.unbound = b]
        PROVE  history'.stopped <=> history.stopped
    BY <1>4 DEF Typed
  <1>5. ASSUME NEW cs \in OtherRequests, OtherRegisters(cs) PROVE Asking'
    BY <1>3, <1>4, <1>5, Zenon DEF OtherRegisters
  <1>6. ASSUME NEW m \in up, RegisterArrives(m) PROVE Asking'
    <2>1. history'.stopped <=> history.stopped
      BY <1>4, <1>6, Zenon DEF RegisterArrives
    <2>2. UNCHANGED agent /\ up' \subseteq up
      BY <1>6, Zenon DEF RegisterArrives
    <2>3. PICK st : down' = Put(down, [status |-> st, age |-> 0])
      BY <1>6, Zenon DEF RegisterArrives
    <2>4. down' \subseteq down \cup {[status |-> st, age |-> 0]}
      BY <2>3 DEF Put
    <2> QED BY <1>2, <2>1, <2>2, <2>4, Zenon
  <1>7. ASSUME NEW m \in up, ServerFails(m) \/ RegisterForbidden(m) PROVE Asking'
    <2>1. UNCHANGED <<agent, history>> /\ up' \subseteq up
      BY <1>7, Zenon DEF ServerFails, RegisterForbidden
    <2>2. PICK st : down' = Put(down, [status |-> st, age |-> 0])
      BY <1>7, Zenon DEF ServerFails, RegisterForbidden
    <2>3. down' \subseteq down \cup {[status |-> st, age |-> 0]}
      BY <2>2 DEF Put
    <2> QED BY <1>2, <2>1, <2>3, Zenon
  <1>8. ASSUME NEW m \in down, ResponseArrives(m) PROVE Asking'
    <2>1. m.status \in {"200", "401", "403", "503"}
      BY Zenon DEF Typed, Downs
    <2>2. on_response(m.status) /\ down' \subseteq down /\ UNCHANGED history
      BY <1>8, Zenon DEF ResponseArrives
    <2>3. CASE agent'.last_sent = agent.last_sent /\ up' = up
      <3>1. agent.last_sent # {}
        BY Zenon DEF Asking, SentBy
      <3> QED BY <2>2, <2>3, <3>1, Zenon DEF Asking, SentBy
    <2>4. CASE agent'.last_sent = {0} /\ up' = up
      BY <1>1, <2>2, <2>4, Zenon
    <2>5. CASE /\ agent'.last_sent = {0}
               /\ up' \subseteq up \cup {[expires |-> Expiration, auth |-> TRUE, age |-> 0]}
      BY <1>1, <2>2, <2>5, Zenon
    <2> QED BY <2>1, <2>2, <2>3, <2>4, <2>5, ResponseSteps, Zenon DEF Tried
  <1>9. CASE AgentTicks
    <2>1. tick /\ UNCHANGED <<down, history>>
      BY <1>9, Zenon DEF AgentTicks
    <2>2. CASE agent'.last_sent = {0} /\ up' = up
      BY <1>1, <2>1, <2>2, Zenon
    <2>3. CASE /\ agent'.last_sent = {0}
               /\ up' \subseteq up \cup {[expires |-> Expiration, auth |-> FALSE, age |-> 0]}
      BY <1>1, <2>1, <2>3, Zenon
    <2>4. CASE agent' = agent /\ up' = up
      BY <1>3, <2>1, <2>4, Zenon
    <2> QED BY <2>1, <2>2, <2>3, <2>4, TickSteps, Zenon DEF Tried
  <1>10. CASE build_unregister
    <2> DEFINE r == [expires |-> 0, auth |-> FALSE, age |-> 0]
    <2>1. /\ agent' = [[agent EXCEPT !.state = "Stopping"] EXCEPT !.last_sent = {0}]
          /\ up' = Put(up, r)
          /\ history' = [history EXCEPT !.stopped = TRUE] /\ UNCHANGED down
      BY <1>10, Zenon DEF build_unregister, build_register
    <2>2. agent'.last_sent = {0} /\ history'.stopped = TRUE
      BY <2>1 DEF Typed, Agents
    <2>3. r.age = 0 /\ 0 \in Nat
      OBVIOUS
    <2>4. up' \subseteq up \cup {r}
      BY <2>1 DEF Put
    <2> HIDE DEF r
    <2>5. ASSUME NEW m \in up' PROVE SentBy(agent', m.age)
      BY <2>2, <2>3, <2>4, <2>5, Numbers, JustSent, Zenon
    <2>6. ASSUME NEW m \in down' PROVE SentBy(agent', m.age + MaxDelay)
      BY <1>0, <2>1, <2>2, <2>6, JustSent, Zenon
    <2> QED BY <2>2, <2>5, <2>6, Zenon DEF Asking
  <1>11. CASE TimePasses
    <2> DEFINE older == {Older(s) : s \in agent.last_sent}
    <2>1. /\ agent' = [agent EXCEPT !.last_sent = older] /\ UNCHANGED history
          /\ up' = UnderWay(up) /\ down' = UnderWay(down)
      BY <1>11, Zenon DEF TimePasses
    <2>2. agent'.last_sent = older /\ agent'.state = agent.state
      <3> HIDE DEF older
      <3> QED BY <2>1 DEF Typed, Agents
    <2>3. ASSUME NEW n \in Nat, SentBy(agent, n) PROVE SentBy(agent', n + 1)
      <3>1. ASSUME NEW s \in agent.last_sent PROVE Older(s) <= n + 1
        <4>1. s <= n /\ s \in 0 .. MaxClock
          BY <2>3, <3>1, Numbers, Zenon DEF SentBy
        <4> QED BY <4>1, Params DEF Older
      <3>2. older # {}
        BY <2>3, Zenon DEF SentBy
      <3> QED BY <2>2, <3>1, <3>2, Zenon DEF SentBy
    <2>4. ASSUME NEW m \in up'
          PROVE  SentBy(agent', m.age) /\ (m.expires = 0 => history'.stopped)
      <3>1. PICK x \in up : m = [x EXCEPT !.age = @ + 1]
        BY <2>1, <2>4, Zenon DEF UnderWay
      <3>2. m.age = x.age + 1 /\ m.expires = x.expires /\ x.age \in Nat
        <4>1. x \in Ups /\ x.age \in Nat
          BY Numbers, Zenon DEF Typed
        <4> QED BY <3>1, <4>1 DEF Ups
      <3> QED BY <2>1, <2>3, <3>2, Zenon DEF Asking
    <2>5. ASSUME NEW m \in down' PROVE SentBy(agent', m.age + MaxDelay)
      <3>1. PICK x \in down : m = [x EXCEPT !.age = @ + 1]
        BY <2>1, <2>5, Zenon DEF UnderWay
      <3>2. m.age = x.age + 1 /\ x.age \in Nat
        <4>1. x \in Downs /\ x.age \in Nat
          BY Numbers, Zenon DEF Typed
        <4> QED BY <3>1, <4>1 DEF Downs
      <3>3. (x.age + MaxDelay) + 1 = m.age + MaxDelay /\ x.age + MaxDelay \in Nat
        BY <1>0, <3>2
      <3>4. SentBy(agent', (x.age + MaxDelay) + 1)
        BY <2>3, <3>3, Zenon DEF Asking
      <3> QED BY <3>3, <3>4, Zenon
    <2>6. agent'.state = "Registered" => agent'.last_sent # {}
      BY <2>2, Zenon DEF Asking
    <2> QED BY <2>4, <2>5, <2>6, Zenon DEF Asking
  <1>12. CASE UNCHANGED regVars
    BY <1>3, <1>12, Zenon DEF regVars
  <1> QED
    BY <1>5, <1>6, <1>7, <1>8, <1>9, <1>10, <1>11, <1>12, Zenon DEF RegNext

\* A binding made just now is news enough for everybody.
LEMMA JustBound ==
  ASSUME NEW cs, Bounded(cs), Held(cs, 0), NEW a \in Agents, NEW ds \in SUBSET Downs, NEW t
  PROVE  Answered(cs, ds) /\ Trusted(cs, a, t)
  <1>1. \A n \in Nat : Held(cs, n)
    <2> SUFFICES ASSUME NEW n \in Nat PROVE Held(cs, n)
      BY Zenon
    <2>1. 0 <= n /\ 0 \in Nat
      OBVIOUS
    <2> QED BY <2>1, HeldLonger, Zenon
  <1>2. ASSUME NEW m \in ds PROVE m.age \in Nat
    <2>1. m.age \in 0 .. MaxDelay
      BY <1>2, Zenon DEF Downs
    <2> QED BY <2>1
  <1>3. ASSUME NEW s \in a.last_sent PROVE s + Slack(a) \in Nat
    <2>1. s \in 0 .. MaxClock
      BY <1>3, Zenon DEF Agents, Times
    <2>2. Slack(a) \in Nat
      BY Params DEF Slack
    <2> QED BY <2>1, <2>2
  <1>4. (IF t THEN MaxDelay ELSE MaxDelay + 1) \in Nat
    BY Params
  <1> QED BY <1>1, <1>2, <1>3, <1>4, Zenon DEF Answered, Trusted

\* Another device's REGISTER leaves the binding alone, or unbinds.
LEMMA OthersLeave ==
  ASSUME NEW cs, Bounded(cs), NEW ds, From(ds, cs, Others), Bound_to(ds, Me),
         NEW n, Held(cs, n)
  PROVE  Held(ds, n)
  <1>1. PICK i \in DOMAIN cs : /\ cs[i].uri = Me /\ cs[i].age <= n
                               /\ cs[i].expiration = determine_expiration(Expiration)
    BY Zenon DEF Held
  <1>2. PICK j \in DOMAIN ds : ds[j].uri = Me
    BY Zenon DEF Bound_to
  <1>3. Me \notin Others
    BY RegAssumption DEF Me
  <1>4. PICK k \in DOMAIN cs : ds[j] = cs[k]
    BY <1>2, <1>3, Zenon DEF From
  <1>5. k = i
    BY <1>1, <1>2, <1>4, Zenon DEF Bounded, Distinct
  <1> QED BY <1>1, <1>2, <1>4, <1>5, Zenon DEF Held

\* No step of the device, the registrar, the other devices or the network lets
\* the device trust a binding that is too old or gone.
LEMMA TrustKept ==
  ASSUME RefreshInTime, auth_rejection_permanent, Typed, Typed', Timely, [RegNext]_regVars
  PROVE  Excused' \/ (Answered(contacts', down') /\ Trusted(contacts', agent', ticked'))
  <1> SUFFICES ASSUME ~ history'.stopped, ~ history'.unbound
               PROVE  Answered(contacts', down') /\ Trusted(contacts', agent', ticked')
    BY Zenon DEF Excused
  <1>0. /\ Bounded(contacts) /\ Bounded(contacts') /\ agent' \in Agents
        /\ down' \in SUBSET Downs /\ 0 \in Nat
    BY Zenon DEF Typed
  <1>1. Held(contacts', 0) => Answered(contacts', down') /\ Trusted(contacts', agent', ticked')
    BY <1>0, JustBound, Zenon
  <1>2. ASSUME UNCHANGED history PROVE Answered(contacts, down) /\ Trusted(contacts, agent, ticked)
    BY <1>2, Zenon DEF Timely, Excused
  <1>3. ASSUME NEW b, history' = [history EXCEPT !.unbound = b]
        PROVE  ~ history.stopped /\ ~ b
    BY <1>3 DEF Typed
  <1>4. ASSUME NEW cs \in OtherRequests, OtherRegisters(cs)
        PROVE  Answered(contacts', down') /\ Trusted(contacts', agent', ticked')
    <2> DEFINE r == handle_register(cs)
    <2>1. /\ contacts' = r.contacts /\ UNCHANGED <<agent, down, ticked>>
          /\ history' = [history EXCEPT !.unbound =
                           @ \/ (Bound_to(contacts, Me) /\ ~ Bound_to(r.contacts, Me))]
      BY <1>4, Zenon DEF OtherRegisters
    <2>2. From(r.contacts, contacts, Others)
      BY <1>0, OthersAsk, RegisterKeeps, Zenon
    <2> HIDE DEF r
    <2>3. /\ ~ history.stopped /\ ~ history.unbound
          /\ ~ (Bound_to(contacts, Me) /\ ~ Bound_to(contacts', Me))
      BY <1>3, <2>1, Zenon
    <2>4. Answered(contacts, down) /\ Trusted(contacts, agent, ticked)
      BY <2>3, Zenon DEF Timely, Excused
    <2>5. \A n : Held(contacts, n) => Held(contacts', n)
      <3> SUFFICES ASSUME NEW n, Held(contacts, n) PROVE Held(contacts', n)
        BY Zenon
      <3>1. Bound_to(contacts, Me)
        BY Zenon DEF Held, Bound_to
      <3> QED BY <1>0, <2>1, <2>2, <2>3, <3>1, OthersLeave, Zenon
    <2> QED BY <2>1, <2>4, <2>5, Zenon DEF Answered, Trusted
  <1>5. ASSUME NEW m \in up, RegisterArrives(m)
        PROVE  Answered(contacts', down') /\ Trusted(contacts', agent', ticked')
    <2> DEFINE r == handle_register(<< [uri |-> Me, expires |-> m.expires] >>)
               challenged == policy.auth /\ ~ m.auth
               back == [status |-> IF challenged THEN "401" ELSE r.status, age |-> 0]
    <2>1. /\ contacts' = IF challenged THEN contacts ELSE r.contacts
          /\ down' = Put(down, back) /\ UNCHANGED <<agent, ticked>>
          /\ history' = [history EXCEPT !.unbound =
                           @ /\ ~ (~ challenged /\ Bound_to(r.contacts, Me))]
      BY <1>5, Zenon DEF RegisterArrives
    <2>2. down' \subseteq down \cup {back}
      <3> HIDE DEF back, r, challenged
      <3> QED BY <2>1, Sends, Zenon
    <2>3. back.status = IF challenged THEN "401" ELSE r.status
      BY SMT
    <2>4. m.expires = Expiration \/ history.stopped
      <3>1. m.expires \in {0, Expiration}
        BY Zenon DEF Typed, Ups
      <3> QED BY <3>1, Zenon DEF Timely, Asking
    <2>5. Expiration \in Nat /\ determine_expiration(Expiration) # 0
      BY Params DEF RefreshInTime
    <2> HIDE DEF challenged, back
    <2>6. ~ history.stopped /\ ~ (history.unbound /\ ~ (~ challenged /\ Bound_to(r.contacts, Me)))
      <3> HIDE DEF r
      <3> QED BY <1>3, <2>1, Zenon
    <2>7. m.expires = Expiration
      BY <2>4, <2>6, Zenon
    <2>8. ASSUME contacts' = contacts, ~ history.unbound, back.status # "200"
          PROVE  Answered(contacts', down') /\ Trusted(contacts', agent', ticked')
      <3>1. Answered(contacts, down) /\ Trusted(contacts, agent, ticked)
        BY <2>6, <2>8, Zenon DEF Timely, Excused
      <3>2. Answered(contacts', down')
        BY <2>2, <2>8, <3>1, Zenon DEF Answered
      <3> QED BY <2>1, <2>8, <3>1, <3>2, Zenon
    <2>9. CASE challenged
      <3>1. contacts' = contacts /\ back.status = "401" /\ ~ history.unbound
        <4> HIDE DEF r
        <4> QED BY <2>1, <2>3, <2>6, <2>9, Zenon
      <3>2. "401" # "200"
        OBVIOUS
      <3> QED BY <2>8, <3>1, <3>2, Zenon
    <2>10. CASE ~ challenged /\ r.status = "200"
      <3> DEFINE mine == [uri |-> Me, expiration |-> determine_expiration(Expiration), age |-> 0]
      <3>1. Holding(r.contacts, mine)
        BY <1>0, <2>5, <2>7, <2>10, MineBinds, Zenon
      <3>2. contacts' = r.contacts
        <4> HIDE DEF r
        <4> QED BY <2>1, <2>10, Zenon
      <3>3. Holding(contacts', mine)
        BY <3>1, <3>2, Zenon
      <3>4. mine.uri = Me /\ mine.expiration = determine_expiration(Expiration) /\ mine.age <= 0
        BY SMT
      <3> HIDE DEF mine, r
      <3>5. Held(contacts', 0)
        BY <3>3, <3>4, Zenon DEF Held, Holding
      <3> QED BY <1>1, <3>5, Zenon
    <2>11. CASE ~ challenged /\ r.status # "200"
      <3>1. r.contacts = contacts /\ ~ Bound_to(contacts, Me)
        BY <1>0, <2>5, <2>7, <2>11, MineBinds, Zenon
      <3> HIDE DEF r
      <3>2. contacts' = contacts /\ back.status # "200" /\ ~ history.unbound
        BY <2>1, <2>3, <2>6, <2>11, <3>1, Zenon
      <3> QED BY <2>8, <3>2, Zenon
    <2> QED BY <2>9, <2>10, <2>11, Zenon
  <1>6. ASSUME NEW m \in up, ServerFails(m) \/ RegisterForbidden(m)
        PROVE  Answered(contacts', down') /\ Trusted(contacts', agent', ticked')
    <2>0. PICK st \in {"403", "503"} : down' = Put(down, [status |-> st, age |-> 0])
      BY <1>6, Zenon DEF ServerFails, RegisterForbidden
    <2> DEFINE back == [status |-> st, age |-> 0]
    <2>1. UNCHANGED <<contacts, agent, ticked, history>> /\ down' = Put(down, back)
      BY <1>6, <2>0, Zenon DEF ServerFails, RegisterForbidden
    <2>2. down' \subseteq down \cup {back}
      BY <2>1, Sends, Zenon
    <2>3. back.status # "200"
      BY <2>0
    <2> HIDE DEF back
    <2> QED BY <1>2, <2>1, <2>2, <2>3, Zenon DEF Answered
  <1>7. ASSUME NEW m \in down, ResponseArrives(m)
        PROVE  Answered(contacts', down') /\ Trusted(contacts', agent', ticked')
    <2>1. /\ m.status \in {"200", "401", "403", "503"} /\ m.age \in 0 .. MaxDelay
          /\ on_response(m.status) /\ down' \subseteq down
          /\ UNCHANGED <<contacts, ticked, history>>
      BY <1>7, Zenon DEF ResponseArrives, Typed, Downs
    <2>2. Answered(contacts, down) /\ Trusted(contacts, agent, ticked)
      BY <1>2, <2>1, Zenon
    <2>3. Answered(contacts', down')
      BY <2>1, <2>2, Zenon DEF Answered
    <2>4. CASE m.status = "200" /\ ~ agent'.challenged
      <3>1. \A n \in Nat : MaxDelay <= n => Held(contacts, n)
        <4> SUFFICES ASSUME NEW n \in Nat, MaxDelay <= n PROVE Held(contacts, n)
          BY Zenon
        <4>1. Held(contacts, m.age)
          BY <2>2, <2>4, Zenon DEF Answered
        <4>2. m.age \in Nat /\ m.age <= n
          BY <2>1, Params
        <4> QED BY <1>0, <4>1, <4>2, HeldLonger, Zenon
      <3>2. \A s \in agent'.last_sent : s + MaxDelay \in Nat /\ MaxDelay <= s + MaxDelay
        <4> SUFFICES ASSUME NEW s \in agent'.last_sent
                     PROVE  s + MaxDelay \in Nat /\ MaxDelay <= s + MaxDelay
          BY Zenon
        <4>1. s \in 0 .. MaxClock
          BY <1>0, Zenon DEF Agents, Times
        <4> QED BY <4>1, Params
      <3>3. \A t : /\ (IF t THEN MaxDelay ELSE MaxDelay + 1) \in Nat
                   /\ MaxDelay <= (IF t THEN MaxDelay ELSE MaxDelay + 1)
        BY Params
      <3>4. Slack(agent') = MaxDelay
        BY <2>4, Zenon DEF Slack
      <3>5. Trusted(contacts, agent', ticked)
        BY <3>1, <3>2, <3>3, <3>4, Zenon DEF Trusted
      <3> QED BY <2>1, <2>3, <3>5, Zenon
    <2>5. CASE /\ auth_rejection_permanent => ~ agent.challenged
               /\ agent'.challenged
               /\ agent'.state = agent.state /\ agent'.last_sent = {0}
      <3>1. ASSUME agent.state = "Registered" PROVE Held(contacts, 0 + Slack(agent'))
        <4>1. PICK s \in agent.last_sent : s \in 0 .. MaxClock
          BY <3>1, Numbers, Zenon DEF Timely, Asking
        <4>2. s <= m.age + MaxDelay
          BY Zenon DEF Timely, Asking, SentBy
        <4>3. Held(contacts, s + Slack(agent)) /\ Slack(agent) = MaxDelay
          BY <2>2, <2>5, <3>1, Zenon DEF Trusted, Slack
        <4>4. Slack(agent') = 3 * MaxDelay
          BY <2>5, Zenon DEF Slack
        <4>5. /\ s + MaxDelay \in Nat /\ 0 + 3 * MaxDelay \in Nat
              /\ s + MaxDelay <= 0 + 3 * MaxDelay
          BY <2>1, <4>1, <4>2, Params
        <4> QED BY <1>0, <4>3, <4>4, <4>5, HeldLonger, Zenon
      <3>2. 0 < RefreshPoint
        BY Params DEF RefreshInTime
      <3>3. Trusted(contacts, agent', ticked)
        BY <2>5, <3>1, <3>2, Zenon DEF Trusted
      <3> QED BY <2>1, <2>3, <3>3, Zenon
    <2>6. CASE Tried(agent')
      <3>1. agent'.state # "Registered"
        BY <2>6 DEF Tried
      <3> QED BY <2>3, <3>1, Zenon DEF Trusted
    <2> QED BY <2>1, <2>4, <2>5, <2>6, ResponseSteps, Zenon
  <1>8. CASE AgentTicks
    <2>1. tick /\ ticked' = TRUE /\ UNCHANGED <<contacts, down, history>>
      BY <1>8, Zenon DEF AgentTicks
    <2>2. Answered(contacts, down) /\ Trusted(contacts, agent, ticked)
      BY <1>2, <2>1, Zenon
    <2>3. Answered(contacts', down')
      BY <2>1, <2>2, Zenon
    <2>4. CASE agent'.state \in {"Registering", "Refreshing"} \/ Tried(agent')
      <3>1. agent'.state # "Registered"
        BY <2>4 DEF Tried
      <3> QED BY <2>3, <3>1, Zenon DEF Trusted
    <2>5. CASE agent' = agent /\ (agent.state = "Registered" => ~ Due(RefreshPoint))
      <3>1. ASSUME agent.state = "Registered", NEW s \in agent.last_sent
            PROVE  s < RefreshPoint
        <4>1. ~ (s >= RefreshPoint) /\ s \in Nat
          BY <2>5, <3>1, Numbers, Zenon DEF Due
        <4> QED BY <4>1, Params
      <3>2. Trusted(contacts, agent, TRUE)
        BY <2>2, <3>1, Zenon DEF Trusted
      <3> QED BY <2>1, <2>3, <2>5, <3>2, Zenon
    <2> QED BY <2>1, <2>4, <2>5, TickSteps, Zenon
  <1>9. CASE build_unregister
    <2>1. history'.stopped = TRUE
      BY <1>9 DEF build_unregister, Typed
    <2> QED BY <2>1
  <1>10. CASE TimePasses
    <2> DEFINE older == {Older(s) : s \in agent.last_sent}
    <2>1. /\ agent' = [agent EXCEPT !.last_sent = older] /\ UNCHANGED history
          /\ down' = UnderWay(down) /\ ticked /\ ticked' = FALSE
      BY <1>10, Zenon DEF TimePasses
    <2>2. /\ agent'.last_sent = older /\ agent'.state = agent.state
          /\ agent'.challenged = agent.challenged
      <3> HIDE DEF older
      <3> QED BY <2>1 DEF Typed, Agents
    <2>3. Answered(contacts, down) /\ Trusted(contacts, agent, ticked)
      BY <1>2, <2>1, Zenon
    <2>4. ASSUME NEW n \in Nat, Held(contacts, n) PROVE Held(contacts', n + 1)
      <3>1. PICK i \in DOMAIN contacts :
              /\ contacts[i].uri = Me /\ contacts[i].age <= n
              /\ contacts[i].expiration = determine_expiration(Expiration)
        BY <2>4, Zenon DEF Held
      <3>2. /\ i \in DOMAIN contacts' /\ contacts'[i].uri = Me
            /\ contacts'[i].expiration = determine_expiration(Expiration)
            /\ contacts'[i].age \in 0 .. MaxClock
            /\ contacts'[i].age <= Older(contacts[i].age) /\ contacts[i] \in Bindings
        BY <1>10, <3>1, TimeKeeps, Zenon
      <3>3. contacts[i].age \in 0 .. MaxClock
        BY <3>2, Zenon DEF Bindings
      <3>4. contacts'[i].age <= n + 1
        BY <2>4, <3>1, <3>2, <3>3, Params DEF Older
      <3> QED BY <3>2, <3>4, Zenon DEF Held
    <2>5. Answered(contacts', down')
      <3> SUFFICES ASSUME NEW m \in down', m.status = "200" PROVE Held(contacts', m.age)
        BY Zenon DEF Answered
      <3>1. PICK x \in down : m = [x EXCEPT !.age = @ + 1]
        BY <2>1, Zenon DEF UnderWay
      <3>2. m.age = x.age + 1 /\ m.status = x.status /\ x.age \in Nat
        <4>1. x \in Downs /\ x.age \in Nat
          BY Numbers, Zenon DEF Typed
        <4> QED BY <3>1, <4>1 DEF Downs
      <3> QED BY <2>3, <2>4, <3>2, Zenon DEF Answered
    <2>6. ASSUME agent.state = "Registered", NEW s \in agent.last_sent
          PROVE  Held(contacts', Older(s) + Slack(agent'))
      <3>1. Held(contacts, s + Slack(agent)) /\ Slack(agent') = Slack(agent)
        BY <2>2, <2>3, <2>6, Zenon DEF Trusted, Slack
      <3>2. s \in 0 .. MaxClock /\ Slack(agent) \in Nat
        BY Numbers, Zenon
      <3>3. PICK i \in DOMAIN contacts :
              /\ contacts[i].uri = Me /\ contacts[i].age <= s + Slack(agent)
              /\ contacts[i].expiration = determine_expiration(Expiration)
        BY <3>1, Zenon DEF Held
      <3>4. /\ i \in DOMAIN contacts' /\ contacts'[i].uri = Me
            /\ contacts'[i].expiration = determine_expiration(Expiration)
            /\ contacts'[i].age \in 0 .. MaxClock
            /\ contacts'[i].age <= Older(contacts[i].age) /\ contacts[i] \in Bindings
        BY <1>10, <3>3, TimeKeeps, Zenon
      <3>5. contacts[i].age \in 0 .. MaxClock
        BY <3>4, Zenon DEF Bindings
      <3>6. contacts'[i].age <= Older(s) + Slack(agent)
        BY <3>2, <3>3, <3>4, <3>5, Params DEF Older
      <3> QED BY <3>1, <3>4, <3>6, Zenon DEF Held
    <2>7. ASSUME agent.state = "Registered", NEW s \in agent.last_sent
          PROVE  Held(contacts', MaxDelay + 1) \/ Older(s) < RefreshPoint \/ Older(s) = RefreshPoint
      <3>1. Held(contacts, MaxDelay) \/ s < RefreshPoint
        BY <2>1, <2>3, <2>7, Zenon DEF Trusted
      <3>2. CASE s < RefreshPoint
        <4>1. s \in 0 .. MaxClock
          BY Numbers, Zenon
        <4> QED BY <3>2, <4>1, Params DEF Older
      <3> QED BY <2>4, <3>1, <3>2, Params, Zenon
    <2>8. Trusted(contacts', agent', FALSE)
      <3> SUFFICES ASSUME agent'.state = "Registered", NEW z \in agent'.last_sent
                   PROVE  /\ Held(contacts', z + Slack(agent'))
                          /\ \/ Held(contacts', MaxDelay + 1)
                             \/ z < RefreshPoint \/ z = RefreshPoint
        BY Zenon DEF Trusted
      <3>1. PICK s \in agent.last_sent : z = Older(s)
        BY <2>2, Zenon
      <3> QED BY <2>2, <2>6, <2>7, <3>1, Zenon
    <2> QED BY <2>1, <2>5, <2>8, Zenon
  <1>11. CASE UNCHANGED regVars
    BY <1>2, <1>11, Zenon DEF regVars
  <1> QED
    BY <1>4, <1>5, <1>6, <1>7, <1>8, <1>9, <1>10, <1>11, Zenon DEF RegNext

-----------------------------------------------------------------------------
(* The theorems                                                             *)

\* The initial state has its type.
LEMMA InitTyped == RegInit => Typed
  <1> SUFFICES ASSUME RegInit PROVE Typed
    OBVIOUS
  <1>1. contacts = <<>> /\ agent = NewAgent /\ up = {} /\ down = {} /\ ticked = FALSE
        /\ history = [stopped |-> FALSE, unbound |-> FALSE]
    BY Zenon DEF RegInit
  <1>2. Bounded(contacts)
    BY <1>1, RegAssumption DEF Bounded, Distinct
  <1>3. agent \in Agents
    <2>1. {} \in Times /\ 0 \in Tries
      BY Zero DEF Times
    <2> HIDE DEF Times, Tries
    <2> QED BY <1>1, <2>1 DEF Agents, NewAgent, States
  <1>4. history \in [stopped : BOOLEAN, unbound : BOOLEAN]
    BY <1>1
  <1> QED BY <1>1, <1>2, <1>3, <1>4, Zenon DEF Typed

\* Every reachable state has its type.
LEMMA RegTyped == RegSpec => []Typed
  <1> QED BY InitTyped, TypedKept, PTL DEF RegSpec

\* Whatever devices register, refresh and unregister, in whatever order and
\* with however many Contacts each (handle_register, bind), the state keeps
\* its type.
THEOREM RegistrationTypes == RegSpec => []RegTypeOK
  <1>1. Typed => RegTypeOK
    <2> SUFFICES ASSUME Typed PROVE RegTypeOK
      OBVIOUS
    <2>1. Range(contacts) \subseteq Bindings
      BY DEF Typed, Bounded, Range
    <2> QED BY <2>1, Zenon DEF Typed, RegTypeOK, Bindings, Agents, States, Tries, Times, Ups, Downs
  <1> QED BY <1>1, RegTyped, PTL

\* The registrar never holds more than max_contacts bindings of an address of
\* record, nor two for one URI: for every limit above 0, every number of
\* devices and both settings of remove_existing.
THEOREM RegistrarWithinLimit == RegSpec => []ContactsBounded
  <1>1. Typed => ContactsBounded
    BY Zenon DEF Typed, Bounded, Distinct, ContactsBounded
  <1> QED BY <1>1, RegTyped, PTL

\* When the refresh is due early enough for what the registrar grants and for
\* the network (RefreshInTime), and a repeated challenge is a rejection (the
\* default of auth_rejection_permanent), a device in state Registered has a live
\* binding, whatever tick, on_response, the registrar and the network did,
\* unless it was told to stop or another REGISTER unbound it.
THEOREM RegisteredHasBinding ==
  RefreshInTime /\ auth_rejection_permanent => (RegSpec => []RegisteredIsBound)
  <1> SUFFICES ASSUME RefreshInTime, auth_rejection_permanent
               PROVE  RegSpec => []RegisteredIsBound
    OBVIOUS
  <1>1. RegInit => Timely
    <2> SUFFICES ASSUME RegInit PROVE Timely
      OBVIOUS
    <2>1. agent.state # "Registered" /\ up = {} /\ down = {}
      BY DEF RegInit, NewAgent
    <2> QED BY <2>1, Zenon DEF Timely, Asking, Answered, Trusted
  <1>2. Typed /\ Typed' /\ Timely /\ [RegNext]_regVars => Timely'
    <2> SUFFICES ASSUME Typed, Typed', Timely, [RegNext]_regVars PROVE Timely'
      OBVIOUS
    <2>1. Asking'
      BY AskingKept, Zenon DEF Timely
    <2>2. Excused' \/ (Answered(contacts', down') /\ Trusted(contacts', agent', ticked'))
      BY TrustKept, Zenon
    <2> QED BY <2>1, <2>2, Zenon DEF Timely
  <1>3. Typed /\ Timely => RegisteredIsBound
    <2> SUFFICES ASSUME Typed, Timely, agent.state = "Registered",
                        ~ history.stopped, ~ history.unbound
                 PROVE  Bound_to(Live(contacts), Me)
      BY Zenon DEF RegisteredIsBound
    <2>1. Trusted(contacts, agent, ticked) /\ Bounded(contacts)
      BY Zenon DEF Timely, Excused, Typed
    <2>2. PICK s \in agent.last_sent : s \in Nat
      BY Numbers, Zenon DEF Timely, Asking
    <2> DEFINE B == determine_expiration(Expiration)
    <2>3. B \in Nat
      BY Params DEF determine_expiration
    <2>4. \E n \in Nat : n < B /\ Held(contacts, n)
      <3>1. /\ MaxDelay \in Nat /\ MaxDelay + 1 \in Nat /\ MaxDelay < B /\ MaxDelay + 1 < B
        BY <2>3, Params DEF RefreshInTime
      <3>2. CASE Held(contacts, IF ticked THEN MaxDelay ELSE MaxDelay + 1)
        <4>1. CASE ticked
          BY <3>1, <3>2, <4>1, Zenon
        <4>2. CASE ~ ticked
          BY <3>1, <3>2, <4>2, Zenon
        <4> QED BY <4>1, <4>2
      <3>3. CASE s < RefreshPoint \/ s = RefreshPoint
        <4>1. s + Slack(agent) \in Nat /\ s + Slack(agent) < B
          BY <2>2, <2>3, <3>3, Params DEF RefreshInTime, Slack
        <4>2. Held(contacts, s + Slack(agent))
          BY <2>1, Zenon DEF Trusted
        <4> QED BY <4>1, <4>2, Zenon
      <3> QED BY <2>1, <3>2, <3>3, Zenon DEF Trusted
    <2>5. PICK n \in Nat : n < B /\ Held(contacts, n)
      BY <2>4, Zenon
    <2>6. PICK i \in DOMAIN contacts :
            contacts[i].uri = Me /\ contacts[i].age <= n /\ contacts[i].expiration = B
      BY <2>5, Zenon DEF Held
    <2>7. ~ is_expired(contacts[i])
      <3>1. contacts[i] \in Bindings
        BY <2>1 DEF Bounded
      <3>2. contacts[i].age \in 0 .. MaxClock
        BY <3>1, Zenon DEF Bindings
      <3> HIDE DEF B
      <3> QED BY <2>3, <2>5, <2>6, <3>2 DEF is_expired
    <2>8. Holding(Live(contacts), contacts[i])
      BY <2>1, <2>7, LiveKeeps, Zenon
    <2> QED BY <2>6, <2>8, Zenon DEF Holding, Bound_to
  <1> QED BY <1>1, <1>2, <1>3, RegTyped, PTL DEF RegSpec
===============================================================================
