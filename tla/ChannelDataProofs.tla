-------------------------- MODULE ChannelDataProofs --------------------------
(***************************************************************************)
(* Facts about the data of a channel that the proofs about the sequencer   *)
(* and about the contract share: finite sums, and lists of recipients.     *)
(***************************************************************************)
EXTENDS ChannelData, FiniteSetTheorems, SequenceTheorems, TLAPS

(***************************************************************************)
(* SumFunction is a fold, and a fold is a function defined by recursion    *)
(* over the subsets of its domain.  SumsTo says of a function g over these *)
(* subsets that it may drop any element; there is exactly one such g, and  *)
(* the fold is it.                                                         *)
(***************************************************************************)
SumsTo(g, f, S) ==
    /\ g \in [SUBSET S -> Nat]
    /\ g[{}] = 0
    /\ \A s \in SUBSET S : \A x \in s : g[s] = f[x] + g[s \ {x}]

\* A nonempty collection of subsets of a finite set has a minimal one.
LEMMA MinimalSubset ==
    ASSUME NEW S, IsFiniteSet(S), NEW T, T \subseteq SUBSET S, T # {}
    PROVE  \E s \in T : \A t \in T : t \subseteq s => t = s
<1> DEFINE R == StrictSubsetOrdering(S)
<1>1. IsWellFoundedOn(R, SUBSET S)
  BY FS_StrictSubsetOrderingWellFounded, FS_FiniteSubsetsOfFinite
<1> HIDE DEF R
<1>2. \E s \in T : \A t \in T : ~(<<t, s>> \in R)
  BY <1>1, WFMin
<1> QED BY <1>2 DEF R, StrictSubsetOrdering

LEMMA SumsToExists ==
    ASSUME NEW S, IsFiniteSet(S), NEW f \in [S -> Nat]
    PROVE  \E g : SumsTo(g, f, S)
<1> DEFINE T == {s \in SUBSET S : ~\E g : SumsTo(g, f, s)}
<1> SUFFICES ASSUME T # {} PROVE FALSE
  OBVIOUS
<1>1. PICK s \in T : \A t \in T : t \subseteq s => t = s
  <2>1. T \subseteq SUBSET S
    OBVIOUS
  <2> HIDE DEF T
  <2> QED BY <2>1, MinimalSubset
<1>2. CASE s = {}
  <2>1. SumsTo([u \in SUBSET s |-> 0], f, s)
    BY <1>2 DEF SumsTo
  <2> QED BY <1>1, <2>1
<1>3. CASE s # {}
  <2>1. PICK x : x \in s
    BY <1>3
  <2> DEFINE r == s \ {x}
  <2>2. r \notin T /\ r \in SUBSET S
    BY <1>1, <2>1
  <2>3. PICK g : SumsTo(g, f, r)
    BY <2>2
  <2> DEFINE h == [u \in SUBSET s |-> IF x \in u THEN f[x] + g[u \ {x}] ELSE g[u]]
  <2>4. \A u \in SUBSET s : u \ {x} \in SUBSET r /\ (x \notin u => u \in SUBSET r)
    OBVIOUS
  <2>5. \A u \in SUBSET r : g[u] \in Nat
    BY <2>3 DEF SumsTo
  <2>6. \A y \in s : f[y] \in Nat
    BY <1>1
  <2>7. h \in [SUBSET s -> Nat]
    BY <2>1, <2>4, <2>5, <2>6
  <2>8. h[{}] = 0
    BY <2>3 DEF SumsTo
  <2>9. ASSUME NEW u \in SUBSET s, NEW y \in u
        PROVE  h[u] = f[y] + h[u \ {y}]
    <3>0. u \ {y} \in SUBSET s
      OBVIOUS
    <3>1. CASE y = x
      BY <3>0, <3>1
    <3>2. CASE y # x /\ x \in u
      <4>1. h[u] = f[x] + g[u \ {x}] /\ h[u \ {y}] = f[x] + g[(u \ {y}) \ {x}]
        BY <3>0, <3>2
      <4>2. g[u \ {x}] = f[y] + g[(u \ {x}) \ {y}]
        BY <2>3, <2>4, <3>2 DEF SumsTo
      <4>3. (u \ {x}) \ {y} = (u \ {y}) \ {x} /\ (u \ {x}) \ {y} \in SUBSET r
        OBVIOUS
      <4>4. f[x] \in Nat /\ f[y] \in Nat /\ g[(u \ {x}) \ {y}] \in Nat
        BY <2>1, <2>5, <2>6, <4>3
      <4> DEFINE a == g[(u \ {x}) \ {y}]
      <4>5. h[u \ {y}] = f[x] + a
        BY <4>1, <4>3
      <4>6. h[u] = f[x] + (f[y] + a) /\ a \in Nat
        BY <4>1, <4>2, <4>4
      <4> HIDE DEF h, a
      <4> QED BY <4>4, <4>5, <4>6
    <3>3. CASE x \notin u
      <4>1. h[u] = g[u] /\ h[u \ {y}] = g[u \ {y}]
        BY <3>0, <3>3
      <4>2. g[u] = f[y] + g[u \ {y}]
        BY <2>3, <2>4, <3>3 DEF SumsTo
      <4> QED BY <4>1, <4>2
    <3> QED BY <3>1, <3>2, <3>3
  <2> HIDE DEF h
  <2>10. SumsTo(h, f, s)
    BY <2>7, <2>8, <2>9 DEF SumsTo
  <2> QED BY <1>1, <2>10
<1> QED BY <1>2, <1>3

\* The fold that defines SumFunction has the value of any g that SumsTo.
LEMMA SumIsSumsTo ==
    ASSUME NEW S, IsFiniteSet(S), NEW f \in [S -> Nat], NEW g, SumsTo(g, f, S)
    PROVE  SumFunction(f) = g[S]
<1> DEFINE Folds(h) ==
        h = [s \in SUBSET S |->
                IF s = {} THEN 0
                ELSE f[CHOOSE x \in s : TRUE] + h[s \ {CHOOSE x \in s : TRUE}]]
    iter == CHOOSE h : Folds(h)
<1>1. Folds(g)
  <2>1. \A s \in SUBSET S : s # {} => (CHOOSE x \in s : TRUE) \in s
    OBVIOUS
  <2>2. g = [s \in SUBSET S |-> g[s]]
    BY DEF SumsTo
  <2> QED BY <2>1, <2>2 DEF SumsTo
<1>2. Folds(iter)
  BY <1>1
<1> HIDE DEF iter
<1>3. iter = g
  <2> DEFINE T == {s \in SUBSET S : iter[s] # g[s]}
  <2>1. T = {}
    <3> SUFFICES ASSUME T # {} PROVE FALSE
      OBVIOUS
    <3>1. PICK s \in T : \A t \in T : t \subseteq s => t = s
      <4>1. T \subseteq SUBSET S
        OBVIOUS
      <4> HIDE DEF T
      <4> QED BY <4>1, MinimalSubset
    <3>2. s # {}
      <4>1. iter[{}] = 0
        BY <1>2
      <4> QED BY <3>1, <4>1 DEF SumsTo
    <3> DEFINE x == CHOOSE y \in s : TRUE
    <3>3. x \in s
      BY <3>2
    <3>4. s \ {x} \notin T /\ s \ {x} \in SUBSET S
      BY <3>1, <3>3
    <3>5. iter[s] = f[x] + iter[s \ {x}] /\ g[s] = f[x] + g[s \ {x}]
      BY <1>1, <1>2, <3>2
    <3> QED BY <3>1, <3>4, <3>5
  <2>2. DOMAIN iter = SUBSET S /\ DOMAIN g = SUBSET S
    BY <1>1, <1>2
  <2> QED BY <1>1, <1>2, <2>1, <2>2
<1>4. DOMAIN f = S
  OBVIOUS
<1>5. SumFunction(f) = iter[S]
  BY <1>4 DEF SumFunction, SumFunctionOnSet, FoldFunctionOnSet, MapThenFoldSet, iter
<1> QED BY <1>3, <1>5

LEMMA SumExists ==
    ASSUME NEW S, IsFiniteSet(S), NEW f \in [S -> Nat]
    PROVE  \E g : SumsTo(g, f, S) /\ SumFunction(f) = g[S]
BY SumsToExists, SumIsSumsTo

\* What follows is all the other proofs use of sums.
LEMMA SumType ==
    ASSUME NEW S, IsFiniteSet(S), NEW f \in [S -> Nat]
    PROVE  SumFunction(f) \in Nat
<1>1. PICK g : SumsTo(g, f, S) /\ SumFunction(f) = g[S]
  BY SumExists
<1>2. g \in [SUBSET S -> Nat] /\ S \in SUBSET S
  BY <1>1 DEF SumsTo
<1> QED BY <1>1, <1>2

LEMMA SumEmpty ==
    ASSUME NEW f, DOMAIN f = {}, f = [x \in DOMAIN f |-> f[x]]
    PROVE  SumFunction(f) = 0
<1>1. f \in [{} -> Nat] /\ IsFiniteSet({})
  BY FS_EmptySet
<1> QED BY <1>1, SumExists DEF SumsTo

LEMMA SumRemove ==
    ASSUME NEW S, IsFiniteSet(S), NEW f \in [S -> Nat], NEW x \in S
    PROVE  SumFunction(f) = f[x] + SumFunction([y \in S \ {x} |-> f[y]])
<1> DEFINE r == S \ {x}
           h == [y \in r |-> f[y]]
<1>1. PICK g : SumsTo(g, f, S) /\ SumFunction(f) = g[S]
  BY SumExists
<1>2. h \in [r -> Nat] /\ IsFiniteSet(r)
  BY FS_Subset
<1> DEFINE k == [s \in SUBSET r |-> g[s]]
<1>3. SumsTo(k, h, r)
  <2>1. k \in [SUBSET r -> Nat] /\ k[{}] = 0
    BY <1>1 DEF SumsTo
  <2>2. ASSUME NEW s \in SUBSET r, NEW y \in s PROVE k[s] = h[y] + k[s \ {y}]
    BY <1>1 DEF SumsTo
  <2> HIDE DEF k, h
  <2> QED BY <2>1, <2>2 DEF SumsTo
<1>4. SumFunction(h) = k[r]
  <2> HIDE DEF h, k, r
  <2> QED BY <1>2, <1>3, SumIsSumsTo
<1>5. g[S] = f[x] + g[r] /\ k[r] = g[r]
  BY <1>1 DEF SumsTo
<1> QED BY <1>1, <1>4, <1>5

LEMMA SumChange ==
    ASSUME NEW S, IsFiniteSet(S), NEW f \in [S -> Nat], NEW h \in [S -> Nat],
           NEW x \in S, \A y \in S \ {x} : f[y] = h[y]
    PROVE  SumFunction(h) + f[x] = SumFunction(f) + h[x]
<1>1. [y \in S \ {x} |-> f[y]] = [y \in S \ {x} |-> h[y]]
  OBVIOUS
<1> DEFINE rest == SumFunction([y \in S \ {x} |-> f[y]])
<1>2. rest \in Nat
  <2>1. [y \in S \ {x} |-> f[y]] \in [S \ {x} -> Nat] /\ IsFiniteSet(S \ {x})
    BY FS_Subset
  <2> QED BY <2>1, SumType
<1>3. SumFunction(f) = f[x] + rest /\ SumFunction(h) = h[x] + rest
  BY <1>1, SumRemove
<1> HIDE DEF rest
<1> QED BY <1>2, <1>3

LEMMA SumMonotone ==
    ASSUME NEW T, IsFiniteSet(T), NEW h \in [T -> Nat],
           NEW S \in SUBSET T, NEW f \in [S -> Nat], \A x \in S : f[x] <= h[x]
    PROVE  SumFunction(f) <= SumFunction(h)
<1>0. IsFiniteSet(S)
  BY FS_Subset
<1>1. PICK k : SumsTo(k, f, S) /\ SumFunction(f) = k[S]
  BY <1>0, SumExists
<1>2. PICK g : SumsTo(g, h, T) /\ SumFunction(h) = g[T]
  BY SumExists
<1> DEFINE Bad == {t \in SUBSET T : ~(k[t \cap S] <= g[t])}
<1>3. Bad = {}
  <2> SUFFICES ASSUME Bad # {} PROVE FALSE
    OBVIOUS
  <2>1. PICK t \in Bad : \A u \in Bad : u \subseteq t => u = t
    <3>1. Bad \subseteq SUBSET T
      OBVIOUS
    <3> HIDE DEF Bad
    <3> QED BY <3>1, MinimalSubset
  <2>2. t # {}
    <3>1. {} \cap S = {} /\ k[{}] = 0 /\ g[{}] = 0
      BY <1>1, <1>2 DEF SumsTo
    <3>2. k[{} \cap S] <= g[{}]
      BY <3>1
    <3> QED BY <2>1, <3>2
  <2>3. PICK x : x \in t
    BY <2>2
  <2> DEFINE u == t \ {x}
  <2>4. u \in SUBSET T /\ k[u \cap S] <= g[u]
    BY <2>1, <2>3
  <2>5. g[t] = h[x] + g[u] /\ g[u] \in Nat /\ h[x] \in Nat
    BY <1>2, <2>3 DEF SumsTo
  <2>6. CASE x \in S
    <3>1. (t \cap S) \ {x} = u \cap S
      OBVIOUS
    <3>2. k[t \cap S] = f[x] + k[u \cap S] /\ k[u \cap S] \in Nat
      <4>1. t \cap S \in SUBSET S /\ u \cap S \in SUBSET S /\ x \in t \cap S
        BY <2>3, <2>6
      <4>2. k[t \cap S] = f[x] + k[(t \cap S) \ {x}] /\ k[u \cap S] \in Nat
        BY <1>1, <4>1 DEF SumsTo
      <4> QED BY <3>1, <4>2
    <3>3. k[t \cap S] <= g[t]
      BY <2>4, <2>5, <2>6, <3>2
    <3> QED BY <2>1, <3>3
  <2>7. CASE x \notin S
    <3>1. t \cap S = u \cap S /\ u \cap S \in SUBSET S
      BY <2>7
    <3>2. k[u \cap S] \in Nat
      BY <1>1, <3>1 DEF SumsTo
    <3> DEFINE n == k[u \cap S]
    <3> HIDE DEF u
    <3>3. n \in Nat /\ n <= g[u] /\ k[t \cap S] = n
      BY <2>4, <3>1, <3>2
    <3> HIDE DEF n
    <3>4. k[t \cap S] <= g[t]
      BY <2>5, <3>3
    <3> QED BY <2>1, <3>4
  <2> QED BY <2>6, <2>7
<1>4. T \cap S = S
  OBVIOUS
<1> QED BY <1>1, <1>2, <1>3, <1>4
-----------------------------------------------------------------------------
\* A nonempty set of indices has a last and a first one.
LEMMA LastIndex ==
    ASSUME NEW n \in Nat, NEW S \in SUBSET (1 .. n), S # {}
    PROVE  \E i \in S : \A j \in S : j <= i
<1> DEFINE T == {i .. n : i \in S}
<1>1. PICK t \in T : \A u \in T : u \subseteq t => u = t
  <2> DEFINE N == 1 .. n
  <2>1. \A u \in T : u \in SUBSET N
    OBVIOUS
  <2>2. T # {}
    OBVIOUS
  <2>4. IsFiniteSet(N)
    BY FS_Interval, n \in Int, 1 \in Int
  <2> HIDE DEF T, N
  <2>3. T \subseteq SUBSET N
    BY <2>1
  <2> QED BY <2>2, <2>3, <2>4, MinimalSubset
<1>2. PICK i \in S : t = i .. n
  BY <1>1
<1>3. ASSUME NEW j \in S, i < j PROVE FALSE
  <2>1. j .. n \in T /\ j .. n \subseteq t
    BY <1>2, <1>3
  <2>2. j .. n = i .. n
    BY <1>1, <1>2, <2>1
  <2>3. i \in i .. n /\ i \notin j .. n
    BY <1>3
  <2> QED BY <2>2, <2>3
<1>4. \A j \in S : j <= i
  BY <1>3
<1> QED BY <1>4

LEMMA FirstIndex ==
    ASSUME NEW n \in Nat, NEW S \in SUBSET (1 .. n), S # {}
    PROVE  \E i \in S : \A j \in S : i <= j
<1> DEFINE T == {1 .. i : i \in S}
<1>1. PICK t \in T : \A u \in T : u \subseteq t => u = t
  <2> DEFINE N == 1 .. n
  <2>1. \A u \in T : u \in SUBSET N
    OBVIOUS
  <2>2. T # {}
    OBVIOUS
  <2>4. IsFiniteSet(N)
    BY FS_Interval, n \in Int, 1 \in Int
  <2> HIDE DEF T, N
  <2>3. T \subseteq SUBSET N
    BY <2>1
  <2> QED BY <2>2, <2>3, <2>4, MinimalSubset
<1>2. PICK i \in S : t = 1 .. i
  BY <1>1
<1>3. ASSUME NEW j \in S, j < i PROVE FALSE
  <2>1. 1 .. j \in T /\ 1 .. j \subseteq t
    BY <1>2, <1>3
  <2>2. 1 .. j = 1 .. i
    BY <1>1, <1>2, <2>1
  <2>3. i \in 1 .. i /\ i \notin 1 .. j
    BY <1>3
  <2> QED BY <2>2, <2>3
<1>4. \A j \in S : i <= j
  BY <1>3
<1> QED BY <1>4
-----------------------------------------------------------------------------
(***************************************************************************)
(* The recipients of a channel: each address once, each entry at the       *)
(* position it records.  A list outgrows another when it starts with the   *)
(* same addresses and owes each of them at least as much.                  *)
(***************************************************************************)
Listing(r) ==
    /\ r \in Seq(RecipientBalance)
    /\ \A i \in DOMAIN r : r[i].pos = i - 1
    /\ \A i, j \in DOMAIN r : r[i].addr = r[j].addr => i = j

Outgrows(s, r) ==
    /\ DOMAIN r \subseteq DOMAIN s
    /\ \A i \in DOMAIN r : s[i].addr = r[i].addr /\ r[i].bal <= s[i].bal

LEMMA ListingEntry ==
    ASSUME NEW r \in Seq(RecipientBalance)
    PROVE  /\ Len(r) \in Nat /\ DOMAIN r = 1 .. Len(r)
           /\ \A i \in DOMAIN r :
                r[i].addr \in Address /\ r[i].bal \in Nat /\ r[i].pos \in Nat
<1>1. Len(r) \in Nat /\ DOMAIN r = 1 .. Len(r) /\ \A i \in DOMAIN r : r[i] \in RecipientBalance
  OBVIOUS
<1> QED BY <1>1 DEF RecipientBalance

LEMMA EmptyListing == Listing(<<>>) /\ \A r : Outgrows(r, <<>>)
BY DEF Listing, Outgrows

LEMMA OutgrowsItself ==
    ASSUME NEW r \in Seq(RecipientBalance)
    PROVE  Outgrows(r, r)
<1>1. \A i \in DOMAIN r : r[i].bal \in Nat
  BY ListingEntry
<1> QED BY <1>1 DEF Outgrows

LEMMA OutgrowsTransitive ==
    ASSUME NEW r \in Seq(RecipientBalance), NEW s \in Seq(RecipientBalance),
           NEW t \in Seq(RecipientBalance), Outgrows(t, s), Outgrows(s, r)
    PROVE  Outgrows(t, r)
<1>1. ASSUME NEW i \in DOMAIN r
      PROVE  i \in DOMAIN t /\ t[i].addr = r[i].addr /\ r[i].bal <= t[i].bal
  <2>1. i \in DOMAIN s /\ s[i].addr = r[i].addr /\ r[i].bal <= s[i].bal
    BY DEF Outgrows
  <2>2. i \in DOMAIN t /\ t[i].addr = s[i].addr /\ s[i].bal <= t[i].bal
    BY <2>1 DEF Outgrows
  <2>3. r[i].bal \in Nat /\ s[i].bal \in Nat /\ t[i].bal \in Nat
    BY <2>1, <2>2, ListingEntry
  <2> QED BY <2>1, <2>2, <2>3
<1> QED BY <1>1 DEF Outgrows

LEMMA AddAmountGrows ==
    ASSUME NEW r, Listing(r), NEW a \in Address, NEW n \in Nat
    PROVE  Listing(AddAmount(r, a, n)) /\ Outgrows(AddAmount(r, a, n), r)
<1>0. /\ r \in Seq(RecipientBalance) /\ Len(r) \in Nat /\ DOMAIN r = 1 .. Len(r)
      /\ \A i \in DOMAIN r : /\ r[i] \in RecipientBalance /\ r[i].pos = i - 1
                             /\ r[i].addr \in Address /\ r[i].bal \in Nat
  BY ListingEntry DEF Listing
<1>1. CASE n = 0
  BY <1>0, <1>1, OutgrowsItself DEF AddAmount
<1>2. CASE n # 0 /\ PositionsOf(r, a) # {}
  <2> DEFINE k == FirstPosition(r, a)
             new == [r EXCEPT ![k].bal = @ + n]
  <2>1. AddAmount(r, a, n) = new
    BY <1>2 DEF AddAmount
  <2> HIDE DEF k
  <2>2. DOMAIN new = DOMAIN r
    OBVIOUS
  <2>3. ASSUME NEW i \in DOMAIN r
        PROVE  /\ new[i] \in RecipientBalance /\ new[i].addr = r[i].addr
               /\ new[i].pos = i - 1 /\ r[i].bal <= new[i].bal
    <3>1. CASE i = k
      <4>1. new[i] = [r[i] EXCEPT !.bal = r[i].bal + n]
        BY <3>1
      <4>2. ASSUME NEW e \in RecipientBalance
            PROVE  /\ [e EXCEPT !.bal = e.bal + n] \in RecipientBalance
                   /\ [e EXCEPT !.bal = e.bal + n].addr = e.addr
                   /\ [e EXCEPT !.bal = e.bal + n].pos = e.pos
                   /\ e.bal <= [e EXCEPT !.bal = e.bal + n].bal
        BY DEF RecipientBalance
      <4> HIDE DEF new
      <4> QED BY <1>0, <4>1, <4>2
    <3>2. CASE i # k
      <4>1. new[i] = r[i]
        BY <3>2
      <4> HIDE DEF new
      <4> QED BY <1>0, <4>1
    <3> QED BY <3>1, <3>2
  <2>4. new = [i \in 1 .. Len(r) |-> new[i]]
    BY <1>0
  <2> HIDE DEF new
  <2>5. new \in Seq(RecipientBalance)
    BY <1>0, <2>3, <2>4
  <2>6. \A i, j \in DOMAIN new : new[i].addr = new[j].addr => i = j
    BY <2>2, <2>3 DEF Listing
  <2> QED BY <2>1, <2>2, <2>3, <2>5, <2>6 DEF Listing, Outgrows
<1>3. CASE n # 0 /\ PositionsOf(r, a) = {}
  <2> DEFINE e == [addr |-> a, bal |-> n, pos |-> Len(r)]
             new == Append(r, e)
  <2>1. AddAmount(r, a, n) = new
    BY <1>3 DEF AddAmount
  <2>2. e \in RecipientBalance /\ e.pos = Len(r) /\ e.addr = a
    BY <1>0 DEF RecipientBalance
  <2> HIDE DEF e
  <2>3. /\ new \in Seq(RecipientBalance) /\ DOMAIN new = 1 .. Len(r) + 1
        /\ \A i \in DOMAIN r : new[i] = r[i]
        /\ new[Len(r) + 1] = e
    BY <1>0, <2>2
  <2> HIDE DEF new
  <2>4. \A i \in DOMAIN r : r[i].addr # a
    BY <1>3 DEF PositionsOf
  <2>5. \A i \in DOMAIN new : i \in DOMAIN r \/ i = Len(r) + 1
    BY <1>0, <2>3
  <2>6. \A i \in DOMAIN new : new[i].pos = i - 1
    BY <1>0, <2>2, <2>3, <2>5
  <2>7. \A i, j \in DOMAIN new : new[i].addr = new[j].addr => i = j
    BY <2>2, <2>3, <2>4, <2>5 DEF Listing
  <2>8. Outgrows(new, r)
    BY <1>0, <2>3 DEF Outgrows
  <2> QED BY <2>1, <2>3, <2>6, <2>7, <2>8 DEF Listing
<1> QED BY <1>1, <1>2, <1>3

\* A payment keeps a listing a listing, and takes from nobody.
LEMMA ApplyPaymentGrows ==
    ASSUME NEW r, Listing(r), NEW pay \in Payment
    PROVE  Listing(ApplyPayment(r, pay)) /\ Outgrows(ApplyPayment(r, pay), r)
<1> DEFINE mid == AddAmount(r, pay.to, pay.amount)
           new == AddAmount(mid, pay.feeTo, pay.fee)
<1>1. pay.to \in Address /\ pay.amount \in Nat /\ pay.feeTo \in Address /\ pay.fee \in Nat
  BY DEF Payment
<1>2. Listing(mid) /\ Outgrows(mid, r)
  BY <1>1, AddAmountGrows
<1> HIDE DEF mid
<1>3. Listing(new) /\ Outgrows(new, mid)
  BY <1>1, <1>2, AddAmountGrows
<1> HIDE DEF new
<1>4. Outgrows(new, r)
  BY <1>2, <1>3, OutgrowsTransitive DEF Listing
<1> QED BY <1>3, <1>4 DEF ApplyPayment, new, mid

\* A message that shows a listing shows all of it.
LEMMA ListingContent ==
    ASSUME NEW r, Listing(r)
    PROVE  FromContent(Content(r)) = r
<1>1. DOMAIN Content(r) = DOMAIN r
  BY DEF Content
<1>2. ASSUME NEW i \in DOMAIN r
      PROVE  [addr |-> Content(r)[i][1], bal |-> Content(r)[i][2], pos |-> i - 1] = r[i]
  <2>1. Content(r)[i][1] = r[i].addr /\ Content(r)[i][2] = r[i].bal /\ r[i].pos = i - 1
    BY DEF Content, Listing
  <2>2. r[i] \in RecipientBalance
    BY DEF Listing
  <2> QED BY <2>1, <2>2 DEF RecipientBalance
<1>3. r = [i \in DOMAIN r |-> r[i]]
  BY DEF Listing
<1> QED BY <1>1, <1>2, <1>3 DEF FromContent

LEMMA ContentTotal ==
    ASSUME NEW r \in Seq(RecipientBalance)
    PROVE  /\ IsFiniteSet(DOMAIN r)
           /\ [i \in DOMAIN r |-> r[i].bal] \in [DOMAIN r -> Nat]
           /\ Total(Content(r)) = SumFunction([i \in DOMAIN r |-> r[i].bal])
<1>1. IsFiniteSet(DOMAIN r)
  BY FS_Interval, ListingEntry
<1>2. [i \in DOMAIN r |-> r[i].bal] \in [DOMAIN r -> Nat]
  BY ListingEntry
<1>3. [i \in DOMAIN Content(r) |-> Content(r)[i][2]] = [i \in DOMAIN r |-> r[i].bal]
  BY DEF Content
<1> QED BY <1>1, <1>2, <1>3 DEF Total

LEMMA OutgrowsTotal ==
    ASSUME NEW s \in Seq(RecipientBalance), NEW r \in Seq(RecipientBalance), Outgrows(s, r)
    PROVE  /\ Total(Content(r)) \in Nat /\ Total(Content(s)) \in Nat
           /\ Total(Content(r)) <= Total(Content(s))
<1> DEFINE f == [i \in DOMAIN r |-> r[i].bal]
           h == [i \in DOMAIN s |-> s[i].bal]
<1>1. /\ IsFiniteSet(DOMAIN r) /\ f \in [DOMAIN r -> Nat] /\ Total(Content(r)) = SumFunction(f)
      /\ IsFiniteSet(DOMAIN s) /\ h \in [DOMAIN s -> Nat] /\ Total(Content(s)) = SumFunction(h)
  BY ContentTotal
<1>2. DOMAIN r \in SUBSET DOMAIN s /\ \A i \in DOMAIN r : f[i] <= h[i]
  BY DEF Outgrows
<1> HIDE DEF f, h
<1>3. SumFunction(f) <= SumFunction(h)
  BY <1>1, <1>2, SumMonotone
<1>4. SumFunction(f) \in Nat /\ SumFunction(h) \in Nat
  BY <1>1, SumType
<1> QED BY <1>1, <1>3, <1>4

\* In a list without repetitions an address is owed what its only entry says.
LEMMA OnlyEntry ==
    ASSUME NEW r \in Seq(RecipientBalance), NEW i \in DOMAIN r,
           \A j \in DOMAIN r : r[j].addr = r[i].addr => j = i
    PROVE  BalanceOf(r, r[i].addr) = r[i].bal
<1>1. PositionsOf(r, r[i].addr) = {i}
  BY DEF PositionsOf
<1>2. i \in Nat
  BY ListingEntry
<1>3. FirstPosition(r, r[i].addr) = i
  BY <1>1, <1>2 DEF FirstPosition
<1> QED BY <1>1, <1>3 DEF BalanceOf

LEMMA OutgrowsPays ==
    ASSUME NEW s, Listing(s), NEW r \in Seq(RecipientBalance), Outgrows(s, r), NEW a
    PROVE  BalanceOf(r, a) <= BalanceOf(s, a)
<1>0. s \in Seq(RecipientBalance)
  BY DEF Listing
<1>1. CASE \E i \in DOMAIN r : r[i].addr = a
  <2>1. PICK i \in DOMAIN r : r[i].addr = a
    BY <1>1
  <2>2. i \in DOMAIN s /\ s[i].addr = a /\ r[i].bal <= s[i].bal
    BY <2>1 DEF Outgrows
  <2>3. \A j \in DOMAIN s : s[j].addr = a => j = i
    BY <2>2 DEF Listing
  <2>4. \A j \in DOMAIN r : r[j].addr = a => j = i
    BY <2>3 DEF Outgrows
  <2>5. BalanceOf(s, a) = s[i].bal
    BY <1>0, <2>2, <2>3, OnlyEntry
  <2>6. BalanceOf(r, a) = r[i].bal
    BY <2>1, <2>4, OnlyEntry
  <2> QED BY <2>2, <2>5, <2>6
<1>2. CASE ~\E i \in DOMAIN r : r[i].addr = a
  <2>1. BalanceOf(r, a) = 0
    BY <1>2 DEF BalanceOf, PositionsOf
  <2>2. BalanceOf(s, a) \in Nat
    <3>1. CASE \E i \in DOMAIN s : s[i].addr = a
      <4>1. PICK i \in DOMAIN s : s[i].addr = a
        BY <3>1
      <4>2. BalanceOf(s, a) = s[i].bal
        BY <1>0, <4>1, OnlyEntry DEF Listing
      <4> QED BY <1>0, <4>2, ListingEntry
    <3>2. CASE ~\E i \in DOMAIN s : s[i].addr = a
      BY <3>2 DEF BalanceOf, PositionsOf
    <3> QED BY <3>1, <3>2
  <2> QED BY <2>1, <2>2
<1> QED BY <1>1, <1>2

\* The rows of a listing determine it.
LEMMA SameRows ==
    ASSUME NEW r, Listing(r), NEW s, Listing(s), Range(r) = Range(s)
    PROVE  r = s
<1>1. ASSUME NEW t, Listing(t), NEW u, Listing(u), Range(t) = Range(u), NEW i \in DOMAIN t
      PROVE  i \in DOMAIN u /\ u[i] = t[i]
  <2>1. PICK j \in DOMAIN u : u[j] = t[i]
    BY <1>1 DEF Range
  <2>2. u[j].pos = j - 1 /\ t[i].pos = i - 1
    BY <1>1 DEF Listing
  <2>3. i \in Int /\ j \in Int
    BY <1>1, ListingEntry DEF Listing
  <2> QED BY <2>1, <2>2, <2>3
<1>2. DOMAIN r = DOMAIN s /\ \A i \in DOMAIN r : r[i] = s[i]
  BY <1>1
<1>3. r = [i \in DOMAIN r |-> r[i]] /\ s = [i \in DOMAIN s |-> s[i]]
  BY DEF Listing
<1> QED BY <1>2, <1>3
=============================================================================
