----------------------- MODULE SequencerLedgerProofs -----------------------
(***************************************************************************)
(* The sequencer implements ChannelLedger, for every finite set of         *)
(* addresses and every set of channels, request slots and payments, as     *)
(* long as the sequencer does not crash and one process sets channels up.  *)
(***************************************************************************)
EXTENDS SequencerSafetyProofs

\* What a listing owes to an address is in its entry.
LEMMA BalanceOfListing ==
    ASSUME NEW r, Listing(r)
    PROVE  /\ \A a : BalanceOf(r, a) \in Nat
           /\ \A i \in DOMAIN r : BalanceOf(r, r[i].addr) = r[i].bal
           /\ \A a : (\A i \in DOMAIN r : r[i].addr # a) => BalanceOf(r, a) = 0
<1>1. r \in Seq(RecipientBalance)
  BY DEF Listing
<1>2. \A i \in DOMAIN r : BalanceOf(r, r[i].addr) = r[i].bal
  BY <1>1, OnlyEntry DEF Listing
<1>3. \A a : (\A i \in DOMAIN r : r[i].addr # a) => BalanceOf(r, a) = 0
  BY DEF BalanceOf, PositionsOf
<1>4. ASSUME NEW a PROVE BalanceOf(r, a) \in Nat
  <2>1. CASE \E i \in DOMAIN r : r[i].addr = a
    BY <1>1, <1>2, <2>1, ListingEntry
  <2>2. CASE \A i \in DOMAIN r : r[i].addr # a
    BY <1>3, <2>2
  <2> QED BY <2>1, <2>2
<1> QED BY <1>2, <1>3, <1>4

\* An amount is owed to the address it is added for, and to no other.
LEMMA AddAmountOwes ==
    ASSUME NEW r, Listing(r), NEW b \in Address, NEW n \in Nat, NEW a
    PROVE  BalanceOf(AddAmount(r, b, n), a)
             = BalanceOf(r, a) + (IF a = b THEN n ELSE 0)
<1>1. /\ r \in Seq(RecipientBalance) /\ DOMAIN r = 1 .. Len(r) /\ Len(r) \in Nat
      /\ \A i \in DOMAIN r : r[i].bal \in Nat /\ r[i].addr \in Address
  BY ListingEntry DEF Listing
<1>2. PICK s : s = AddAmount(r, b, n) /\ Listing(s)
  BY AddAmountGrows
<1> SUFFICES BalanceOf(s, a) = BalanceOf(r, a) + (IF a = b THEN n ELSE 0)
  BY <1>2
<1>3. BalanceOf(r, a) \in Nat
  BY BalanceOfListing
<1>4. CASE n = 0
  BY <1>2, <1>3, <1>4 DEF AddAmount
<1>5. CASE n # 0 /\ PositionsOf(r, b) # {}
  <2>1. PICK l \in DOMAIN r : r[l].addr = b
    BY <1>5 DEF PositionsOf
  <2>2. PositionsOf(r, b) = {l}
    BY <2>1 DEF PositionsOf, Listing
  <2>3. FirstPosition(r, b) = l
    BY <1>1, <2>1, <2>2 DEF FirstPosition
  <2>4. s = [r EXCEPT ![l] = [r[l] EXCEPT !.bal = r[l].bal + n]]
    BY <1>2, <1>5, <2>3 DEF AddAmount
  <2>5. \A i \in DOMAIN r : i # l => s[i] = r[i]
    BY <2>4
  <2>6. DOMAIN s = DOMAIN r /\ s[l] = [r[l] EXCEPT !.bal = r[l].bal + n]
    BY <2>1, <2>4
  <2>7. s[l].addr = b /\ s[l].bal = r[l].bal + n
    <3>1. r[l] \in RecipientBalance
      BY <1>1, <2>1
    <3> QED BY <2>1, <2>6, <3>1 DEF RecipientBalance
  <2>8. CASE a = b
    <3>1. BalanceOf(s, s[l].addr) = s[l].bal
      BY <1>2, <2>1, <2>6, BalanceOfListing
    <3>2. BalanceOf(r, r[l].addr) = r[l].bal
      BY <2>1, BalanceOfListing
    <3> QED BY <2>1, <2>7, <2>8, <3>1, <3>2
  <2>9. CASE a # b /\ \E i \in DOMAIN r : r[i].addr = a
    <3>1. PICK i \in DOMAIN r : r[i].addr = a
      BY <2>9
    <3>2. i # l /\ s[i] = r[i]
      BY <2>1, <2>5, <2>9, <3>1
    <3>3. BalanceOf(s, a) = r[i].bal /\ BalanceOf(r, a) = r[i].bal
      BY <1>2, <2>6, <3>1, <3>2, BalanceOfListing
    <3> QED BY <1>3, <2>9, <3>3
  <2>10. CASE a # b /\ \A i \in DOMAIN r : r[i].addr # a
    <3>1. \A i \in DOMAIN s : s[i].addr # a
      BY <2>5, <2>6, <2>7, <2>10
    <3>2. BalanceOf(s, a) = 0 /\ BalanceOf(r, a) = 0
      BY <1>2, <2>10, <3>1, BalanceOfListing
    <3> QED BY <2>10, <3>2
  <2> QED BY <2>8, <2>9, <2>10
<1>6. CASE n # 0 /\ PositionsOf(r, b) = {}
  <2>1. /\ s = Append(r, [addr |-> b, bal |-> n, pos |-> Len(r)])
        /\ \A i \in DOMAIN r : r[i].addr # b
    BY <1>2, <1>6 DEF AddAmount, PositionsOf
  <2>2. /\ DOMAIN s = DOMAIN r \cup {Len(r) + 1} /\ s[Len(r) + 1].addr = b
        /\ s[Len(r) + 1].bal = n /\ \A i \in DOMAIN r : s[i] = r[i]
    BY <1>1, <2>1
  <2>3. CASE a = b
    <3>1. BalanceOf(s, a) = n /\ BalanceOf(r, a) = 0
      BY <1>2, <2>1, <2>2, <2>3, BalanceOfListing
    <3> QED BY <2>3, <3>1
  <2>4. CASE a # b /\ \E i \in DOMAIN r : r[i].addr = a
    <3>1. PICK i \in DOMAIN r : r[i].addr = a
      BY <2>4
    <3>2. BalanceOf(s, a) = r[i].bal /\ BalanceOf(r, a) = r[i].bal
      BY <1>2, <2>2, <3>1, BalanceOfListing
    <3> QED BY <1>3, <2>4, <3>2
  <2>5. CASE a # b /\ \A i \in DOMAIN r : r[i].addr # a
    <3>1. \A i \in DOMAIN s : s[i].addr # a
      BY <2>2, <2>5
    <3>2. BalanceOf(s, a) = 0 /\ BalanceOf(r, a) = 0
      BY <1>2, <2>5, <3>1, BalanceOfListing
    <3> QED BY <2>5, <3>2
  <2> QED BY <2>3, <2>4, <2>5
<1> QED BY <1>4, <1>5, <1>6

\* A payment is owed in the shares the ledger adds.
LEMMA ApplyPaymentOwes ==
    ASSUME NEW r, Listing(r), NEW pay \in Payment, NEW a
    PROVE  BalanceOf(ApplyPayment(r, pay), a) = BalanceOf(r, a) + Ledger!Share(pay, a)
<1>1. pay.to \in Address /\ pay.feeTo \in Address /\ pay.amount \in Nat /\ pay.fee \in Nat
  BY DEF Payment
<1> DEFINE s == AddAmount(r, pay.to, pay.amount)
<1>2. Listing(s)
  BY <1>1, AddAmountGrows
<1>3. BalanceOf(s, a) = BalanceOf(r, a) + (IF a = pay.to THEN pay.amount ELSE 0)
  BY <1>1, AddAmountOwes
<1> HIDE DEF s
<1>4. BalanceOf(AddAmount(s, pay.feeTo, pay.fee), a)
        = BalanceOf(s, a) + (IF a = pay.feeTo THEN pay.fee ELSE 0)
  BY <1>1, <1>2, AddAmountOwes
<1>5. BalanceOf(r, a) \in Nat
  BY BalanceOfListing
<1> DEFINE x == BalanceOf(r, a)
           y == IF a = pay.to THEN pay.amount ELSE 0
           z == IF a = pay.feeTo THEN pay.fee ELSE 0
<1>6. x \in Nat /\ y \in Nat /\ z \in Nat
  BY <1>1, <1>5
<1>7. BalanceOf(ApplyPayment(r, pay), a) = (x + y) + z
  BY <1>3, <1>4 DEF ApplyPayment, s
<1>8. Ledger!Share(pay, a) = y + z
  BY DEF Ledger!Share
<1> HIDE DEF x, y, z
<1>9. (x + y) + z = x + (y + z)
  BY <1>6
<1> QED BY <1>7, <1>8, <1>9 DEF x

\* What a listing owes, summed over all addresses, is the sum of its entries.
LEMMA OwedInTotal ==
    ASSUME NEW r, Listing(r), IsFiniteSet(Address)
    PROVE  SumFunction([a \in Address |-> BalanceOf(r, a)]) = Total(Content(r))
<1> DEFINE D == DOMAIN r
           f == [i \in D |-> r[i].bal]
           h == [a \in Address |-> BalanceOf(r, a)]
           Entries(A) == {i \in D : r[i].addr \in A}
<1>1. /\ r \in Seq(RecipientBalance) /\ IsFiniteSet(D) /\ f \in [D -> Nat]
      /\ Total(Content(r)) = SumFunction(f)
      /\ \A i \in D : r[i].addr \in Address
      /\ \A i, j \in D : r[i].addr = r[j].addr => i = j
  BY ContentTotal, ListingEntry DEF Listing
<1>2. h \in [Address -> Nat]
  BY BalanceOfListing
<1>3. PICK g : SumsTo(g, f, D) /\ SumFunction(f) = g[D]
  BY <1>1, SumExists
<1>4. PICK k : SumsTo(k, h, Address) /\ SumFunction(h) = k[Address]
  BY <1>2, SumExists
<1> DEFINE T == {A \in SUBSET Address : k[A] # g[Entries(A)]}
<1>5. T = {}
  <2> SUFFICES ASSUME T # {} PROVE FALSE
    OBVIOUS
  <2>1. PICK A \in T : \A B \in T : B \subseteq A => B = A
    <3>1. T \subseteq SUBSET Address
      OBVIOUS
    <3> HIDE DEF T
    <3> QED BY <3>1, MinimalSubset
  <2>2. A # {}
    <3>1. Entries({}) = {}
      OBVIOUS
    <3> QED BY <1>3, <1>4, <2>1, <3>1 DEF SumsTo
  <2>3. PICK a \in A : TRUE
    BY <2>2
  <2> DEFINE B == A \ {a}
  <2>4. B \in SUBSET Address /\ A \in SUBSET Address /\ k[B] = g[Entries(B)]
    <3>1. A \in SUBSET Address /\ B \subseteq A /\ B # A
      BY <2>1, <2>3
    <3>2. B \notin T
      BY <2>1, <3>1
    <3> QED BY <3>1, <3>2
  <2>5. k[A] = h[a] + k[B] /\ k[B] \in Nat /\ h[a] = BalanceOf(r, a) /\ h[a] \in Nat
    BY <1>2, <1>4, <2>3, <2>4 DEF SumsTo
  <2>6. k[A] # g[Entries(A)] /\ Entries(A) \in SUBSET D /\ Entries(B) \in SUBSET D
    BY <2>1
  <2>7. CASE \E i \in D : r[i].addr = a
    <3>1. PICK i \in D : r[i].addr = a
      BY <2>7
    <3>2. i \in Entries(A) /\ Entries(A) \ {i} = Entries(B)
      BY <1>1, <2>3, <3>1
    <3>3. h[a] = f[i]
      BY <2>5, <3>1, BalanceOfListing
    <3> HIDE DEF Entries, f, h, T, B
    <3>4. g[Entries(A)] = f[i] + g[Entries(A) \ {i}]
      BY <1>3, <2>6, <3>2 DEF SumsTo
    <3> QED BY <2>4, <2>5, <2>6, <3>2, <3>3, <3>4
  <2>8. CASE \A i \in D : r[i].addr # a
    <3>1. Entries(A) = Entries(B)
      BY <2>8
    <3>2. h[a] = 0
      BY <2>5, <2>8, BalanceOfListing
    <3> HIDE DEF Entries, f, h, T, B
    <3> QED BY <2>4, <2>5, <2>6, <3>1, <3>2
  <2> QED BY <2>7, <2>8
<1>6. Address \in SUBSET Address /\ Entries(Address) = D
  BY <1>1
<1>7. k[Address] = g[D]
  BY <1>5, <1>6
<1> QED BY <1>1, <1>3, <1>4, <1>7
-----------------------------------------------------------------------------
(***************************************************************************)
(* Every step of the sequencer is a step of the ledger or leaves the       *)
(* ledger alone: a seed opens a channel, an applied settle pays, and       *)
(* everything else, aborts included, changes no replica.                   *)
(***************************************************************************)
LedgerNow ==
    [c \in Channels |-> IF channels[c] = None THEN None ELSE LedgerOf(channels[c])]

PaysRequested == \A m \in signed : m.pay \in Payments

LEMMA NextPaysRequested == PaysRequested /\ [Next]_vars => PaysRequested'
<1> SUFFICES ASSUME PaysRequested, [Next]_vars PROVE PaysRequested'
  OBVIOUS
<1>1. ASSUME NEW c \in Channels, NEW pay \in Payments, NEW ts \in Timestamps, Sign(c, pay, ts)
      PROVE  PaysRequested'
  BY <1>1 DEF Sign, PaysRequested
<1>2. ASSUME signed' = signed PROVE PaysRequested'
  BY <1>2 DEF PaysRequested
<1>3. CASE Tick
  BY <1>2, <1>3 DEF Tick
<1>4. ASSUME NEW p \in Requests,
             \/ \E c \in Channels : SeedStart(p, c) \/ FinalizeStart(p, c)
             \/ \E m \in signed : SettleStart(p, m)
             \/ Seed(p) \/ Settle(p) \/ Save(p) \/ FinalizeSend(p) \/ Abort(p)
      PROVE  signed' = signed
  BY <1>4 DEF SeedStart, FinalizeStart, SettleStart, Seed, SeedSave, SeedInsert, Settle,
              SettleRefuse, SettleReplay, SettleApply, Save, SaveChannelRow, SaveRecipientRow,
              SettleReply, FinalizeSend, Abort, clients
<1>5. CASE Crash
  BY <1>2, <1>5 DEF Crash, clients
<1>6. CASE UNCHANGED vars \/ \E k \in Setups, c \in Channels : Lookup(k, c)
  BY <1>2, <1>6 DEF vars, Lookup
<1> QED BY <1>1, <1>2, <1>3, <1>4, <1>5, <1>6 DEF Next

LEMMA LedgerOfIsEntry ==
    ASSUME NEW s \in ChannelState, Listing(s.recipients)
    PROVE  LedgerOf(s) # None
<1>1. [a \in Address |-> BalanceOf(s.recipients, a)] \in [Address -> Nat]
  BY BalanceOfListing
<1>2. LedgerOf(s) \in [seq : Nat, owed : [Address -> Nat]]
  BY <1>1 DEF LedgerOf, ChannelState
<1> QED BY <1>2, NoEntryAssumption

LEMMA SeedInsertOpens ==
    ASSUME StoreInv, NEW p \in Requests, SeedInsert(p)
    PROVE  Ledger!Next
<1>1. PICK c \in Channels :
        /\ channels[c] = None
        /\ channels' = [channels EXCEPT ![c] = Fresh]
        /\ channels \in [Channels -> ChannelState \cup {None}]
  BY JobType DEF SeedInsert, StoreInv, SeedsOnce, TypeInv, TypeOK
<1>2. Fresh # None
  BY FreshType, NoneAssumption
<1>3. LedgerOf(Fresh) = [seq |-> 0, owed |-> [a \in Address |-> 0]]
  <2>1. \A a : BalanceOf(<<>>, a) = 0
    BY DEF BalanceOf, PositionsOf
  <2>2. Fresh.recipients = <<>> /\ Fresh.seq = 0
    BY DEF Fresh
  <2> QED BY <2>1, <2>2 DEF LedgerOf
<1>4. LedgerNow' = [LedgerNow EXCEPT ![c] = LedgerOf(Fresh)]
  <2>1. channels'[c] = Fresh /\ \A e \in Channels : e # c => channels'[e] = channels[e]
    BY <1>1
  <2>2. LedgerNow' = [e \in Channels |-> IF e = c THEN LedgerOf(Fresh) ELSE LedgerNow[e]]
    BY <1>2, <2>1 DEF LedgerNow, LedgerOf, Fresh
  <2> QED BY <1>1, <2>2 DEF LedgerNow
<1>5. Ledger!Open(c)
  BY <1>1, <1>3, <1>4 DEF Ledger!Open, LedgerNow
<1> QED BY <1>1, <1>5 DEF Ledger!Next

LEMMA SettleApplyPays ==
    ASSUME StoreInv, BackedInv, PaysRequested, IsFiniteSet(Address), TypeInv',
           NEW p \in Requests, SettleApply(p)
    PROVE  Ledger!Next
<1>0. PICK c, m : c = job[p].chan /\ m = job[p].msg
  OBVIOUS
<1> DEFINE old == channels[c].recipients
           new == NextRecipients(m)
           state == [seq |-> m.seq, ts |-> m.ts, sig |-> m.sig,
                     cosig |-> Digest(c, m.seq, m.ts, Content(new)),
                     recipients |-> new]
           owed == [a \in Address |-> LedgerNow[c].owed[a] + Ledger!Share(m.pay, a)]
<1>1. /\ m \in PayRequest /\ m.chan = c /\ c \in Channels
      /\ channels[c] # None /\ channels[c] \in ChannelState
      /\ m.seq = channels[c].seq + 1
      /\ Listing(new) /\ Total(Content(new)) <= Balance[c]
  BY <1>0, AppliedListed
<1>2. channels' = [channels EXCEPT ![c] = state]
  BY <1>0, AppliedListed
<1>3. Listing(old)
  BY <1>1 DEF StoreInv, ReplicaListed
<1>4. m.pay \in Payment /\ m.pay \in Payments /\ m.pay.amount > 0
  <2>1. m \in signed /\ Acceptable(m)
    BY <1>0 DEF SettleApply, Extends, BackedInv, JobsSigned
  <2> QED BY <1>1, <2>1 DEF PaysRequested, PayRequest, Acceptable
<1>5. new = ApplyPayment(old, m.pay)
  BY <1>1 DEF NextRecipients
<1>6. LedgerNow[c] = LedgerOf(channels[c]) /\ LedgerNow[c] # None
  BY <1>1, <1>3, LedgerOfIsEntry DEF LedgerNow
<1>7. LedgerNow[c].seq = channels[c].seq
      /\ \A a \in Address : LedgerNow[c].owed[a] = BalanceOf(old, a)
  BY <1>6 DEF LedgerOf
<1>8. owed = [a \in Address |-> BalanceOf(new, a)]
  BY <1>3, <1>4, <1>5, <1>7, ApplyPaymentOwes
<1>9. SumFunction(owed) <= Balance[c]
  BY <1>1, <1>8, OwedInTotal
<1>10. LedgerOf(state) = [seq |-> LedgerNow[c].seq + 1, owed |-> owed]
  BY <1>1, <1>7, <1>8 DEF LedgerOf
<1>11. channels \in [Channels -> ChannelState \cup {None}] /\ state # None
  <2>1. channels \in [Channels -> ChannelState \cup {None}]
    BY DEF StoreInv, TypeInv, TypeOK
  <2>2. pc'[p] = "save" /\ job' = job
    BY DEF SettleApply, Goto, StoreInv, TypeInv, TypeOK
  <2>3. channels'[c] # None
    BY <1>0, <2>2 DEF TypeInv, BusyOnKnown
  <2> QED BY <1>1, <1>2, <2>1, <2>3
<1>12. c \in Channels /\ m.pay \in Payments /\ m.pay.amount > 0
  BY <1>1, <1>4
<1> HIDE DEF new, state, owed
<1>13. LedgerNow' = [LedgerNow EXCEPT ![c] = LedgerOf(state)]
  <2>1. channels'[c] = state /\ \A e \in Channels : e # c => channels'[e] = channels[e]
    BY <1>2, <1>11, <1>12
  <2>2. LedgerNow' = [e \in Channels |-> IF e = c THEN LedgerOf(state) ELSE LedgerNow[e]]
    BY <1>11, <2>1 DEF LedgerNow, LedgerOf
  <2> QED BY <2>2 DEF LedgerNow
<1>14. Ledger!Pay(c, m.pay)
  <2>1. Ledger!SumFunction(owed) <= Balance[c]
    BY <1>9 DEF SumFunction, SumFunctionOnSet, FoldFunctionOnSet, MapThenFoldSet,
                Ledger!SumFunction, Ledger!SumFunctionOnSet, Ledger!FoldFunctionOnSet,
                Ledger!MapThenFoldSet
  <2> QED BY <1>6, <1>10, <1>12, <1>13, <2>1 DEF Ledger!Pay, LedgerNow, owed
<1> QED BY <1>12, <1>14 DEF Ledger!Next

LEMMA NextLedger ==
    ASSUME "crash" \notin Faults, IsFiniteSet(Address)
    PROVE  StoreInv /\ BackedInv /\ PaysRequested /\ TypeInv' /\ [Next]_vars
             => [Ledger!Next]_([c \in Channels |->
                    IF channels[c] = None THEN None ELSE LedgerOf(channels[c])])
<1> SUFFICES ASSUME StoreInv, BackedInv, PaysRequested, TypeInv', [Next]_vars
             PROVE  Ledger!Next \/ LedgerNow' = LedgerNow
  BY DEF LedgerNow
<1>1. ASSUME UNCHANGED channels PROVE LedgerNow' = LedgerNow
  BY <1>1 DEF LedgerNow, LedgerOf
<1>2. ASSUME NEW p \in Requests, SeedInsert(p) PROVE Ledger!Next
  BY <1>2, SeedInsertOpens
<1>3. ASSUME NEW p \in Requests, SettleApply(p) PROVE Ledger!Next
  BY <1>3, SettleApplyPays
<1>4. ASSUME NEW p \in Requests,
             \/ \E c \in Channels : SeedStart(p, c) \/ FinalizeStart(p, c)
             \/ \E m \in signed : SettleStart(p, m)
             \/ SeedSave(p) \/ SettleRefuse(p) \/ SettleReplay(p) \/ Save(p)
             \/ FinalizeSend(p) \/ Abort(p)
      PROVE  UNCHANGED channels
  BY <1>4 DEF SeedStart, FinalizeStart, SettleStart, SeedSave, SettleRefuse, SettleReplay, Save,
              SaveChannelRow, SaveRecipientRow, SettleReply, FinalizeSend, Abort
<1>5. CASE \/ \E c \in Channels, pay \in Payments, ts \in Timestamps : Sign(c, pay, ts)
           \/ Tick \/ UNCHANGED vars
           \/ \E k \in Setups, c \in Channels : Lookup(k, c)
  BY <1>1, <1>5 DEF Sign, Tick, Lookup, vars
<1>6. ~Crash
  BY DEF Crash
<1> QED BY <1>1, <1>2, <1>3, <1>4, <1>5, <1>6 DEF Next, Seed, Settle

(***************************************************************************)
(* The replica is a ledger: every step opens a channel with nothing owed   *)
(* or adds one whole payment, fee included, within the channel's balance;  *)
(* handlers that end early leave no half of a payment behind.              *)
(***************************************************************************)
THEOREM ReplicaIsLedger ==
    ASSUME OneSetup, "crash" \notin Faults, IsFiniteSet(Address)
    PROVE  Spec => ImplementsLedger
<1>1. Init => Ledger!Init
  BY DEF Init, Ledger!Init
<1>2. CrashesOrAborts
  BY DEF CrashesOrAborts
<1>3. Spec => []StoreInv
  BY <1>2, InitStoreInv, NextStoreInv, PTL DEF Spec
<1>4. Spec => []TypeInv
  BY InitTypeInv, NextTypeInv, PTL DEF Spec
<1>5. TypeInv /\ TypeInv' /\ BackedInv /\ [Next]_vars => BackedInv'
  BY NextBackedInv
<1>6. Spec => []BackedInv
  BY <1>4, <1>5, InitBackedInv, PTL DEF Spec
<1>7. Init => PaysRequested
  BY DEF Init, PaysRequested
<1>8. Spec => []PaysRequested
  BY <1>7, NextPaysRequested, PTL DEF Spec
<1>9. StoreInv /\ BackedInv /\ PaysRequested /\ TypeInv' /\ [Next]_vars
        => [Ledger!Next]_([c \in Channels |->
               IF channels[c] = None THEN None ELSE LedgerOf(channels[c])])
  BY NextLedger
<1> QED BY <1>1, <1>3, <1>4, <1>6, <1>8, <1>9, PTL DEF Spec, ImplementsLedger, Ledger!Spec
=============================================================================
