------------------------ MODULE PaymentChannelProofs ------------------------
(***************************************************************************)
(* What the contract guarantees for every set of accounts, deposits,       *)
(* expiries and signed updates.  A closing is a function from one storage  *)
(* to the next and a batch composes two, so the lemmas are about a storage *)
(* s, not about the variable.                                              *)
(***************************************************************************)
EXTENDS PaymentChannel, ChannelDataProofs

Messages == Seq(Address \X Nat)

SolventStorage(s) ==
    /\ Deposits(s) <= s.token[Escrow]
    /\ ~PaysContract => Deposits(s) = s.token[Escrow]

\* A list of amounts that leaves a surplus in the escrow only if a call does.
Ordinary(d) == PaysContract \/ ~Lists(d, Escrow)

ListsOwner(list, s, o) ==
    /\ Range(list) = {c \in Opened(s) : c.owner = o}
    /\ IsInjective(list)
IndexedStorage(s) == \A o \in Owners : ListsOwner(s.userChannels[o], s, o)

(***************************************************************************)
(* The inductive invariant.  The escrow stays a natural number only        *)
(* because it holds each deposit it pays out, and the sum over the open    *)
(* channels only means something while they are finitely many.  That the   *)
(* escrow holds no more takes that no published list names the contract.   *)
(***************************************************************************)
Sound(s) ==
    /\ s \in Storage
    /\ IsFiniteSet(Opened(s))
    /\ SolventStorage(s)
    /\ IndexedStorage(s)
    /\ \A c \in Opened(s) : s.channels[c].balance = c.amount
    /\ \A c \in Opened(s) : Ordinary(Published(s, c))
-----------------------------------------------------------------------------
LEMMA IdType ==
    ASSUME NEW c \in Id
    PROVE  /\ c.owner \in Owners /\ c.owner \in Address /\ c.owner # Escrow
           /\ c.amount \in Nat /\ c.expiry \in Nat
BY OwnersAssumption, AmountsAssumption DEF Id

LEMMA TotalType ==
    ASSUME NEW d \in Messages
    PROVE  Total(d) \in Nat
<1>1. IsFiniteSet(DOMAIN d)
  BY FS_Interval DEF Messages
<1>2. [i \in DOMAIN d |-> d[i][2]] \in [DOMAIN d -> Nat]
  BY DEF Messages
<1> QED BY <1>1, <1>2, SumType DEF Total

LEMMA ReceivedType ==
    ASSUME NEW d \in Messages, NEW a
    PROVE  Received(d, a) \in Nat
<1> DEFINE S == {j \in DOMAIN d : d[j][1] = a}
<1>1. IsFiniteSet(S)
  <2>1. IsFiniteSet(DOMAIN d) /\ S \subseteq DOMAIN d
    BY FS_Interval DEF Messages
  <2> QED BY <2>1, FS_Subset
<1>2. [i \in S |-> d[i][2]] \in [S -> Nat]
  BY DEF Messages
<1> QED BY <1>1, <1>2, SumType DEF Received

\* An address that is not listed receives nothing.
LEMMA NotListed ==
    ASSUME NEW d, NEW a, ~Lists(d, a)
    PROVE  Received(d, a) = 0
<1> DEFINE f == [i \in {j \in DOMAIN d : d[j][1] = a} |-> d[i][2]]
<1>1. DOMAIN f = {} /\ f = [i \in DOMAIN f |-> f[i]]
  BY DEF Lists
<1> HIDE DEF f
<1>2. SumFunction(f) = 0
  BY <1>1, SumEmpty
<1> QED BY <1>2 DEF Received, f

\* Whom a published list names depends on the recipients alone.
LEMMA PublishedLists ==
    ASSUME NEW s, NEW c, NEW a
    PROVE  Lists(Published(s, c), a) <=>
            \E i \in DOMAIN s.channels[c].recipients : s.channels[c].recipients[i] = a
BY DEF Lists, Published

LEMMA SameOrdinary ==
    ASSUME NEW s, NEW t, NEW c, t.channels[c].recipients = s.channels[c].recipients,
           Ordinary(Published(s, c))
    PROVE  Ordinary(Published(t, c))
BY PublishedLists DEF Ordinary

LEMMA OpenType ==
    ASSUME NEW s, s \in Storage, NEW c \in Opened(s)
    PROVE  c \in Id /\ s.channels[c] \in Channel
BY DEF Opened, IsOpen, Storage

LEMMA PublishedType ==
    ASSUME NEW s, s \in Storage, NEW c \in Opened(s)
    PROVE  Published(s, c) \in Messages
<1>1. s.channels[c].recipients \in Seq(Address) /\ c \in Id
  BY OpenType DEF Channel
<1>2. s.balances[c] \in [Address -> Nat]
  BY <1>1 DEF Storage
<1> DEFINE list == s.channels[c].recipients
<1>3. Published(s, c) = [i \in 1 .. Len(list) |-> <<list[i], s.balances[c][list[i]]>>]
  BY <1>1 DEF Published
<1>4. \A i \in 1 .. Len(list) : list[i] \in Address
  BY <1>1
<1> HIDE DEF list
<1>5. list \in Seq(Address)
  BY <1>1 DEF list
<1>6. \A i \in 1 .. Len(list) : <<list[i], s.balances[c][list[i]]>> \in Address \X Nat
  BY <1>2, <1>4
<1> QED BY <1>3, <1>5, <1>6 DEF Messages

LEMMA SwapPopRemoves ==
    ASSUME NEW list \in Seq(Id), NEW k \in DOMAIN list, NEW c, list[k] = c,
           IsInjective(list)
    PROVE  /\ SwapPop(list, c) \in Seq(Id)
           /\ Range(SwapPop(list, c)) = Range(list) \ {c}
           /\ IsInjective(SwapPop(list, c))
<1> DEFINE n == Len(list)
           moved == [list EXCEPT ![k] = list[n]]
           r == SwapPop(list, c)
<1>1. n \in Nat /\ n > 0 /\ DOMAIN list = 1 .. n /\ k \in 1 .. n
  OBVIOUS
<1>2. (CHOOSE i \in DOMAIN list : list[i] = c /\
            \A j \in DOMAIN list : list[j] = c => i <= j) = k
  <2>1. \A j \in DOMAIN list : list[j] = c => k <= j
    BY <1>1 DEF IsInjective
  <2> QED BY <2>1
<1>3. r = SubSeq(moved, 1, n - 1)
  BY <1>2 DEF SwapPop
<1>4. moved \in Seq(Id) /\ Len(moved) = n
  BY <1>1
<1>5. r \in Seq(Id) /\ Len(r) = n - 1 /\ DOMAIN r = 1 .. n - 1
      /\ \A j \in 1 .. n - 1 : r[j] = moved[j]
  <2> HIDE DEF moved, r, n
  <2> QED BY <1>1, <1>3, <1>4
<1> HIDE DEF r, n
<1>6. \A j \in 1 .. n - 1 : r[j] = IF j = k THEN list[n] ELSE list[j]
  BY <1>1, <1>5
<1>7. Range(r) = Range(list) \ {c}
  <2>1. ASSUME NEW i \in 1 .. n - 1
        PROVE  r[i] # c /\ \E j \in 1 .. n : r[i] = list[j]
    BY <1>1, <1>6 DEF IsInjective
  <2>2. ASSUME NEW j \in 1 .. n, list[j] # c
        PROVE  \E i \in 1 .. n - 1 : r[i] = list[j]
    <3>1. CASE j = n
      <4>1. k \in 1 .. n - 1 /\ r[k] = list[n]
        BY <1>1, <1>6, <2>2, <3>1
      <4> QED BY <3>1, <4>1
    <3>2. CASE j # n
      BY <1>1, <1>6, <2>2, <3>2
    <3> QED BY <3>1, <3>2
  <2> QED BY <1>1, <1>5, <2>1, <2>2 DEF Range
<1>8. ASSUME NEW i \in 1 .. n - 1, NEW j \in 1 .. n - 1, r[i] = r[j]
      PROVE  i = j
  BY <1>1, <1>6, <1>8 DEF IsInjective
<1>9. IsInjective(r)
  BY <1>5, <1>8 DEF IsInjective
<1> HIDE DEF moved
<1> QED BY <1>5, <1>7, <1>9 DEF r
-----------------------------------------------------------------------------
(***************************************************************************)
(* Closing pays out the deposit of one channel and forgets that channel.   *)
(***************************************************************************)
LEMMA DistributedParts ==
    ASSUME NEW s, s \in Storage, NEW c \in Id, NEW d
    PROVE  /\ Distributed(s, c, d) =
                [channels |-> [s.channels EXCEPT ![c] = None],
                 balances |-> s.balances,
                 userChannels |-> [s.userChannels EXCEPT
                    ![c.owner] = SwapPop(s.userChannels[c.owner], c)],
                 token |-> Transferred(s, c, d),
                 allowance |-> s.allowance]
           /\ Distributed(s, c, d).token = Transferred(s, c, d)
           /\ Distributed(s, c, d).channels = [s.channels EXCEPT ![c] = None]
           /\ Distributed(s, c, d).userChannels = [s.userChannels EXCEPT
                    ![c.owner] = SwapPop(s.userChannels[c.owner], c)]
           /\ Distributed(s, c, d).balances = s.balances
<1> DEFINE channels == [s.channels EXCEPT ![c] = None]
           lists == [s.userChannels EXCEPT
                        ![c.owner] = SwapPop(s.userChannels[c.owner], c)]
           token == Transferred(s, c, d)
<1>1. Distributed(s, c, d) =
        [s EXCEPT !.token = token, !.userChannels = lists, !.channels = channels]
  BY DEF Storage, Distributed
<1>2. s = [channels |-> s.channels, balances |-> s.balances,
           userChannels |-> s.userChannels, token |-> s.token,
           allowance |-> s.allowance]
  BY DEF Storage
<1> HIDE DEF channels, lists, token
<1>3. Distributed(s, c, d) =
        [channels |-> channels, balances |-> s.balances, userChannels |-> lists,
         token |-> token, allowance |-> s.allowance]
  BY <1>1, <1>2
<1> QED BY <1>3 DEF channels, lists, token

LEMMA DistributedToken ==
    ASSUME NEW s, s \in Storage, NEW c \in Id, NEW d
    PROVE  /\ Distributed(s, c, d).token = Transferred(s, c, d)
           /\ Distributed(s, c, d).balances = s.balances
BY DEF Storage, Distributed

LEMMA DistributedOpened ==
    ASSUME NEW s, s \in Storage, NEW c \in Opened(s), NEW d
    PROVE  /\ Opened(Distributed(s, c, d)) = Opened(s) \ {c}
           /\ \A e \in Opened(s) \ {c} :
                Distributed(s, c, d).channels[e] = s.channels[e]
<1>1. c \in Id
  BY OpenType
<1>2. Distributed(s, c, d).channels = [s.channels EXCEPT ![c] = None]
  BY <1>1, DistributedParts
<1>3. DOMAIN s.channels = Id
  BY DEF Storage
<1> DEFINE t == Distributed(s, c, d)
<1> HIDE DEF t
<1>4. t.channels = [s.channels EXCEPT ![c] = None]
  BY <1>2 DEF t
<1>5. Opened(t) = Opened(s) \ {c}
  BY <1>1, <1>3, <1>4 DEF Opened, IsOpen
<1>6. \A e \in Opened(s) \ {c} : t.channels[e] = s.channels[e]
  BY <1>1, <1>3, <1>4 DEF Opened
<1> QED BY <1>5, <1>6 DEF t

LEMMA EscrowedDeposit ==
    ASSUME NEW s, Sound(s), NEW c \in Opened(s)
    PROVE  /\ SumFunction([e \in Opened(s) \ {c} |-> s.channels[e].balance]) \in Nat
           /\ Deposits(s) = s.channels[c].balance
                + SumFunction([e \in Opened(s) \ {c} |-> s.channels[e].balance])
<1> DEFINE f == [e \in Opened(s) |-> s.channels[e].balance]
           h == [e \in Opened(s) \ {c} |-> f[e]]
<1>1. s \in Storage /\ IsFiniteSet(Opened(s)) /\ Deposits(s) = SumFunction(f)
  BY DEF Sound, Deposits
<1>2. \A e \in Opened(s) : s.channels[e].balance \in Nat
  BY <1>1, OpenType DEF Channel
<1>3. f \in [Opened(s) -> Nat]
  BY <1>2
<1>4. h \in [Opened(s) \ {c} -> Nat] /\ IsFiniteSet(Opened(s) \ {c})
  BY <1>1, <1>2, FS_Subset
<1>5. h = [e \in Opened(s) \ {c} |-> s.channels[e].balance] /\ f[c] = s.channels[c].balance
  OBVIOUS
<1> HIDE DEF f
<1>6. SumFunction(f) = f[c] + SumFunction(h)
  BY <1>1, <1>3, SumRemove
<1> HIDE DEF h
<1>7. SumFunction(h) \in Nat
  BY <1>4, SumType
<1> QED BY <1>1, <1>5, <1>6, <1>7

LEMMA TransferredType ==
    ASSUME NEW s, Sound(s), NEW c \in Opened(s), NEW d \in Messages,
           Distributable(s, c, d)
    PROVE  /\ Transferred(s, c, d) \in [Address -> Nat]
           /\ Transferred(s, c, d)[Escrow]
                = s.token[Escrow] + Received(d, Escrow) - s.channels[c].balance
           /\ \A a \in Address \ {Escrow} :
                /\ Transferred(s, c, d)[a] = s.token[a] + Received(d, a) +
                    (IF a = c.owner THEN s.channels[c].balance - Total(d) ELSE 0)
                /\ Transferred(s, c, d)[a] - s.token[a] >= Received(d, a)
<1> DEFINE bal == s.channels[c].balance
           rest == bal - Total(d)
<1>1. s \in Storage /\ s.token \in [Address -> Nat]
  BY DEF Sound, Storage
<1>2. bal \in Nat /\ Total(d) \in Nat /\ Total(d) <= bal
  BY <1>1, OpenType, TotalType DEF Channel, Distributable
<1>3. rest \in Nat /\ Total(d) + rest = bal
  BY <1>2
<1>4. Escrow \in Address /\ c.owner # Escrow
  BY <1>1, OpenType, IdType, OwnersAssumption
<1>5. \A a \in Address : s.token[a] \in Nat /\ Received(d, a) \in Nat
  BY <1>1, ReceivedType
<1>6. s.token[Escrow] >= bal
  <2> DEFINE others == SumFunction([e \in Opened(s) \ {c} |-> s.channels[e].balance])
  <2>1. others \in Nat /\ Deposits(s) = bal + others /\ Deposits(s) <= s.token[Escrow]
    BY EscrowedDeposit DEF Sound, SolventStorage
  <2> HIDE DEF others, bal
  <2> QED BY <1>2, <1>4, <1>5, <2>1
<1>7. Transferred(s, c, d) =
        [a \in Address |->
            s.token[a] + Received(d, a) + (IF a = c.owner THEN rest ELSE 0)
                - (IF a = Escrow THEN Total(d) + rest ELSE 0)]
  BY <1>1 DEF Transferred
<1> HIDE DEF rest, bal
<1>8. /\ Transferred(s, c, d)[Escrow] = s.token[Escrow] + Received(d, Escrow) - bal
      /\ Transferred(s, c, d)[Escrow] \in Nat
  <2>1. Transferred(s, c, d)[Escrow] = s.token[Escrow] + Received(d, Escrow) + 0 - bal
    BY <1>3, <1>4, <1>7
  <2>2. s.token[Escrow] \in Nat /\ Received(d, Escrow) \in Nat
    BY <1>4, <1>5
  <2> QED BY <1>2, <1>6, <2>1, <2>2
<1>9. ASSUME NEW a \in Address \ {Escrow}
      PROVE  /\ Transferred(s, c, d)[a] \in Nat
             /\ Transferred(s, c, d)[a] =
                    s.token[a] + Received(d, a) + (IF a = c.owner THEN rest ELSE 0)
             /\ Transferred(s, c, d)[a] - s.token[a] >= Received(d, a)
  <2>1. Transferred(s, c, d)[a] =
            s.token[a] + Received(d, a) + (IF a = c.owner THEN rest ELSE 0) - 0
    BY <1>7
  <2>2. s.token[a] \in Nat /\ Received(d, a) \in Nat
    BY <1>5
  <2> QED BY <2>1, <2>2, <1>3
<1>10. Transferred(s, c, d) \in [Address -> Nat]
  BY <1>7, <1>8, <1>9
<1> QED BY <1>8, <1>9, <1>10 DEF bal, rest

LEMMA DistributedSound ==
    ASSUME NEW s, Sound(s), NEW c \in Opened(s), NEW d \in Messages,
           Distributable(s, c, d), Ordinary(d)
    PROVE  Sound(Distributed(s, c, d))
<1> DEFINE t == Distributed(s, c, d)
           list == s.userChannels[c.owner]
<1>1. s \in Storage /\ c \in Id /\ c.owner \in Owners
  BY OpenType, IdType DEF Sound
<1>2. /\ t = [channels |-> [s.channels EXCEPT ![c] = None],
              balances |-> s.balances,
              userChannels |-> [s.userChannels EXCEPT ![c.owner] = SwapPop(list, c)],
              token |-> Transferred(s, c, d),
              allowance |-> s.allowance]
      /\ t.token = Transferred(s, c, d)
      /\ t.channels = [s.channels EXCEPT ![c] = None]
      /\ t.userChannels = [s.userChannels EXCEPT ![c.owner] = SwapPop(list, c)]
  BY <1>1, DistributedParts
<1>3. /\ Opened(t) = Opened(s) \ {c}
      /\ \A e \in Opened(s) \ {c} : t.channels[e] = s.channels[e]
  BY <1>1, DistributedOpened
<1>4. /\ s.userChannels \in [Owners -> Seq(Id)] /\ list \in Seq(Id)
      /\ s.channels \in [Id -> Channel \cup {None}]
  BY <1>1 DEF Storage
<1> HIDE DEF t
<1>5. \E k \in DOMAIN list : list[k] = c
  <2>1. ListsOwner(list, s, c.owner)
    BY <1>1 DEF Sound, IndexedStorage
  <2> QED BY <1>1, <2>1 DEF ListsOwner, Range
<1>6. /\ SwapPop(list, c) \in Seq(Id)
      /\ ListsOwner(SwapPop(list, c), t, c.owner)
  <2>1. PICK k \in DOMAIN list : list[k] = c
    BY <1>5
  <2>2. ListsOwner(list, s, c.owner)
    BY <1>1 DEF Sound, IndexedStorage
  <2> HIDE DEF list
  <2>3. /\ SwapPop(list, c) \in Seq(Id)
        /\ Range(SwapPop(list, c)) = Range(list) \ {c}
        /\ IsInjective(SwapPop(list, c))
    BY <1>4, <2>1, <2>2, SwapPopRemoves DEF ListsOwner
  <2> QED BY <1>3, <2>2, <2>3 DEF ListsOwner
<1>7. t \in Storage
  <2>1. Transferred(s, c, d) \in [Address -> Nat]
    BY TransferredType
  <2> HIDE DEF list
  <2> QED BY <1>1, <1>2, <1>4, <1>6, <2>1 DEF Storage
<1>8. IsFiniteSet(Opened(t))
  BY <1>3, FS_Subset DEF Sound
<1>9. SolventStorage(t)
  <2> DEFINE rest == SumFunction([e \in Opened(s) \ {c} |-> s.channels[e].balance])
             held == s.token[Escrow]
             left == t.token[Escrow]
             kept == Received(d, Escrow)
             bal == s.channels[c].balance
  <2>1. left = held + kept - bal
    BY <1>2, TransferredType
  <2>2. rest \in Nat /\ Deposits(s) = bal + rest
    BY EscrowedDeposit
  <2>3. [e \in Opened(t) |-> t.channels[e].balance]
          = [e \in Opened(s) \ {c} |-> s.channels[e].balance]
    BY <1>3
  <2>4. Deposits(t) = rest
    BY <2>3 DEF Deposits
  <2>5. bal \in Nat /\ kept \in Nat /\ held \in Nat
    BY <1>1, OpenType, ReceivedType, OwnersAssumption DEF Channel, Storage
  <2>6. Deposits(s) <= held /\ (~PaysContract => Deposits(s) = held /\ kept = 0)
    BY NotListed DEF Sound, SolventStorage, Ordinary
  <2> HIDE DEF rest, held, left, kept, bal
  <2>7. rest <= left /\ (~PaysContract => rest = left)
    BY <2>1, <2>2, <2>5, <2>6
  <2> QED BY <2>4, <2>7 DEF SolventStorage, left
<1>10. IndexedStorage(t)
  <2> SUFFICES ASSUME NEW o \in Owners PROVE ListsOwner(t.userChannels[o], t, o)
    BY DEF IndexedStorage
  <2>1. CASE o = c.owner
    BY <1>1, <1>2, <1>4, <1>6, <2>1
  <2>2. CASE o # c.owner
    <3>1. t.userChannels[o] = s.userChannels[o] /\ ListsOwner(s.userChannels[o], s, o)
      BY <1>2, <1>4, <2>2 DEF Sound, IndexedStorage
    <3>2. {e \in Opened(t) : e.owner = o} = {e \in Opened(s) : e.owner = o}
      BY <1>3, <2>2
    <3> QED BY <3>1, <3>2 DEF ListsOwner
  <2> QED BY <2>1, <2>2
<1>11. \A e \in Opened(t) : t.channels[e].balance = e.amount
  BY <1>3 DEF Sound
<1>12. \A e \in Opened(t) : Ordinary(Published(t, e))
  BY <1>3, SameOrdinary DEF Sound
<1> QED BY <1>7, <1>8, <1>9, <1>10, <1>11, <1>12 DEF Sound, t
-----------------------------------------------------------------------------
\* Opening escrows the deposit of one more channel.
LEMMA FundedSound ==
    ASSUME NEW s, Sound(s), NEW c \in Id, ~IsOpen(s, c),
           c.amount <= s.allowance[c.owner], c.amount <= s.token[c.owner],
           NEW t, t = [s EXCEPT
                !.allowance[c.owner] = @ - c.amount,
                !.token[c.owner] = @ - c.amount,
                !.token[Escrow] = @ + c.amount,
                !.channels[c] = [balance |-> c.amount, seq |-> 0, recipients |-> <<>>],
                !.userChannels[c.owner] = Append(@, c)]
    PROVE  Sound(t)
<1> DEFINE new == [balance |-> c.amount, seq |-> 0, recipients |-> <<>>]
           list == s.userChannels[c.owner]
           channels == [s.channels EXCEPT ![c] = new]
           lists == [s.userChannels EXCEPT ![c.owner] = Append(list, c)]
           token == [s.token EXCEPT ![c.owner] = s.token[c.owner] - c.amount,
                                    ![Escrow] = s.token[Escrow] + c.amount]
           allowance == [s.allowance EXCEPT ![c.owner] = @ - c.amount]
<1>1. s \in Storage
  BY DEF Sound
<1>2. /\ c.owner \in Owners /\ c.owner \in Address /\ c.owner # Escrow
      /\ c.amount \in Nat /\ Escrow \in Address
  BY IdType, OwnersAssumption
<1>3. /\ s.channels \in [Id -> Channel \cup {None}]
      /\ s.balances \in [Id -> [Address -> Nat]]
      /\ s.userChannels \in [Owners -> Seq(Id)]
      /\ s.token \in [Address -> Nat]
      /\ s.allowance \in [Owners -> Nat]
  BY <1>1 DEF Storage
<1>4. t = [channels |-> channels, balances |-> s.balances, userChannels |-> lists,
           token |-> token, allowance |-> allowance]
  <2>1. t = [s EXCEPT !.allowance = allowance, !.token = token,
                      !.channels = channels, !.userChannels = lists]
    BY <1>1, <1>2 DEF Storage
  <2>2. s = [channels |-> s.channels, balances |-> s.balances,
             userChannels |-> s.userChannels, token |-> s.token,
             allowance |-> s.allowance]
    BY <1>1 DEF Storage
  <2> HIDE DEF channels, lists, token, allowance
  <2> QED BY <2>1, <2>2
<1>5. new \in Channel
  BY <1>2 DEF Channel
<1>6. /\ Opened(t) = Opened(s) \cup {c} /\ c \notin Opened(s)
      /\ t.channels[c] = new
      /\ \A e \in Opened(s) : t.channels[e] = s.channels[e]
  <2>1. new # None
    BY <1>5, NoneAssumption
  <2>2. c \notin Opened(s)
    BY DEF Opened
  <2>3. t.channels = channels
    BY <1>4
  <2> HIDE DEF new
  <2>4. t.channels[c] = new
    BY <1>3, <2>3
  <2>5. \A e \in Id : e # c => t.channels[e] = s.channels[e]
    BY <1>3, <2>3
  <2> QED BY <2>1, <2>2, <2>4, <2>5 DEF Opened, IsOpen
<1>7. t \in Storage
  <2>1. channels \in [Id -> Channel \cup {None}]
    BY <1>3, <1>5
  <2>2. lists \in [Owners -> Seq(Id)]
    BY <1>2, <1>3
  <2>3. token \in [Address -> Nat]
    <3> DEFINE less == s.token[c.owner] - c.amount
               more == s.token[Escrow] + c.amount
    <3>1. s.token \in [Address -> Nat] /\ less \in Nat /\ more \in Nat
      BY <1>2, <1>3
    <3> HIDE DEF less, more
    <3>2. [s.token EXCEPT ![c.owner] = less, ![Escrow] = more] \in [Address -> Nat]
      BY <3>1
    <3> QED BY <3>2 DEF less, more
  <2>4. allowance \in [Owners -> Nat]
    BY <1>2, <1>3
  <2> HIDE DEF channels, lists, token, allowance
  <2> QED BY <1>3, <1>4, <2>1, <2>2, <2>3, <2>4 DEF Storage
<1>8. IsFiniteSet(Opened(t))
  BY <1>6, FS_AddElement DEF Sound
<1>9. SolventStorage(t)
  <2> DEFINE f == [e \in Opened(s) |-> s.channels[e].balance]
             h == [e \in Opened(t) |-> t.channels[e].balance]
  <2>1. /\ SumFunction(f) \in Nat /\ Deposits(s) = SumFunction(f)
        /\ s.token[Escrow] \in Nat
    <3>1. f \in [Opened(s) -> Nat]
      <4>1. \A e \in Opened(s) : s.channels[e].balance \in Nat
        BY <1>1, OpenType DEF Channel
      <4> QED BY <4>1
    <3>2. Deposits(s) = SumFunction(f) /\ IsFiniteSet(Opened(s))
      BY DEF Deposits, Sound
    <3> HIDE DEF f
    <3>3. SumFunction(f) \in Nat
      BY <3>1, <3>2, SumType
    <3> QED BY <1>2, <1>3, <3>2, <3>3
  <2>2. h \in [Opened(t) -> Nat]
    <3>1. \A e \in Opened(t) : t.channels[e].balance \in Nat
      BY <1>7, OpenType DEF Channel
    <3> QED BY <3>1
  <2>3. [e \in Opened(t) \ {c} |-> h[e]] = f
    BY <1>6
  <2>4. h[c] = c.amount
    BY <1>6
  <2> HIDE DEF h, f
  <2>5. SumFunction(h) = h[c] + SumFunction(f)
    <3>1. c \in Opened(t)
      BY <1>6
    <3>2. SumFunction(h) = h[c] + SumFunction([e \in Opened(t) \ {c} |-> h[e]])
      BY <1>8, <2>2, <3>1, SumRemove
    <3> QED BY <2>3, <3>2
  <2>6. t.token[Escrow] = s.token[Escrow] + c.amount
    BY <1>2, <1>3, <1>4
  <2>7. Deposits(s) <= s.token[Escrow] /\ (~PaysContract => Deposits(s) = s.token[Escrow])
    BY DEF Sound, SolventStorage
  <2>8. /\ SumFunction(h) <= t.token[Escrow]
        /\ ~PaysContract => SumFunction(h) = t.token[Escrow]
    BY <1>2, <2>1, <2>4, <2>5, <2>6, <2>7
  <2>9. SumFunction(h) = Deposits(t)
    BY DEF Deposits, h
  <2> QED BY <2>8, <2>9 DEF SolventStorage
<1>10. IndexedStorage(t)
  <2> SUFFICES ASSUME NEW o \in Owners PROVE ListsOwner(t.userChannels[o], t, o)
    BY DEF IndexedStorage
  <2>1. ListsOwner(s.userChannels[o], s, o)
    BY DEF Sound, IndexedStorage
  <2>2. CASE o = c.owner
    <3> DEFINE longer == Append(list, c)
    <3>1. t.userChannels[o] = longer
      BY <1>2, <1>3, <1>4, <2>2
    <3>2. /\ list \in Seq(Id) /\ DOMAIN longer = 1 .. Len(list) + 1
          /\ \A i \in 1 .. Len(list) : longer[i] = list[i]
          /\ longer[Len(list) + 1] = c
      BY <1>2, <1>3
    <3>3. Range(list) = {e \in Opened(s) : e.owner = o} /\ IsInjective(list)
      BY <2>1, <2>2 DEF ListsOwner
    <3> HIDE DEF longer, list
    <3>4. Len(list) \in Nat /\ DOMAIN list = 1 .. Len(list)
      BY <3>2
    <3>5. \A i \in 1 .. Len(list) : list[i] # c
      BY <1>6, <3>3, <3>4 DEF Range
    <3>6. IsInjective(longer)
      BY <3>2, <3>3, <3>4, <3>5 DEF IsInjective
    <3>7. Range(longer) = Range(list) \cup {c}
      BY <3>2, <3>4 DEF Range
    <3>8. Range(longer) = {e \in Opened(t) : e.owner = o}
      BY <1>6, <2>2, <3>3, <3>7
    <3> QED BY <3>1, <3>6, <3>8 DEF ListsOwner
  <2>3. CASE o # c.owner
    <3>1. t.userChannels[o] = s.userChannels[o]
      BY <1>3, <1>4, <2>3
    <3>2. {e \in Opened(t) : e.owner = o} = {e \in Opened(s) : e.owner = o}
      BY <1>6, <2>3
    <3> QED BY <2>1, <3>1, <3>2 DEF ListsOwner
  <2> QED BY <2>2, <2>3
<1>11. \A e \in Opened(t) : t.channels[e].balance = e.amount
  BY <1>6 DEF Sound
<1>12. ASSUME NEW e \in Opened(t) PROVE Ordinary(Published(t, e))
  <2>1. CASE e = c
    <3>1. DOMAIN t.channels[e].recipients = {}
      BY <1>6, <2>1
    <3> QED BY <3>1, PublishedLists DEF Ordinary
  <2>2. CASE e # c
    BY <1>6, <2>2, SameOrdinary DEF Sound
  <2> QED BY <2>1, <2>2
<1> QED BY <1>7, <1>8, <1>9, <1>10, <1>11, <1>12 DEF Sound
-----------------------------------------------------------------------------
(***************************************************************************)
(* Publishing replaces the list of a channel and the balances of those     *)
(* listed; of an address listed twice, the last amount counts.             *)
(***************************************************************************)
Listed(d, a) == {i \in DOMAIN d : d[i][1] = a}
LastListed(d, a) == CHOOSE i \in Listed(d, a) : \A j \in Listed(d, a) : j <= i
Owed(s, k) ==
    [a \in Address |->
        IF Listed(k.data, a) = {} THEN s.balances[k.chan][a]
        ELSE k.data[LastListed(k.data, a)][2]]
ListedState(s, k) ==
    [balance |-> s.channels[k.chan].balance, seq |-> k.seq,
     recipients |-> [i \in DOMAIN k.data |-> k.data[i][1]]]

LEMMA UpdateType ==
    ASSUME NEW k \in Updates
    PROVE  k.chan \in Id /\ k.seq \in Nat /\ k.data \in Messages
BY DEF Updates, Messages

LEMMA LastListedIsListed ==
    ASSUME NEW d \in Messages, NEW a, Listed(d, a) # {}
    PROVE  LastListed(d, a) \in DOMAIN d /\ d[LastListed(d, a)][1] = a
<1>1. Len(d) \in Nat /\ Listed(d, a) \in SUBSET (1 .. Len(d))
  BY DEF Messages, Listed
<1>2. \E i \in Listed(d, a) : \A j \in Listed(d, a) : j <= i
  BY <1>1, LastIndex
<1>3. LastListed(d, a) \in Listed(d, a)
  BY <1>2 DEF LastListed
<1> QED BY <1>3 DEF Listed

LEMMA UpdatedParts ==
    ASSUME NEW s, s \in Storage, NEW k \in Updates, IsOpen(s, k.chan)
    PROVE  /\ ListedState(s, k) \in Channel /\ Owed(s, k) \in [Address -> Nat]
           /\ Updated(s, k) =
                [channels |-> [s.channels EXCEPT ![k.chan] = ListedState(s, k)],
                 balances |-> [s.balances EXCEPT ![k.chan] = Owed(s, k)],
                 userChannels |-> s.userChannels,
                 token |-> s.token, allowance |-> s.allowance]
<1>1. k.chan \in Id /\ k.seq \in Nat /\ k.data \in Messages
  BY UpdateType
<1>2. s.channels[k.chan] \in Channel
  BY <1>1, OpenType DEF Opened
<1>3. s.balances \in [Id -> [Address -> Nat]] /\ s.channels \in [Id -> Channel \cup {None}]
  BY DEF Storage
<1> DEFINE list == [i \in DOMAIN k.data |-> k.data[i][1]]
<1>4. list \in Seq(Address)
  <2>1. Len(k.data) \in Nat /\ DOMAIN k.data = 1 .. Len(k.data)
    BY <1>1 DEF Messages
  <2>2. \A i \in 1 .. Len(k.data) : k.data[i][1] \in Address
    BY <1>1 DEF Messages
  <2>3. list \in [1 .. Len(k.data) -> Address]
    BY <2>1, <2>2
  <2> HIDE DEF list
  <2> QED BY <2>1, <2>3
<1>5. ListedState(s, k) \in Channel
  BY <1>1, <1>2, <1>4 DEF ListedState, Channel
<1>6. Owed(s, k) \in [Address -> Nat]
  <2> SUFFICES ASSUME NEW a \in Address
               PROVE  (IF Listed(k.data, a) = {} THEN s.balances[k.chan][a]
                       ELSE k.data[LastListed(k.data, a)][2]) \in Nat
    BY DEF Owed
  <2>1. CASE Listed(k.data, a) = {}
    BY <1>1, <1>3, <2>1
  <2>2. CASE Listed(k.data, a) # {}
    <3>1. LastListed(k.data, a) \in DOMAIN k.data
      BY <1>1, <2>2, LastListedIsListed
    <3> QED BY <1>1, <2>2, <3>1 DEF Messages
  <2> QED BY <2>1, <2>2
<1>7. [s.channels[k.chan] EXCEPT !.seq = k.seq, !.recipients = list] = ListedState(s, k)
  <2>1. ASSUME NEW old \in Channel, NEW n \in Nat, NEW l \in Seq(Address)
        PROVE  [old EXCEPT !.seq = n, !.recipients = l]
                 = [balance |-> old.balance, seq |-> n, recipients |-> l]
    <3> DEFINE e == [old EXCEPT !.seq = n, !.recipients = l]
    <3>1. /\ DOMAIN e = {"balance", "seq", "recipients"}
          /\ e = [f \in DOMAIN e |-> e[f]]
          /\ e["balance"] = old.balance /\ e["seq"] = n /\ e["recipients"] = l
      BY DEF Channel
    <3> HIDE DEF e
    <3>2. e = [balance |-> old.balance, seq |-> n, recipients |-> l]
      BY <3>1
    <3> QED BY <3>2 DEF e
  <2> QED BY <1>1, <1>2, <1>4, <2>1 DEF ListedState
<1> DEFINE channels == [s.channels EXCEPT ![k.chan] = ListedState(s, k)]
           balances == [s.balances EXCEPT ![k.chan] = Owed(s, k)]
<1>8. Updated(s, k) = [s EXCEPT !.channels = channels, !.balances = balances]
  <2>1. [s EXCEPT !.channels[k.chan].seq = k.seq, !.channels[k.chan].recipients = list,
                  !.balances[k.chan] = Owed(s, k)]
         = [s EXCEPT !.channels = channels, !.balances = balances]
    BY <1>1, <1>3, <1>7 DEF Storage
  <2> QED BY <2>1 DEF Updated, Owed, Listed, LastListed
<1>9. s = [channels |-> s.channels, balances |-> s.balances,
           userChannels |-> s.userChannels, token |-> s.token,
           allowance |-> s.allowance]
  BY DEF Storage
<1> HIDE DEF channels, balances
<1>10. Updated(s, k) =
        [channels |-> channels, balances |-> balances, userChannels |-> s.userChannels,
         token |-> s.token, allowance |-> s.allowance]
  BY <1>8, <1>9
<1> QED BY <1>5, <1>6, <1>10 DEF channels, balances

LEMMA UpdatedSound ==
    ASSUME NEW s, Sound(s), NEW k \in Updates, IsOpen(s, k.chan), Ordinary(k.data)
    PROVE  /\ Sound(Updated(s, k))
           /\ Opened(Updated(s, k)) = Opened(s)
           /\ Updated(s, k).token = s.token
<1> DEFINE t == Updated(s, k)
<1>1. s \in Storage /\ k.chan \in Id
  BY UpdateType DEF Sound
<1>2. /\ ListedState(s, k) \in Channel /\ Owed(s, k) \in [Address -> Nat]
      /\ t = [channels |-> [s.channels EXCEPT ![k.chan] = ListedState(s, k)],
              balances |-> [s.balances EXCEPT ![k.chan] = Owed(s, k)],
              userChannels |-> s.userChannels,
              token |-> s.token, allowance |-> s.allowance]
  BY <1>1, UpdatedParts
<1> HIDE DEF t
<1>3. t \in Storage
  BY <1>1, <1>2 DEF Storage
<1>4. /\ Opened(t) = Opened(s)
      /\ \A c \in Opened(s) : t.channels[c].balance = s.channels[c].balance
      /\ t.channels[k.chan] = ListedState(s, k)
      /\ \A c \in Opened(s) \ {k.chan} : t.channels[c] = s.channels[c]
  <2>1. ListedState(s, k) # None /\ ListedState(s, k).balance = s.channels[k.chan].balance
    BY <1>2, NoneAssumption DEF ListedState
  <2>2. t.channels = [s.channels EXCEPT ![k.chan] = ListedState(s, k)]
        /\ DOMAIN s.channels = Id
    BY <1>1, <1>2 DEF Storage
  <2>3. t.channels[k.chan] = ListedState(s, k)
        /\ \A c \in Id : c # k.chan => t.channels[c] = s.channels[c]
    BY <1>1, <2>2
  <2> QED BY <1>1, <2>1, <2>3 DEF Opened, IsOpen
<1>5. t.token = s.token /\ t.userChannels = s.userChannels
  BY <1>2
<1>6. [c \in Opened(t) |-> t.channels[c].balance]
        = [c \in Opened(s) |-> s.channels[c].balance]
  BY <1>4
<1>7. SolventStorage(t)
  BY <1>5, <1>6 DEF Sound, SolventStorage, Deposits
<1>8. IndexedStorage(t)
  BY <1>4, <1>5 DEF Sound, IndexedStorage, ListsOwner
<1>9. ASSUME NEW c \in Opened(t) PROVE Ordinary(Published(t, c))
  <2>1. CASE c = k.chan
    <3>1. t.channels[c].recipients = [i \in DOMAIN k.data |-> k.data[i][1]]
      BY <1>4, <2>1 DEF ListedState
    <3>2. Lists(Published(t, c), Escrow) => Lists(k.data, Escrow)
      <4> SUFFICES ASSUME Lists(Published(t, c), Escrow) PROVE Lists(k.data, Escrow)
        OBVIOUS
      <4>1. PICK i \in DOMAIN t.channels[c].recipients :
                t.channels[c].recipients[i] = Escrow
        BY PublishedLists
      <4>2. i \in DOMAIN k.data /\ k.data[i][1] = Escrow
        BY <3>1, <4>1
      <4> QED BY <4>2 DEF Lists
    <3> QED BY <3>2 DEF Ordinary
  <2>2. CASE c # k.chan
    BY <1>4, <2>2, SameOrdinary DEF Sound
  <2> QED BY <2>1, <2>2
<1>10. Sound(t)
  BY <1>3, <1>4, <1>7, <1>8, <1>9 DEF Sound
<1> QED BY <1>4, <1>5, <1>10 DEF t

\* By definition, what a call lists is ordinary.
LEMMA CallOrdinary ==
    ASSUME NEW k \in Calls
    PROVE  Ordinary(k.data)
BY DEF Ordinary, PaysContract

LEMMA ClosedSound ==
    ASSUME NEW s, Sound(s), NEW k \in Updates, Closable(s, k), Ordinary(k.data)
    PROVE  /\ Sound(Closed(s, k)) /\ k.chan \in Opened(s)
           /\ Opened(Closed(s, k)) = Opened(s) \ {k.chan}
<1>1. k.chan \in Opened(s) /\ k.data \in Messages /\ Distributable(s, k.chan, k.data)
  BY UpdateType DEF Closable, Opened
<1>2. Sound(Distributed(s, k.chan, k.data))
  BY <1>1, DistributedSound
<1>3. Opened(Distributed(s, k.chan, k.data)) = Opened(s) \ {k.chan}
  BY <1>1, DistributedOpened DEF Sound
<1> QED BY <1>1, <1>2, <1>3 DEF Closed
-----------------------------------------------------------------------------
ContractInv == Sound(chain) /\ log \in Seq(Id) /\ now \in Nat

LEMMA InitContractInv == Init => ContractInv
<1> SUFFICES ASSUME Init PROVE ContractInv
  OBVIOUS
<1>1. /\ chain.channels = [c \in Id |-> None]
      /\ chain.userChannels = [o \in Owners |-> <<>>]
      /\ chain.token[Escrow] = 0
  BY SupplyAssumption DEF Init
<1>2. chain \in Storage
  BY SupplyAssumption DEF Init, Storage
<1>3. Opened(chain) = {}
  BY <1>1 DEF Opened, IsOpen
<1>4. SolventStorage(chain)
  <2> DEFINE f == [c \in Opened(chain) |-> chain.channels[c].balance]
  <2>1. DOMAIN f = {} /\ f = [c \in DOMAIN f |-> f[c]]
    BY <1>3
  <2>2. SumFunction(f) = 0
    BY <2>1, SumEmpty
  <2> QED BY <1>1, <2>2 DEF SolventStorage, Deposits
<1>5. IndexedStorage(chain)
  BY <1>1, <1>3 DEF IndexedStorage, ListsOwner, Range, IsInjective
<1>6. Sound(chain)
  BY <1>2, <1>3, <1>4, <1>5, FS_EmptySet DEF Sound
<1> QED BY <1>6 DEF Init, ContractInv

LEMMA NextContractInv == ContractInv /\ [Next]_vars => ContractInv'
<1> SUFFICES ASSUME ContractInv, [Next]_vars PROVE ContractInv'
  OBVIOUS
<1>0. Sound(chain) /\ chain \in Storage /\ log \in Seq(Id) /\ now \in Nat
  BY DEF ContractInv, Sound
<1>1. CASE Tick
  BY <1>0, <1>1 DEF Tick, ContractInv
<1>2. ASSUME NEW o \in Owners, NEW amount \in Amounts, Approve(o, amount)
      PROVE  ContractInv'
  <2>1. chain' = [chain EXCEPT !.allowance[o] = amount] /\ amount \in Nat
    BY <1>2, AmountsAssumption DEF Approve
  <2>2. chain' \in Storage
    BY <1>0, <2>1 DEF Storage
  <2>3. /\ chain'.channels = chain.channels /\ chain'.token = chain.token
        /\ chain'.userChannels = chain.userChannels
    BY <1>0, <2>1 DEF Storage
  <2>4. Opened(chain') = Opened(chain)
    BY <2>3 DEF Opened, IsOpen
  <2>5. SolventStorage(chain') /\ IndexedStorage(chain')
    BY <1>0, <2>3, <2>4 DEF Sound, SolventStorage, Deposits, IndexedStorage, ListsOwner
  <2>6. Sound(chain')
    BY <1>0, <2>2, <2>3, <2>4, <2>5, SameOrdinary DEF Sound
  <2> QED BY <1>0, <1>2, <2>6 DEF Approve, ContractInv
<1>3. ASSUME NEW c \in Id, OpenChannel(c)
      PROVE  ContractInv'
  <2>1. Sound(chain')
    BY <1>0, <1>3, FundedSound DEF OpenChannel
  <2> QED BY <1>0, <1>3, <2>1 DEF OpenChannel, ContractInv
<1>4. ASSUME NEW c \in Id, CloseAfterExpiry(c)
      PROVE  ContractInv'
  <2>1. c \in Opened(chain) /\ Distributable(chain, c, Published(chain, c))
    BY <1>4 DEF CloseAfterExpiry, Opened
  <2>2. Published(chain, c) \in Messages /\ Ordinary(Published(chain, c))
    BY <1>0, <2>1, PublishedType DEF Sound
  <2>3. Sound(chain')
    BY <1>0, <1>4, <2>1, <2>2, DistributedSound DEF CloseAfterExpiry
  <2> QED BY <1>0, <1>4, <2>3 DEF CloseAfterExpiry, ContractInv
<1>5. ASSUME NEW k \in Calls, PublishIntermediateState(k)
      PROVE  ContractInv'
  <2>1. Sound(chain')
    BY <1>0, <1>5, CallsAssumption, CallOrdinary, UpdatedSound DEF PublishIntermediateState
  <2> QED BY <1>0, <1>5, <2>1 DEF PublishIntermediateState, ContractInv
<1>6. ASSUME NEW k \in Calls, FinalClose(k)
      PROVE  ContractInv'
  <2>1. Sound(chain')
    BY <1>0, <1>6, CallsAssumption, CallOrdinary, ClosedSound DEF FinalClose
  <2> QED BY <1>0, <1>6, <2>1 DEF FinalClose, ContractInv
<1>7. ASSUME NEW k \in Calls, NEW l \in Calls, FinalCloseBatch(k, l)
      PROVE  ContractInv'
  <2>1. Sound(Closed(chain, k))
    BY <1>0, <1>7, CallsAssumption, CallOrdinary, ClosedSound DEF FinalCloseBatch
  <2>2. Sound(chain')
    BY <1>7, <2>1, CallsAssumption, CallOrdinary, ClosedSound DEF FinalCloseBatch
  <2> QED BY <1>0, <1>7, <2>2 DEF FinalCloseBatch, ContractInv
<1>8. CASE UNCHANGED vars
  BY <1>0, <1>8 DEF vars, ContractInv
<1> QED BY <1>1, <1>2, <1>3, <1>4, <1>5, <1>6, <1>7, <1>8 DEF Next

(***************************************************************************)
(* Type correctness.  For the escrow's token balance this says that no     *)
(* closing pays out more than the contract holds.                          *)
(***************************************************************************)
THEOREM TypeCorrect == Spec => []TypeOK
<1>1. Spec => []ContractInv
  BY InitContractInv, NextContractInv, PTL DEF Spec
<1>2. ContractInv => TypeOK
  BY DEF ContractInv, Sound, TypeOK
<1> QED BY <1>1, <1>2, PTL

(***************************************************************************)
(* The escrow always holds the deposits of the open channels, and no more  *)
(* unless an update names the contract itself as a recipient.              *)
(***************************************************************************)
THEOREM EscrowSolvent == Spec => []Solvent
<1>1. Spec => []ContractInv
  BY InitContractInv, NextContractInv, PTL DEF Spec
<1>2. ContractInv => Solvent
  BY DEF ContractInv, Sound, SolventStorage, Solvent
<1> QED BY <1>1, <1>2, PTL

(***************************************************************************)
(* userChannels lists each open channel of an owner once, and no other.    *)
(***************************************************************************)
THEOREM OwnersIndexed == Spec => []IndexConsistent
<1>1. Spec => []ContractInv
  BY InitContractInv, NextContractInv, PTL DEF Spec
<1>2. ContractInv => IndexConsistent
  BY DEF ContractInv, Sound, IndexedStorage, ListsOwner, Range, IsInjective, IndexConsistent
<1> QED BY <1>1, <1>2, PTL
-----------------------------------------------------------------------------
(***************************************************************************)
(* The strengthening: although balances survive a closing, the balances an *)
(* open channel lists are those of the last update published since it was  *)
(* opened, whose number the channel keeps.                                 *)
(***************************************************************************)
FromUpdate(s, c) ==
    \/ s.channels[c].recipients = <<>>
    \/ \E k \in Calls :
        /\ Cosigned(k) /\ k.chan = c
        /\ k.seq = s.channels[c].seq
        /\ Published(s, c) = k.data
PublishedFromUpdates(s) == \A c \in Opened(s) : FromUpdate(s, c)

LEMMA NothingOwed ==
    ASSUME NEW s, NEW c, s.channels[c].recipients = <<>>
    PROVE  Total(Published(s, c)) = 0 /\ \A a : Received(Published(s, c), a) = 0
<1> DEFINE d == Published(s, c)
<1>1. DOMAIN d = {}
  BY DEF Published
<1> HIDE DEF d
<1>2. Total(d) = 0
  <2> DEFINE f == [i \in DOMAIN d |-> d[i][2]]
  <2>1. DOMAIN f = {} /\ f = [i \in DOMAIN f |-> f[i]]
    BY <1>1
  <2> QED BY <2>1, SumEmpty DEF Total
<1>3. ASSUME NEW a PROVE Received(d, a) = 0
  <2> DEFINE f == [i \in {j \in DOMAIN d : d[j][1] = a} |-> d[i][2]]
  <2>1. DOMAIN f = {} /\ f = [i \in DOMAIN f |-> f[i]]
    BY <1>1
  <2> QED BY <2>1, SumEmpty DEF Received
<1> QED BY <1>2, <1>3 DEF d

LEMMA OwedFits ==
    ASSUME CosignedWithinDeposit, NEW s, Sound(s), NEW c \in Opened(s), FromUpdate(s, c)
    PROVE  Distributable(s, c, Published(s, c)) \/ Lists(Published(s, c), Zero)
<1>1. s.channels[c].balance = c.amount /\ c.amount \in Nat
  BY OpenType, IdType DEF Sound
<1>2. CASE s.channels[c].recipients = <<>>
  BY <1>1, <1>2, NothingOwed DEF Distributable
<1>3. CASE s.channels[c].recipients # <<>>
  BY <1>1, <1>3 DEF FromUpdate, CosignedWithinDeposit, Distributable
<1> QED BY <1>2, <1>3

\* A channel that a step leaves alone keeps what it owes.
LEMMA SamePublished ==
    ASSUME NEW s, NEW t, NEW c, t.channels[c] = s.channels[c], t.balances[c] = s.balances[c]
    PROVE  FromUpdate(s, c) => FromUpdate(t, c)
<1>1. Published(t, c) = Published(s, c)
  BY DEF Published
<1> QED BY <1>1 DEF FromUpdate

LEMMA UpdatedPublished ==
    ASSUME NEW s, Sound(s), PublishedFromUpdates(s), NEW k \in Calls, IsOpen(s, k.chan),
           Cosigned(k), CosignedWithinDeposit
    PROVE  PublishedFromUpdates(Updated(s, k))
<1> DEFINE t == Updated(s, k)
<1>1. s \in Storage /\ k.chan \in Id /\ k.data \in Messages /\ Opened(t) = Opened(s)
  BY CallsAssumption, CallOrdinary, UpdateType, UpdatedSound DEF Sound
<1>2. /\ t.channels = [s.channels EXCEPT ![k.chan] = ListedState(s, k)]
      /\ t.balances = [s.balances EXCEPT ![k.chan] = Owed(s, k)]
      /\ DOMAIN s.channels = Id /\ DOMAIN s.balances = Id
  <2>1. t = [channels |-> [s.channels EXCEPT ![k.chan] = ListedState(s, k)],
             balances |-> [s.balances EXCEPT ![k.chan] = Owed(s, k)],
             userChannels |-> s.userChannels,
             token |-> s.token, allowance |-> s.allowance]
    BY <1>1, CallsAssumption, UpdatedParts
  <2> HIDE DEF t
  <2> QED BY <1>1, <2>1 DEF Storage
<1> HIDE DEF t
<1>3. ASSUME NEW c \in Opened(t), c # k.chan PROVE FromUpdate(t, c)
  <2>1. c \in Id /\ FromUpdate(s, c)
    BY <1>1, OpenType DEF PublishedFromUpdates
  <2>2. t.channels[c] = s.channels[c] /\ t.balances[c] = s.balances[c]
    BY <1>2, <1>3, <2>1
  <2> QED BY <2>1, <2>2, SamePublished
<1>4. FromUpdate(t, k.chan)
  <2>1. t.channels[k.chan] = ListedState(s, k) /\ t.balances[k.chan] = Owed(s, k)
    BY <1>1, <1>2
  <2>2. Published(t, k.chan) =
          [i \in DOMAIN k.data |-> <<k.data[i][1], Owed(s, k)[k.data[i][1]]>>]
    BY <2>1 DEF Published, ListedState
  <2>3. ASSUME NEW i \in DOMAIN k.data
        PROVE  <<k.data[i][1], Owed(s, k)[k.data[i][1]]>> = k.data[i]
    <3> DEFINE a == k.data[i][1]
    <3>1. k.data[i] = <<a, k.data[i][2]>> /\ a \in Address
      BY <1>1 DEF Messages
    <3>2. i \in Listed(k.data, a)
      BY DEF Listed
    <3>3. LastListed(k.data, a) \in DOMAIN k.data /\ k.data[LastListed(k.data, a)][1] = a
      BY <1>1, <3>2, LastListedIsListed
    <3>4. LastListed(k.data, a) = i
      BY <3>3 DEF CosignedWithinDeposit, ListsOnce
    <3>5. Owed(s, k)[a] = k.data[i][2]
      BY <3>1, <3>2, <3>4 DEF Owed
    <3> QED BY <3>1, <3>5
  <2>4. k.data = [i \in DOMAIN k.data |-> k.data[i]]
    BY <1>1 DEF Messages
  <2>5. Published(t, k.chan) = k.data
    BY <2>2, <2>3, <2>4
  <2>6. k.seq = t.channels[k.chan].seq
    BY <2>1 DEF ListedState
  <2> QED BY <2>5, <2>6 DEF FromUpdate
<1> QED BY <1>3, <1>4 DEF PublishedFromUpdates, t

LEMMA DistributedPublished ==
    ASSUME NEW s, Sound(s), PublishedFromUpdates(s), NEW c \in Opened(s), NEW d
    PROVE  PublishedFromUpdates(Distributed(s, c, d))
<1> DEFINE t == Distributed(s, c, d)
<1>1. s \in Storage /\ c \in Id
  BY OpenType DEF Sound
<1>2. /\ Opened(t) = Opened(s) \ {c}
      /\ \A e \in Opened(s) \ {c} : t.channels[e] = s.channels[e]
      /\ t.balances = s.balances
  <2>1. t.balances = s.balances
    BY <1>1, DistributedToken
  <2>2. Opened(t) = Opened(s) \ {c}
        /\ \A e \in Opened(s) \ {c} : t.channels[e] = s.channels[e]
    BY <1>1, DistributedOpened
  <2> QED BY <2>1, <2>2
<1> HIDE DEF t
<1>3. \A e \in Opened(t) : FromUpdate(t, e)
  BY <1>2, SamePublished DEF PublishedFromUpdates
<1> QED BY <1>3 DEF PublishedFromUpdates, t

LEMMA ClosedPublished ==
    ASSUME NEW s, Sound(s), PublishedFromUpdates(s), NEW k \in Calls, Closable(s, k)
    PROVE  PublishedFromUpdates(Closed(s, k))
BY CallsAssumption, CallOrdinary, ClosedSound, DistributedPublished DEF Closed

PublishedInv == ContractInv /\ PublishedFromUpdates(chain)

LEMMA InitPublishedInv == Init => PublishedInv
BY InitContractInv DEF PublishedInv, PublishedFromUpdates, Init, Opened, IsOpen

LEMMA NextPublishedInv ==
    ASSUME CosignedWithinDeposit
    PROVE  PublishedInv /\ [Next]_vars => PublishedInv'
<1> SUFFICES ASSUME PublishedInv, [Next]_vars PROVE PublishedInv'
  OBVIOUS
<1>0. /\ Sound(chain) /\ chain \in Storage /\ PublishedFromUpdates(chain)
      /\ ContractInv'
  BY NextContractInv DEF PublishedInv, ContractInv, Sound
<1> SUFFICES PublishedFromUpdates(chain')
  BY <1>0 DEF PublishedInv
<1>1. CASE Tick
  BY <1>0, <1>1 DEF Tick
<1>2. ASSUME NEW o \in Owners, NEW amount \in Amounts, Approve(o, amount)
      PROVE  PublishedFromUpdates(chain')
  <2>1. chain'.channels = chain.channels /\ chain'.balances = chain.balances
    BY <1>0, <1>2 DEF Approve, Storage
  <2>2. Opened(chain') = Opened(chain)
    BY <2>1 DEF Opened, IsOpen
  <2> QED BY <1>0, <2>1, <2>2, SamePublished DEF PublishedFromUpdates
<1>3. ASSUME NEW c \in Id, OpenChannel(c)
      PROVE  PublishedFromUpdates(chain')
  <2> DEFINE new == [balance |-> c.amount, seq |-> 0, recipients |-> <<>>]
  <2>1. chain'.channels = [chain.channels EXCEPT ![c] = new]
        /\ chain'.balances = chain.balances /\ DOMAIN chain.channels = Id
    BY <1>0, <1>3 DEF OpenChannel, Storage
  <2>2. \A e \in Opened(chain') : e # c =>
            e \in Opened(chain) /\ chain'.channels[e] = chain.channels[e]
    BY <2>1 DEF Opened, IsOpen
  <2>3. ASSUME NEW e \in Opened(chain'), e # c PROVE FromUpdate(chain', e)
    BY <1>0, <2>1, <2>2, <2>3, SamePublished DEF PublishedFromUpdates
  <2>4. chain'.channels[c].recipients = <<>>
    BY <2>1
  <2>5. FromUpdate(chain', c)
    BY <2>4 DEF FromUpdate
  <2> QED BY <2>3, <2>5 DEF PublishedFromUpdates
<1>4. ASSUME NEW c \in Id, CloseAfterExpiry(c)
      PROVE  PublishedFromUpdates(chain')
  <2>1. c \in Opened(chain)
    BY <1>4 DEF CloseAfterExpiry, Opened
  <2> QED BY <1>0, <1>4, <2>1, DistributedPublished DEF CloseAfterExpiry
<1>5. ASSUME NEW k \in Calls, PublishIntermediateState(k)
      PROVE  PublishedFromUpdates(chain')
  BY <1>0, <1>5, UpdatedPublished DEF PublishIntermediateState, Cosigned
<1>6. ASSUME NEW k \in Calls, FinalClose(k)
      PROVE  PublishedFromUpdates(chain')
  BY <1>0, <1>6, ClosedPublished DEF FinalClose
<1>7. ASSUME NEW k \in Calls, NEW l \in Calls, FinalCloseBatch(k, l)
      PROVE  PublishedFromUpdates(chain')
  <2>1. Sound(Closed(chain, k)) /\ PublishedFromUpdates(Closed(chain, k))
    BY <1>0, <1>7, CallsAssumption, CallOrdinary, ClosedSound, ClosedPublished DEF FinalCloseBatch
  <2> QED BY <1>7, <2>1, ClosedPublished DEF FinalCloseBatch
<1>8. CASE UNCHANGED vars
  BY <1>0, <1>8 DEF vars
<1> QED BY <1>1, <1>2, <1>3, <1>4, <1>5, <1>6, <1>7, <1>8 DEF Next

(***************************************************************************)
(* As long as the sequencer co-signs only what the deposit covers, a       *)
(* published state always fits in the balance, whatever was published and  *)
(* re-opened under the channel's id before: closeAfterExpiry reverts only  *)
(* on a published recipient that is address(0).                            *)
(***************************************************************************)
THEOREM ExpiredUnlessZero ==
    ASSUME CosignedWithinDeposit
    PROVE  Spec => []ExpiredClosable
<1>1. Spec => []PublishedInv
  BY InitPublishedInv, NextPublishedInv, PTL DEF Spec
<1>2. PublishedInv => ExpiredClosable
  BY OwedFits DEF PublishedInv, ContractInv, PublishedFromUpdates, ExpiredClosable
<1> QED BY <1>1, <1>2, PTL
-----------------------------------------------------------------------------
\* A closing pays each recipient what its update says, and takes from nobody.
LEMMA DistributedPays ==
    ASSUME NEW s, Sound(s), NEW c \in Opened(s), NEW d \in Messages,
           Distributable(s, c, d), NEW a \in Address \ {Escrow}
    PROVE  /\ Distributed(s, c, d).token[a] \in Nat /\ s.token[a] \in Nat
           /\ Received(d, a) \in Nat
           /\ Distributed(s, c, d).token[a] - s.token[a] >= Received(d, a)
<1>1. s \in Storage /\ c \in Id
  BY OpenType DEF Sound
<1>2. Distributed(s, c, d).token = Transferred(s, c, d)
  BY <1>1, DistributedToken
<1>3. /\ Transferred(s, c, d) \in [Address -> Nat]
      /\ Transferred(s, c, d)[a] - s.token[a] >= Received(d, a)
  BY TransferredType
<1>4. s.token[a] \in Nat /\ Received(d, a) \in Nat
  BY <1>1, ReceivedType DEF Storage
<1> QED BY <1>2, <1>3, <1>4

LEMMA ClosedPays ==
    ASSUME OwnerOnlyAdds, NEW s, Sound(s), PublishedFromUpdates(s),
           NEW k \in Calls, Closable(s, k), NEW a \in Address \ {Escrow}
    PROVE  /\ Closed(s, k).token[a] \in Nat /\ s.token[a] \in Nat
           /\ Closed(s, k).token[a] >= s.token[a]
           /\ Received(Published(s, k.chan), a) \in Nat
           /\ Closed(s, k).token[a] - s.token[a] >= Received(Published(s, k.chan), a)
<1>1. /\ k.chan \in Opened(s) /\ k.data \in Messages /\ s \in Storage
      /\ Distributable(s, k.chan, k.data) /\ SignedByOwner(k)
      /\ k.seq >= s.channels[k.chan].seq
  BY CallsAssumption, CallOrdinary, ClosedSound, UpdateType DEF Closable, Sound
<1>2. /\ Closed(s, k).token[a] \in Nat /\ s.token[a] \in Nat
      /\ Received(k.data, a) \in Nat
      /\ Closed(s, k).token[a] - s.token[a] >= Received(k.data, a)
  BY <1>1, DistributedPays DEF Closed
<1>3. Received(Published(s, k.chan), a) \in Nat
  BY <1>1, PublishedType, ReceivedType
<1>4. Received(Published(s, k.chan), a) <= Received(k.data, a)
  <2>1. CASE s.channels[k.chan].recipients = <<>>
    BY <1>2, <2>1, NothingOwed
  <2>2. CASE s.channels[k.chan].recipients # <<>>
    <3>1. PICK l \in Calls : /\ Cosigned(l) /\ l.chan = k.chan
                             /\ l.seq = s.channels[k.chan].seq
                             /\ Published(s, k.chan) = l.data
      BY <1>1, <2>2 DEF PublishedFromUpdates, FromUpdate
    <3>2. l.seq \in Nat /\ k.seq \in Nat
      BY CallsAssumption, UpdateType
    <3>3. l.seq <= k.seq
      BY <1>1, <3>1, <3>2
    <3> QED BY <1>1, <3>1, <3>3 DEF OwnerOnlyAdds
  <2> QED BY <2>1, <2>2
<1> DEFINE gain == Closed(s, k).token[a]
           was == s.token[a]
           paid == Received(k.data, a)
           owed == Received(Published(s, k.chan), a)
<1>5. gain \in Nat /\ was \in Nat /\ paid \in Nat /\ owed \in Nat
      /\ gain - was >= paid /\ owed <= paid
  BY <1>2, <1>3, <1>4
<1> HIDE DEF gain, was, paid, owed
<1>6. gain >= was /\ gain - was >= owed
  BY <1>5
<1> QED BY <1>5, <1>6 DEF gain, was, paid, owed

LEMMA StepPaysPublished ==
    ASSUME OwnerOnlyAdds, PublishedInv, [Next]_vars,
           NEW c \in Opened(chain), ~IsOpen(chain', c), NEW a \in Address \ {Escrow}
    PROVE  chain'.token[a] - chain.token[a] >= Received(Published(chain, c), a)
<1>0. Sound(chain) /\ chain \in Storage /\ PublishedFromUpdates(chain)
      /\ c \in Id /\ IsOpen(chain, c)
  BY OpenType DEF PublishedInv, ContractInv, Sound, Opened
<1>1. ~Tick /\ ~UNCHANGED vars
  BY <1>0 DEF Tick, vars
<1>2. ASSUME NEW o \in Owners, NEW amount \in Amounts, Approve(o, amount)
      PROVE  FALSE
  BY <1>0, <1>2 DEF Approve, Storage, IsOpen
<1>3. ASSUME NEW e \in Id, OpenChannel(e)
      PROVE  FALSE
  <2> DEFINE new == [balance |-> e.amount, seq |-> 0, recipients |-> <<>>]
  <2>1. chain'.channels = [chain.channels EXCEPT ![e] = new] /\ DOMAIN chain.channels = Id
    BY <1>0, <1>3 DEF OpenChannel, Storage
  <2>2. c # e
    BY <1>0, <1>3 DEF OpenChannel
  <2> QED BY <1>0, <2>1, <2>2 DEF IsOpen
<1>4. ASSUME NEW e \in Id, CloseAfterExpiry(e)
      PROVE  chain'.token[a] - chain.token[a] >= Received(Published(chain, c), a)
  <2>1. /\ e \in Opened(chain) /\ Distributable(chain, e, Published(chain, e))
        /\ chain' = Distributed(chain, e, Published(chain, e))
    BY <1>4 DEF CloseAfterExpiry, Opened
  <2>2. c = e
    BY <1>0, <2>1, DistributedOpened DEF Opened
  <2>3. Published(chain, e) \in Messages
    BY <1>0, <2>1, PublishedType
  <2> QED BY <1>0, <2>1, <2>2, <2>3, DistributedPays
<1>5. ASSUME NEW k \in Calls, PublishIntermediateState(k)
      PROVE  FALSE
  BY <1>0, <1>5, CallsAssumption, CallOrdinary, UpdatedSound DEF PublishIntermediateState, Opened
<1>6. ASSUME NEW k \in Calls, FinalClose(k)
      PROVE  chain'.token[a] - chain.token[a] >= Received(Published(chain, c), a)
  <2>1. Closable(chain, k) /\ chain' = Closed(chain, k)
    BY <1>6 DEF FinalClose
  <2>2. c = k.chan
    BY <1>0, <2>1, CallsAssumption, CallOrdinary, ClosedSound DEF Opened
  <2> QED BY <1>0, <2>1, <2>2, ClosedPays
<1>7. ASSUME NEW k \in Calls, NEW l \in Calls, FinalCloseBatch(k, l)
      PROVE  chain'.token[a] - chain.token[a] >= Received(Published(chain, c), a)
  <2> DEFINE mid == Closed(chain, k)
  <2>1. Closable(chain, k) /\ Closable(mid, l) /\ chain' = Closed(mid, l)
    BY <1>7 DEF FinalCloseBatch
  <2>2. /\ Sound(mid) /\ PublishedFromUpdates(mid)
        /\ k.chan \in Opened(chain) /\ Opened(mid) = Opened(chain) \ {k.chan}
    BY <1>0, <2>1, CallsAssumption, CallOrdinary, ClosedSound, ClosedPublished
  <2>3. /\ l.chan \in Opened(mid)
        /\ Opened(chain') = Opened(mid) \ {l.chan}
    <3> HIDE DEF mid
    <3> QED BY <2>1, <2>2, CallsAssumption, CallOrdinary, ClosedSound
  <2>4. c \in {k.chan, l.chan}
    BY <1>0, <2>2, <2>3 DEF Opened
  <2>5. /\ mid.token[a] \in Nat /\ chain.token[a] \in Nat
        /\ mid.token[a] >= chain.token[a]
        /\ Received(Published(chain, k.chan), a) \in Nat
        /\ mid.token[a] - chain.token[a] >= Received(Published(chain, k.chan), a)
    BY <1>0, <2>1, ClosedPays
  <2>6. /\ chain'.token[a] \in Nat /\ chain'.token[a] >= mid.token[a]
        /\ Received(Published(mid, l.chan), a) \in Nat
        /\ chain'.token[a] - mid.token[a] >= Received(Published(mid, l.chan), a)
    <3> HIDE DEF mid
    <3> QED BY <2>1, <2>2, ClosedPays
  <2>7. Published(mid, l.chan) = Published(chain, l.chan)
    <3>1. mid.channels[l.chan] = chain.channels[l.chan]
      BY <1>0, <2>2, <2>3, DistributedOpened DEF Closed
    <3>2. mid.balances = chain.balances
      <4>1. k.chan \in Id
        BY CallsAssumption, UpdateType
      <4> QED BY <1>0, <4>1, DistributedToken DEF Closed
    <3> HIDE DEF mid
    <3> QED BY <3>1, <3>2 DEF Published
  <2> DEFINE x == chain.token[a]
             y == mid.token[a]
             z == chain'.token[a]
             m == Received(Published(chain, k.chan), a)
             n == Received(Published(chain, l.chan), a)
  <2>8. /\ x \in Nat /\ y \in Nat /\ z \in Nat /\ m \in Nat /\ n \in Nat
        /\ y >= x /\ z >= y /\ y - x >= m /\ z - y >= n
    BY <2>5, <2>6, <2>7
  <2> HIDE DEF x, y, z, m, n
  <2>9. z - x >= m /\ z - x >= n
    BY <2>8
  <2> QED BY <2>4, <2>9 DEF x, z, m, n
<1> QED BY <1>1, <1>2, <1>3, <1>4, <1>5, <1>6, <1>7 DEF Next

(***************************************************************************)
(* If besides the owner never takes back what was co-signed, publishing    *)
(* protects the recipients: every closing, alone or in a batch, pays each  *)
(* of them at least what was published.                                    *)
(***************************************************************************)
THEOREM PublicationIsFloor ==
    ASSUME CosignedWithinDeposit, OwnerOnlyAdds
    PROVE  Spec => PublishedIsFloor
<1>1. Spec => []PublishedInv
  BY InitPublishedInv, NextPublishedInv, PTL DEF Spec
<1>2. PublishedInv /\ [Next]_vars =>
        [\A c \in Opened(chain) : ~IsOpen(chain', c) =>
            \A a \in Address \ {Escrow} :
                chain'.token[a] - chain.token[a] >= Received(Published(chain, c), a)]_vars
  BY StepPaysPublished
<1> QED BY <1>1, <1>2, PTL DEF Spec, PublishedIsFloor
=============================================================================
