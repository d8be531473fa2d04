------------------------ MODULE PaymentSystemProofs ------------------------
(***************************************************************************)
(* What contract and sequencer guarantee together, for every payee, set of *)
(* owners, deposits and expiries, and however many closings are waiting to *)
(* be mined.  Every transaction the system sends carries a receipt, and    *)
(* the lemmas about the contract do the rest.                              *)
(***************************************************************************)
EXTENDS PaymentSystem, PaymentChannelProofs

LEMMA SumSingle ==
    ASSUME NEW x, NEW f \in [{x} -> Nat]
    PROVE  SumFunction(f) = f[x]
<1> DEFINE rest == [y \in {x} \ {x} |-> f[y]]
<1>1. IsFiniteSet({x})
  BY FS_Singleton
<1>2. SumFunction(f) = f[x] + SumFunction(rest)
  BY <1>1, SumRemove
<1>3. SumFunction(rest) = 0
  <2>1. DOMAIN rest = {} /\ rest = [y \in DOMAIN rest |-> rest[y]]
    OBVIOUS
  <2> HIDE DEF rest
  <2> QED BY <2>1, SumEmpty
<1>4. f[x] \in Nat
  OBVIOUS
<1> HIDE DEF rest
<1> QED BY <1>2, <1>3, <1>4

LEMMA AmountSums ==
    ASSUME NEW n \in Nat
    PROVE  /\ Amount(n) \in Messages
           /\ Total(Amount(n)) = n
           /\ Received(Amount(n), Payee) = n
           /\ \A a : a # Payee => Received(Amount(n), a) = 0
           /\ Ordinary(Amount(n)) /\ ~Lists(Amount(n), Zero)
<1> DEFINE d == Amount(n)
<1>1. d \in Messages /\ DOMAIN d = {1} /\ d[1][1] = Payee /\ d[1][2] = n
  BY PayeeAssumption DEF Amount, Messages
<1> HIDE DEF d
<1> DEFINE f == [i \in {1} |-> d[i][2]]
<1>2. f \in [{1} -> Nat] /\ f[1] = n
  BY <1>1
<1>3. SumFunction(f) = n
  <2> HIDE DEF f
  <2> QED BY <1>2, SumSingle
<1>4. Total(d) = n
  BY <1>1, <1>3 DEF Total
<1>5. Received(d, Payee) = n
  <2>1. {j \in DOMAIN d : d[j][1] = Payee} = {1}
    BY <1>1
  <2> QED BY <2>1, <1>3 DEF Received
<1>6. ASSUME NEW a, a # Payee PROVE Received(d, a) = 0
  <2> DEFINE none == [i \in {j \in DOMAIN d : d[j][1] = a} |-> d[i][2]]
  <2>1. DOMAIN none = {} /\ none = [i \in DOMAIN none |-> none[i]]
    BY <1>1, <1>6
  <2> HIDE DEF none
  <2>2. SumFunction(none) = 0
    BY <2>1, SumEmpty
  <2> QED BY <2>2 DEF Received, none
<1>7. Ordinary(d) /\ ~Lists(d, Zero)
  BY <1>1, PayeeAssumption DEF Ordinary, Lists
<1> QED BY <1>1, <1>4, <1>5, <1>6, <1>7 DEF d
-----------------------------------------------------------------------------
(***************************************************************************)
(* The inductive invariant.  A receipt is within the deposit and the       *)
(* lifetime of its channel for ever, since both are part of the id; what   *)
(* an open channel has published is a receipt, although the balances of    *)
(* its former lives are still in the storage.                              *)
(***************************************************************************)
ReceiptsValid ==
    \A k \in receipts :
        /\ k.chan \in Id /\ k.seq \in Nat \ {0} /\ k.ts \in Nat
        /\ k = Receipt(k.chan, [seq |-> k.seq, ts |-> k.ts])
        /\ k.seq <= k.chan.amount /\ k.ts <= k.chan.expiry /\ k.ts <= now

ReplicaReceived ==
    /\ replica \in [Id -> [seq : Nat, ts : Nat] \cup {None}]
    /\ \A c \in Id : replica[c] # None /\ replica[c].seq > 0 =>
            Receipt(c, replica[c]) \in receipts

PublishedReceipt(s, c, R) ==
    \/ s.channels[c].seq = 0 /\ s.channels[c].recipients = <<>>
    \/ /\ s.channels[c].recipients = <<Payee>>
       /\ s.balances[c][Payee] = s.channels[c].seq
       /\ \E k \in R : k.chan = c /\ k.seq = s.channels[c].seq
PublishedReceipts(s, R) ==
    \A c \in Opened(s) : c.amount > 0 /\ PublishedReceipt(s, c, R)

SentReceived == sent \in Seq(receipts) /\ Len(sent) <= MaxSent

SystemInv ==
    /\ ContractInv
    /\ ReceiptsValid
    /\ ReplicaReceived
    /\ PublishedReceipts(chain, receipts)
    /\ SentReceived
    /\ unseeded \subseteq Id /\ due \in [Id -> Nat]

LEMMA ReceiptIsUpdate ==
    ASSUME ReceiptsValid, NEW k \in receipts
    PROVE  /\ k \in Updates /\ k.chan \in Id /\ k.seq \in Nat /\ k.seq > 0 /\ k.ts \in Nat
           /\ k.data = Amount(k.seq) /\ k.data \in Messages
           /\ Ordinary(k.data) /\ ~Lists(k.data, Zero)
           /\ SignedByOwner(k) /\ SignedBySequencer(k)
           /\ k.seq <= k.chan.amount /\ k.ts <= k.chan.expiry /\ k.ts <= now
<1>1. /\ k.chan \in Id /\ k.seq \in Nat \ {0} /\ k.ts \in Nat
      /\ k = Receipt(k.chan, [seq |-> k.seq, ts |-> k.ts])
      /\ k.seq <= k.chan.amount /\ k.ts <= k.chan.expiry /\ k.ts <= now
  BY DEF ReceiptsValid
<1> DEFINE g == Digest(k.chan, k.seq, k.ts, Amount(k.seq))
<1>2. k = [chan |-> k.chan, seq |-> k.seq, ts |-> k.ts, data |-> Amount(k.seq),
           sig |-> g, cosig |-> g]
  BY <1>1 DEF Receipt
<1>3. /\ Amount(k.seq) \in Seq(Address \X Nat)
      /\ Ordinary(Amount(k.seq)) /\ ~Lists(Amount(k.seq), Zero)
  BY <1>1, AmountSums DEF Messages
<1>4. g \in [chan : Id, seq : Nat, ts : Nat, data : Seq(Address \X Nat)]
  BY <1>1, <1>3 DEF Digest
<1> HIDE DEF g
<1>5. k.data = Amount(k.seq) /\ k.sig = g /\ k.cosig = g
  BY <1>2
<1>6. k \in Updates
  BY <1>1, <1>2, <1>3, <1>4 DEF Updates
<1>7. SignedByOwner(k) /\ SignedBySequencer(k)
  BY <1>5 DEF SignedByOwner, SignedBySequencer, g
<1> QED BY <1>1, <1>3, <1>5, <1>6, <1>7 DEF Messages

\* What an open channel has published is the amount its number stands for.
LEMMA PublishedAmount ==
    ASSUME NEW s, s \in Storage, NEW c \in Opened(s), NEW R, PublishedReceipt(s, c, R)
    PROVE  /\ s.channels[c].seq \in Nat
           /\ Published(s, c) \in Messages
           /\ Total(Published(s, c)) = s.channels[c].seq
           /\ Received(Published(s, c), Payee) = s.channels[c].seq
           /\ \A a : a # Payee => Received(Published(s, c), a) = 0
<1>1. s.channels[c].seq \in Nat /\ Published(s, c) \in Messages
  BY OpenType, PublishedType DEF Channel
<1>2. CASE s.channels[c].recipients = <<>>
  BY <1>1, <1>2, NothingOwed DEF PublishedReceipt
<1>3. CASE s.channels[c].recipients = <<Payee>>
  <2>1. s.balances[c][Payee] = s.channels[c].seq
    BY <1>3 DEF PublishedReceipt
  <2> DEFINE n == s.channels[c].seq
  <2>2. Published(s, c) = [i \in {1} |-> <<Payee, n>>]
    BY <1>3, <2>1 DEF Published
  <2> HIDE DEF n
  <2>3. Published(s, c) = Amount(n)
    BY <2>2 DEF Amount
  <2> QED BY <1>1, <2>3, AmountSums DEF n
<1> QED BY <1>2, <1>3 DEF PublishedReceipt

LEMMA ReceiptsGrow ==
    ASSUME NEW s, NEW R, NEW Q, R \subseteq Q, PublishedReceipts(s, R)
    PROVE  PublishedReceipts(s, Q)
BY DEF PublishedReceipts, PublishedReceipt

\* Closing a channel leaves what the others have published.
LEMMA DistributedReceipts ==
    ASSUME NEW s, Sound(s), NEW R, PublishedReceipts(s, R), NEW c \in Opened(s), NEW d
    PROVE  PublishedReceipts(Distributed(s, c, d), R)
<1> DEFINE t == Distributed(s, c, d)
<1>1. s \in Storage /\ c \in Id
  BY OpenType DEF Sound
<1>2. t.balances = s.balances
  BY <1>1, DistributedToken
<1>3. /\ Opened(t) = Opened(s) \ {c}
      /\ \A e \in Opened(s) \ {c} : t.channels[e] = s.channels[e]
  BY <1>1, DistributedOpened
<1> HIDE DEF t
<1> QED BY <1>2, <1>3 DEF PublishedReceipts, PublishedReceipt, t

LEMMA UpdatedReceipts ==
    ASSUME ReceiptsValid, NEW s, Sound(s), PublishedReceipts(s, receipts),
           NEW k \in receipts, IsOpen(s, k.chan)
    PROVE  /\ PublishedReceipts(Updated(s, k), receipts)
           /\ Updated(s, k).channels[k.chan].seq = k.seq
           /\ \A c \in Id \ {k.chan} : /\ Updated(s, k).channels[c] = s.channels[c]
                                      /\ Updated(s, k).balances[c] = s.balances[c]
<1> DEFINE t == Updated(s, k)
<1>1. /\ k \in Updates /\ k.chan \in Id /\ k.seq \in Nat /\ k.data = Amount(k.seq)
      /\ Ordinary(k.data)
  BY ReceiptIsUpdate
<1>2. s \in Storage /\ Opened(t) = Opened(s) /\ k.chan \in Opened(s)
  BY <1>1, UpdatedSound DEF Sound, Opened
<1>3. t = [channels |-> [s.channels EXCEPT ![k.chan] = ListedState(s, k)],
           balances |-> [s.balances EXCEPT ![k.chan] = Owed(s, k)],
           userChannels |-> s.userChannels,
           token |-> s.token, allowance |-> s.allowance]
  BY <1>1, <1>2, UpdatedParts
<1>4. DOMAIN s.channels = Id /\ DOMAIN s.balances = Id
  BY <1>2 DEF Storage
<1> HIDE DEF t
<1>5. /\ t.channels[k.chan] = ListedState(s, k) /\ t.balances[k.chan] = Owed(s, k)
      /\ \A c \in Id \ {k.chan} :
            t.channels[c] = s.channels[c] /\ t.balances[c] = s.balances[c]
  BY <1>1, <1>3, <1>4
<1>6. ListedState(s, k).seq = k.seq /\ ListedState(s, k).recipients = <<Payee>>
  <2>1. [i \in DOMAIN Amount(k.seq) |-> Amount(k.seq)[i][1]] = <<Payee>>
    BY DEF Amount
  <2> QED BY <1>1, <2>1 DEF ListedState
<1>7. Owed(s, k)[Payee] = k.seq
  <2>1. Listed(k.data, Payee) = {1} /\ k.data[1][2] = k.seq
    BY <1>1 DEF Listed, Amount
  <2>2. LastListed(k.data, Payee) = 1
    BY <2>1 DEF LastListed
  <2> QED BY <2>1, <2>2, PayeeAssumption DEF Owed
<1>8. PublishedReceipt(t, k.chan, receipts)
  BY <1>5, <1>6, <1>7 DEF PublishedReceipt
<1>9. ASSUME NEW c \in Opened(t), c # k.chan PROVE PublishedReceipt(t, c, receipts)
  <2>1. c \in Id \ {k.chan} /\ PublishedReceipt(s, c, receipts)
    BY <1>2, <1>9, OpenType DEF PublishedReceipts
  <2> QED BY <1>5, <2>1 DEF PublishedReceipt
<1>10. PublishedReceipts(t, receipts)
  BY <1>2, <1>8, <1>9 DEF PublishedReceipts
<1> QED BY <1>5, <1>6, <1>10 DEF t
-----------------------------------------------------------------------------
LEMMA InitSystemInv == SystemInit => SystemInv
<1> SUFFICES ASSUME SystemInit PROVE SystemInv
  OBVIOUS
<1>1. ContractInv
  BY InitContractInv DEF SystemInit
<1>2. PublishedReceipts(chain, receipts)
  BY DEF SystemInit, Init, PublishedReceipts, Opened, IsOpen
<1>3. ReceiptsValid /\ ReplicaReceived /\ SentReceived
  BY PayeeAssumption DEF SystemInit, ReceiptsValid, ReplicaReceived, SentReceived
<1>4. unseeded \subseteq Id /\ due \in [Id -> Nat]
  BY DEF SystemInit
<1> QED BY <1>1, <1>2, <1>3, <1>4 DEF SystemInv

\* A step that neither settles nor sends leaves the receipts' part alone.
LEMMA SameReceipts ==
    ASSUME SystemInv, UNCHANGED receipts, now' \in Nat, now' >= now
    PROVE  ReceiptsValid'
<1>1. ReceiptsValid /\ now \in Nat
  BY DEF SystemInv, ContractInv
<1> SUFFICES ASSUME NEW k \in receipts PROVE k.ts <= now'
  BY <1>1 DEF ReceiptsValid, Receipt, Amount, Digest
<1>2. k.ts \in Nat /\ k.ts <= now
  BY <1>1, ReceiptIsUpdate
<1> QED BY <1>1, <1>2

LEMMA ClientApprovesInv ==
    ASSUME SystemInv, NEW c \in Id, ClientApproves(c)
    PROVE  SystemInv'
<1>0. Sound(chain) /\ chain \in Storage
  BY DEF SystemInv, ContractInv, Sound
<1>1. c.owner \in Owners /\ c.amount \in Nat
  BY IdType
<1>2. chain' = [chain EXCEPT !.allowance[c.owner] = c.amount] /\ UNCHANGED <<log, now>>
  BY DEF ClientApproves, Approve
<1>3. /\ chain'.channels = chain.channels /\ chain'.token = chain.token
      /\ chain'.userChannels = chain.userChannels /\ chain'.balances = chain.balances
  BY <1>0, <1>2 DEF Storage
<1>4. Opened(chain') = Opened(chain)
  BY <1>3 DEF Opened, IsOpen
<1>5. Sound(chain')
  <2>1. chain' \in Storage
    BY <1>0, <1>1, <1>2 DEF Storage
  <2>2. SolventStorage(chain') /\ IndexedStorage(chain')
    BY <1>0, <1>3, <1>4 DEF Sound, SolventStorage, Deposits, IndexedStorage, ListsOwner
  <2> QED BY <1>0, <1>3, <1>4, <2>1, <2>2, SameOrdinary DEF Sound
<1>6. ContractInv'
  BY <1>2, <1>5 DEF SystemInv, ContractInv
<1>7. PublishedReceipts(chain', receipts')
  BY <1>3, <1>4 DEF ClientApproves, sequencer, SystemInv, PublishedReceipts, PublishedReceipt
<1>8. UNCHANGED <<replica, receipts, sent, unseeded, due, now>>
  BY <1>2 DEF ClientApproves, sequencer
<1>9. ReceiptsValid' /\ ReplicaReceived' /\ SentReceived'
  BY <1>8 DEF SystemInv, ReceiptsValid, ReplicaReceived, SentReceived
<1> QED BY <1>6, <1>7, <1>8, <1>9 DEF SystemInv

LEMMA ClientOpensInv ==
    ASSUME SystemInv, NEW c \in Id, ClientOpens(c)
    PROVE  SystemInv'
<1>0. Sound(chain) /\ chain \in Storage /\ log \in Seq(Id)
  BY DEF SystemInv, ContractInv, Sound
<1> DEFINE new == [balance |-> c.amount, seq |-> 0, recipients |-> <<>>]
<1>1. Sound(chain')
  BY <1>0, FundedSound DEF ClientOpens, OpenChannel
<1>2. ContractInv'
  BY <1>0, <1>1 DEF ClientOpens, OpenChannel, SystemInv, ContractInv
<1>3. chain'.channels = [chain.channels EXCEPT ![c] = new]
      /\ chain'.balances = chain.balances /\ DOMAIN chain.channels = Id
  BY <1>0 DEF ClientOpens, OpenChannel, Storage
<1>4. UNCHANGED <<replica, receipts, sent, now>>
  BY DEF ClientOpens, OpenChannel, sequencer
<1>5. ASSUME NEW e \in Opened(chain')
      PROVE  e.amount > 0 /\ PublishedReceipt(chain', e, receipts')
  <2>1. CASE e = c
    BY <1>3, <2>1 DEF ClientOpens, OpenChannel, PublishedReceipt
  <2>2. CASE e # c
    <3>1. e \in Opened(chain) /\ chain'.channels[e] = chain.channels[e]
      BY <1>3, <2>2 DEF Opened, IsOpen
    <3> QED BY <1>3, <1>4, <3>1 DEF SystemInv, PublishedReceipts, PublishedReceipt
  <2> QED BY <2>1, <2>2
<1>6. PublishedReceipts(chain', receipts')
  BY <1>5 DEF PublishedReceipts
<1>7. ReceiptsValid' /\ ReplicaReceived' /\ SentReceived'
  BY <1>4 DEF SystemInv, ReceiptsValid, ReplicaReceived, SentReceived
<1>8. unseeded' \subseteq Id /\ due' \in [Id -> Nat]
  BY DEF SystemInv, ClientOpens
<1> QED BY <1>2, <1>6, <1>7, <1>8 DEF SystemInv

LEMMA SeedInv ==
    ASSUME SystemInv, NEW c \in Id, Seed(c)
    PROVE  SystemInv'
<1>1. UNCHANGED <<chain, log, now, receipts, sent, due>>
  BY DEF Seed, contract
<1>2. replica' = [replica EXCEPT ![c] = Fresh] /\ unseeded' = unseeded \ {c}
  BY DEF Seed
<1>3. ReplicaReceived'
  <2>1. Fresh \in [seq : Nat, ts : Nat] /\ ~(Fresh.seq > 0)
    BY DEF Fresh
  <2> HIDE DEF Fresh
  <2>2. replica' \in [Id -> [seq : Nat, ts : Nat] \cup {None}]
    BY <1>2, <2>1 DEF SystemInv, ReplicaReceived
  <2>3. ASSUME NEW e \in Id, replica'[e] # None, replica'[e].seq > 0
        PROVE  Receipt(e, replica'[e]) \in receipts
    <3>1. e # c /\ replica'[e] = replica[e]
      BY <1>2, <2>1, <2>3 DEF SystemInv, ReplicaReceived
    <3> QED BY <2>3, <3>1 DEF SystemInv, ReplicaReceived
  <2> QED BY <1>1, <2>2, <2>3 DEF ReplicaReceived
<1>4. ContractInv' /\ ReceiptsValid' /\ SentReceived' /\ PublishedReceipts(chain', receipts')
  BY <1>1 DEF SystemInv, ContractInv, ReceiptsValid, SentReceived
<1> QED BY <1>1, <1>2, <1>3, <1>4 DEF SystemInv

LEMMA SettleInv ==
    ASSUME SystemInv, NEW c \in Id, Settle(c)
    PROVE  SystemInv' /\ receipts \subseteq receipts'
<1>1. UNCHANGED <<chain, log, now, sent, unseeded, due>> /\ replica[c] # None
  BY DEF Settle, contract
<1>2. PICK u \in NextUpdates(c) :
        /\ u.ts <= c.expiry /\ u.seq <= c.amount
        /\ replica' = [replica EXCEPT ![c] = [seq |-> u.seq, ts |-> u.ts]]
        /\ receipts' = receipts \cup {u}
  BY DEF Settle
<1>3. replica[c].seq \in Nat /\ now \in Nat /\ ReceiptsValid
  BY <1>1 DEF SystemInv, ContractInv, ReplicaReceived
<1>4. /\ u.chan = c /\ u.seq \in Nat \ {0} /\ u.ts \in Nat /\ u.ts <= now
      /\ u = Receipt(c, [seq |-> u.seq, ts |-> u.ts])
  <2>1. u.chan = c /\ u.seq = replica[c].seq + 1
    BY DEF NextUpdates
  <2>2. CASE u = Receipt(c, [seq |-> replica[c].seq + 1, ts |-> now])
    <3>1. u.seq = replica[c].seq + 1 /\ u.ts = now
      BY <2>2 DEF Receipt
    <3> QED BY <1>3, <2>1, <2>2, <3>1
  <2>3. CASE u \in receipts
    BY <1>3, <2>1, <2>3 DEF ReceiptsValid
  <2> QED BY <2>2, <2>3 DEF NextUpdates
<1>5. ReceiptsValid'
  <2> SUFFICES ASSUME NEW k \in receipts'
      PROVE  /\ k.chan \in Id /\ k.seq \in Nat \ {0} /\ k.ts \in Nat
             /\ k = Receipt(k.chan, [seq |-> k.seq, ts |-> k.ts])
             /\ k.seq <= k.chan.amount /\ k.ts <= k.chan.expiry /\ k.ts <= now
    BY <1>1 DEF ReceiptsValid, Receipt, Amount, Digest
  <2>1. CASE k = u
    BY <1>2, <1>4, <2>1
  <2>2. CASE k \in receipts
    BY <1>3, <2>2 DEF ReceiptsValid
  <2> QED BY <1>2, <2>1, <2>2
<1>6. ReplicaReceived'
  <2> DEFINE new == [seq |-> u.seq, ts |-> u.ts]
  <2>1. new \in [seq : Nat, ts : Nat] /\ Receipt(c, new) \in receipts'
    BY <1>2, <1>4
  <2> HIDE DEF new
  <2>2. replica' = [replica EXCEPT ![c] = new]
        /\ replica \in [Id -> [seq : Nat, ts : Nat] \cup {None}]
    BY <1>2 DEF SystemInv, ReplicaReceived, new
  <2>3. ASSUME NEW e \in Id, replica'[e] # None, replica'[e].seq > 0
        PROVE  Receipt(e, replica'[e]) \in receipts'
    <3>1. CASE e = c
      BY <2>1, <2>2, <3>1
    <3>2. CASE e # c
      <4>1. replica'[e] = replica[e]
        BY <2>2, <3>2
      <4>2. Receipt(e, replica[e]) \in receipts
        BY <2>3, <4>1 DEF SystemInv, ReplicaReceived
      <4> QED BY <1>2, <4>1, <4>2
    <3> QED BY <3>1, <3>2
  <2>4. replica' \in [Id -> [seq : Nat, ts : Nat] \cup {None}]
    BY <2>1, <2>2
  <2> QED BY <2>3, <2>4 DEF ReplicaReceived, Receipt, Amount, Digest
<1>7. SentReceived' /\ PublishedReceipts(chain', receipts')
  <2>1. receipts \subseteq receipts'
    BY <1>2
  <2>2. PublishedReceipts(chain, receipts')
    BY <2>1, ReceiptsGrow DEF SystemInv
  <2>3. sent \in Seq(receipts') /\ Len(sent) <= MaxSent
    BY <2>1 DEF SystemInv, SentReceived
  <2> QED BY <1>1, <2>2, <2>3 DEF SentReceived
<1> QED BY <1>1, <1>2, <1>5, <1>6, <1>7 DEF SystemInv, ContractInv

LEMMA FinalizeInv ==
    ASSUME SystemInv, NEW c \in Id, Finalize(c)
    PROVE  SystemInv'
<1> DEFINE k == Receipt(c, replica[c])
<1>1. /\ Len(sent) < MaxSent /\ sent' = Append(sent, k)
      /\ due' = [due EXCEPT ![c] = IF @ = 0 THEN replica[c].seq ELSE @]
      /\ UNCHANGED <<chain, log, replica, receipts, unseeded, now>>
  BY DEF Finalize, Send, contract, sequencer
<1>2. k \in receipts /\ replica[c].seq \in Nat
  BY DEF Finalize, SystemInv, ReplicaReceived
<1> HIDE DEF k
<1>3. SentReceived'
  <2>1. sent \in Seq(receipts) /\ MaxSent \in Nat
    BY PayeeAssumption DEF SystemInv, SentReceived
  <2>2. sent' \in Seq(receipts) /\ Len(sent') = Len(sent) + 1 /\ Len(sent) \in Nat
    BY <1>1, <1>2, <2>1
  <2> QED BY <1>1, <2>1, <2>2 DEF SentReceived
<1>4. due' \in [Id -> Nat]
  BY <1>1, <1>2 DEF SystemInv
<1>5. ContractInv' /\ ReceiptsValid' /\ ReplicaReceived'
      /\ PublishedReceipts(chain', receipts')
  BY <1>1 DEF SystemInv, ContractInv, ReceiptsValid, ReplicaReceived
<1> QED BY <1>1, <1>3, <1>4, <1>5 DEF SystemInv

LEMMA SentHead ==
    ASSUME SystemInv, sent # <<>>
    PROVE  /\ Head(sent) = sent[1] /\ Head(sent) \in receipts
           /\ Len(sent) \in Nat /\ Len(sent) > 0 /\ Len(Tail(sent)) = Len(sent) - 1
           /\ Tail(sent) \in Seq(receipts)
           /\ \A i \in DOMAIN Tail(sent) : i + 1 \in DOMAIN sent /\ Tail(sent)[i] = sent[i + 1]
BY DEF SystemInv, SentReceived

LEMMA MineInv ==
    ASSUME SystemInv, Mine
    PROVE  SystemInv'
<1>1. /\ sent # <<>> /\ sent' = Tail(sent)
      /\ chain' = IF Closable(chain, Head(sent)) THEN Closed(chain, Head(sent)) ELSE chain
      /\ UNCHANGED <<log, replica, receipts, unseeded, due, now>>
  BY DEF Mine, sequencer
<1>2. Sound(chain) /\ ReceiptsValid /\ PublishedReceipts(chain, receipts)
  BY DEF SystemInv, ContractInv
<1>3. SentReceived'
  <2>1. Tail(sent) \in Seq(receipts) /\ Len(Tail(sent)) = Len(sent) - 1 /\ Len(sent) \in Nat
    BY <1>1, SentHead
  <2> QED BY <1>1, <2>1, PayeeAssumption DEF SystemInv, SentReceived
<1>4. Sound(chain') /\ PublishedReceipts(chain', receipts)
  <2>1. CASE ~Closable(chain, Head(sent))
    BY <1>1, <1>2, <2>1
  <2>2. CASE Closable(chain, Head(sent))
    <3>1. Head(sent) \in Updates /\ Ordinary(Head(sent).data)
      BY <1>1, <1>2, SentHead, ReceiptIsUpdate
    <3>2. chain' = Closed(chain, Head(sent))
      BY <1>1, <2>2
    <3>3. Sound(Closed(chain, Head(sent))) /\ Head(sent).chan \in Opened(chain)
      BY <1>2, <2>2, <3>1, ClosedSound
    <3> QED BY <1>2, <3>2, <3>3, DistributedReceipts DEF Closed
  <2> QED BY <2>1, <2>2
<1>5. ContractInv' /\ ReceiptsValid' /\ ReplicaReceived'
  BY <1>1, <1>4 DEF SystemInv, ContractInv, ReceiptsValid, ReplicaReceived
<1> QED BY <1>1, <1>3, <1>4, <1>5 DEF SystemInv

LEMMA PublishInv ==
    ASSUME SystemInv, NEW k \in receipts, Publish(k)
    PROVE  SystemInv'
<1>1. /\ IsOpen(chain, k.chan) /\ chain' = Updated(chain, k)
      /\ UNCHANGED <<log, replica, receipts, sent, unseeded, due, now>>
  BY DEF Publish, PublishIntermediateState, OffChain, sequencer
<1>2. Sound(chain) /\ ReceiptsValid /\ PublishedReceipts(chain, receipts)
  BY DEF SystemInv, ContractInv
<1>3. Sound(chain')
  BY <1>1, <1>2, ReceiptIsUpdate, UpdatedSound
<1>4. PublishedReceipts(chain', receipts)
  BY <1>1, <1>2, UpdatedReceipts
<1>5. ContractInv' /\ ReceiptsValid' /\ ReplicaReceived' /\ SentReceived'
  BY <1>1, <1>3 DEF SystemInv, ContractInv, ReceiptsValid, ReplicaReceived, SentReceived
<1> QED BY <1>1, <1>4, <1>5 DEF SystemInv

LEMMA ExpireInv ==
    ASSUME SystemInv, NEW c \in Id, Expire(c)
    PROVE  SystemInv'
<1>1. /\ c \in Opened(chain) /\ Distributable(chain, c, Published(chain, c))
      /\ chain' = Distributed(chain, c, Published(chain, c))
      /\ UNCHANGED <<log, replica, receipts, sent, unseeded, due, now>>
  BY DEF Expire, CloseAfterExpiry, OffChain, sequencer, Opened
<1>2. Sound(chain) /\ PublishedReceipts(chain, receipts)
  BY DEF SystemInv, ContractInv
<1>3. Published(chain, c) \in Messages /\ Ordinary(Published(chain, c))
  BY <1>1, <1>2, PublishedType DEF Sound
<1>4. Sound(chain')
  BY <1>1, <1>2, <1>3, DistributedSound
<1>5. PublishedReceipts(chain', receipts)
  BY <1>1, <1>2, DistributedReceipts
<1>6. ContractInv' /\ ReceiptsValid' /\ ReplicaReceived' /\ SentReceived'
  BY <1>1, <1>4 DEF SystemInv, ContractInv, ReceiptsValid, ReplicaReceived, SentReceived
<1> QED BY <1>1, <1>5, <1>6 DEF SystemInv

LEMMA AdvanceInv ==
    ASSUME SystemInv, Advance
    PROVE  SystemInv'
<1>1. now' = now + 1 /\ UNCHANGED <<chain, log, replica, receipts, sent, unseeded, due>>
  BY DEF Advance, Tick, OffChain, sequencer
<1>2. now \in Nat
  BY DEF SystemInv, ContractInv
<1>3. now' \in Nat /\ now' >= now
  BY <1>1, <1>2
<1>4. ReceiptsValid'
  BY <1>1, <1>3, SameReceipts
<1>5. ContractInv' /\ ReplicaReceived' /\ SentReceived'
      /\ PublishedReceipts(chain', receipts')
  BY <1>1, <1>3 DEF SystemInv, ContractInv, ReplicaReceived, SentReceived
<1> QED BY <1>1, <1>4, <1>5 DEF SystemInv

LEMMA NextSystemInv == SystemInv /\ [SystemNext]_system => SystemInv'
<1> SUFFICES ASSUME SystemInv, [SystemNext]_system PROVE SystemInv'
  OBVIOUS
<1>1. ASSUME NEW c \in Id, Killed(c) PROVE SystemInv'
  <2>1. unseeded' \subseteq unseeded
        /\ UNCHANGED <<chain, log, now, replica, receipts, sent, due>>
    BY <1>1 DEF Killed, contract, sequencer
  <2> QED BY <2>1 DEF SystemInv, ContractInv, ReceiptsValid, ReplicaReceived, SentReceived
<1>2. CASE UNCHANGED system
  <2>1. UNCHANGED <<chain, log, now, replica, receipts, sent, unseeded, due>>
    BY <1>2 DEF system, contract, sequencer
  <2> QED BY <2>1 DEF SystemInv, ContractInv, ReceiptsValid, ReplicaReceived, SentReceived
<1> QED
  BY <1>1, <1>2, AdvanceInv, MineInv, ClientApprovesInv, ClientOpensInv, SeedInv,
     SettleInv, FinalizeInv, ExpireInv, PublishInv DEF SystemNext

LEMMA SystemInvHolds == SystemSpec => []SystemInv
BY InitSystemInv, NextSystemInv, PTL DEF SystemSpec

(***************************************************************************)
(* Type correctness of the whole: besides, every receipt the sequencer     *)
(* gave out and every closing it sent is an update both parties signed.    *)
(***************************************************************************)
THEOREM SystemTypeCorrect == SystemSpec => []SystemTypeOK
<1>1. SystemInv => SystemTypeOK
  <2> SUFFICES ASSUME SystemInv PROVE SystemTypeOK
    OBVIOUS
  <2>1. TypeOK
    BY DEF SystemInv, ContractInv, Sound, TypeOK
  <2>2. \A k \in receipts : k.chan \in Id /\ k = Receipt(k.chan, [seq |-> k.seq, ts |-> k.ts])
    BY DEF SystemInv, ReceiptsValid
  <2>3. (\A i \in DOMAIN sent : sent[i] \in receipts) /\ Len(sent) <= MaxSent
    BY DEF SystemInv, SentReceived
  <2>4. replica \in [Id -> [seq : Nat, ts : Nat] \cup {None}]
    BY DEF SystemInv, ReplicaReceived
  <2> QED BY <2>1, <2>2, <2>3, <2>4 DEF SystemInv, SystemTypeOK
<1> QED BY <1>1, SystemInvHolds, PTL
-----------------------------------------------------------------------------
(***************************************************************************)
(* A receipt stays good: its time has come, its amount is covered, and the *)
(* owner signed it.  Only a newer published state can stop it.             *)
(***************************************************************************)
LEMMA ReceiptCloses ==
    ASSUME SystemInv, NEW k \in receipts, IsOpen(chain, k.chan),
           ~(chain.channels[k.chan].seq > k.seq)
    PROVE  Closable(chain, k)
<1>1. Sound(chain) /\ ReceiptsValid /\ now \in Nat
  BY DEF SystemInv, ContractInv
<1>2. /\ k.chan \in Id /\ k.seq \in Nat /\ k.ts \in Nat /\ k.data = Amount(k.seq)
      /\ SignedByOwner(k) /\ ~Lists(k.data, Zero)
      /\ k.seq <= k.chan.amount /\ k.ts <= k.chan.expiry /\ k.ts <= now
  BY <1>1, ReceiptIsUpdate
<1>3. k.chan \in Opened(chain)
  BY <1>2 DEF Opened
<1>4. chain.channels[k.chan].balance = k.chan.amount /\ chain.channels[k.chan].seq \in Nat
  BY <1>1, <1>3, OpenType DEF Sound, Channel
<1>5. TimestampOk(k.chan, k.ts)
  <2>1. Skew \in Nat
    BY ClockAssumption
  <2> QED BY <1>1, <1>2, <2>1 DEF TimestampOk
<1>6. Distributable(chain, k.chan, k.data)
  <2>1. Total(k.data) = k.seq
    BY <1>2, AmountSums
  <2> QED BY <1>2, <1>4, <2>1 DEF Distributable
<1>7. k.seq >= chain.channels[k.chan].seq
  BY <1>2, <1>4
<1> QED BY <1>2, <1>5, <1>6, <1>7 DEF Closable

\* What mining the first closing does.
LEMMA MineCloses ==
    ASSUME SystemInv, Mine
    PROVE  /\ sent # <<>> /\ sent' = Tail(sent) /\ Head(sent) \in receipts
           /\ \/ /\ Closable(chain, Head(sent)) /\ chain' = Closed(chain, Head(sent))
                 /\ Head(sent).chan \in Opened(chain)
                 /\ Opened(chain') = Opened(chain) \ {Head(sent).chan}
                 /\ \A c \in Opened(chain') : chain'.channels[c] = chain.channels[c]
              \/ ~Closable(chain, Head(sent)) /\ chain' = chain
<1>1. /\ sent # <<>> /\ sent' = Tail(sent)
      /\ chain' = IF Closable(chain, Head(sent)) THEN Closed(chain, Head(sent)) ELSE chain
  BY DEF Mine
<1>2. Head(sent) \in receipts
  BY <1>1, SentHead
<1>3. CASE Closable(chain, Head(sent))
  <2>1. /\ Sound(chain) /\ chain \in Storage
        /\ Head(sent) \in Updates /\ Ordinary(Head(sent).data)
    BY <1>2, ReceiptIsUpdate DEF SystemInv, ContractInv, Sound
  <2>2. /\ Head(sent).chan \in Opened(chain)
        /\ Opened(Closed(chain, Head(sent))) = Opened(chain) \ {Head(sent).chan}
    BY <1>3, <2>1, ClosedSound
  <2>3. \A c \in Opened(chain) \ {Head(sent).chan} :
            Closed(chain, Head(sent)).channels[c] = chain.channels[c]
    BY <2>1, <2>2, DistributedOpened DEF Closed
  <2> QED BY <1>1, <1>2, <1>3, <2>2, <2>3
<1> QED BY <1>1, <1>2, <1>3

\* Only mining takes a closing off the queue.
LEMMA TailIsMine ==
    ASSUME SystemInv, [SystemNext]_system, sent # <<>>, sent' = Tail(sent)
    PROVE  Mine
<1>1. sent \in Seq(receipts) /\ Len(sent') = Len(sent) - 1 /\ Len(sent) \in Nat
  BY SentHead DEF SystemInv, SentReceived
<1>2. sent' # sent
  <2> SUFFICES ASSUME sent' = sent PROVE FALSE
    OBVIOUS
  <2>1. Len(sent') = Len(sent)
    OBVIOUS
  <2> DEFINE m == Len(sent)
             n == Len(sent')
  <2>2. m \in Nat /\ n = m - 1 /\ n = m
    BY <1>1, <2>1
  <2> HIDE DEF m, n
  <2> QED BY <2>2
<1>3. ASSUME NEW c \in Id, Finalize(c) PROVE FALSE
  <2> DEFINE k == Receipt(c, replica[c])
  <2>1. sent' = Append(sent, k) /\ k \in receipts
    BY <1>3 DEF Finalize, Send, SystemInv, ReplicaReceived
  <2> HIDE DEF k
  <2>2. Len(Append(sent, k)) = Len(sent) + 1
    BY <1>1, <2>1
  <2> DEFINE m == Len(sent)
             n == Len(sent')
  <2>3. m \in Nat /\ n = m - 1 /\ n = m + 1
    BY <1>1, <2>1, <2>2
  <2> HIDE DEF m, n
  <2> QED BY <2>3
<1> QED BY <1>2, <1>3 DEF SystemNext, Advance, ClientApproves, ClientOpens, Seed, Killed,
        Settle, Expire, Publish, OffChain, system, sequencer

(***************************************************************************)
(* A closing the sequencer sent takes effect, also after the expiry, unless*)
(* the channel is closed already or has published a newer state.           *)
(***************************************************************************)
THEOREM ClosingsLand == SystemSpec => SentClosingLands
<1>1. SystemInv /\ [SystemNext]_system =>
        [sent # <<>> /\ sent' = Tail(sent) =>
            LET k == Head(sent)
            IN  \/ ~IsOpen(chain', k.chan)
                \/ chain.channels[k.chan].seq > k.seq]_system
  <2> SUFFICES ASSUME SystemInv, [SystemNext]_system, sent # <<>>, sent' = Tail(sent),
                      IsOpen(chain', Head(sent).chan),
                      ~(chain.channels[Head(sent).chan].seq > Head(sent).seq)
               PROVE  FALSE
    OBVIOUS
  <2>1. Mine
    BY TailIsMine
  <2>2. ~Closable(chain, Head(sent)) /\ chain' = chain /\ Head(sent) \in receipts
    BY <2>1, MineCloses DEF Opened
  <2> QED BY <2>2, ReceiptCloses
<1> QED BY <1>1, SystemInvHolds, PTL DEF SystemSpec, SentClosingLands
-----------------------------------------------------------------------------
(***************************************************************************)
(* Why a closing pays what was accepted: the published number reaches what *)
(* is due, or the first waiting closing of the channel does.  For a channel*)
(* opened once no closing of a former life waits.                          *)
(***************************************************************************)
Openings(c) == {i \in DOMAIN log : log[i] = c}
NoneSent(c) == \A i \in DOMAIN sent : sent[i].chan # c
BeforeOpening(c) ==
    Openings(c) = {} =>
        ~IsOpen(chain, c) /\ c \notin unseeded /\ replica[c] = None /\ NoneSent(c)
FirstClosing(c) == OpenedOnce(c) /\ due[c] = 0 => NoneSent(c)
Covers(i, c) ==
    /\ sent[i].chan = c /\ sent[i].seq >= due[c]
    /\ \A j \in DOMAIN sent : j < i => sent[j].chan # c
DueCovered(c) ==
    OpenedOnce(c) /\ IsOpen(chain, c) /\ due[c] > 0 =>
        chain.channels[c].seq >= due[c] \/ \E i \in DOMAIN sent : Covers(i, c)
DueInv == \A c \in Id : BeforeOpening(c) /\ FirstClosing(c) /\ DueCovered(c)

LEMMA InitDueInv == SystemInit => DueInv
BY DEF SystemInit, Init, DueInv, BeforeOpening, FirstClosing, DueCovered, NoneSent, IsOpen

\* A step that sends, mines and opens nothing.
LEMMA SameLife ==
    ASSUME SystemInv, DueInv, SystemInv', NEW c \in Id,
           UNCHANGED <<sent, log, due>>,
           IsOpen(chain', c) =>
                IsOpen(chain, c) /\ chain'.channels[c].seq >= chain.channels[c].seq,
           c \in unseeded' => c \in unseeded \/ IsOpen(chain, c),
           replica'[c] # None => replica[c] # None \/ c \in unseeded \/ IsOpen(chain, c)
    PROVE  BeforeOpening(c)' /\ FirstClosing(c)' /\ DueCovered(c)'
<1>1. BeforeOpening(c) /\ FirstClosing(c) /\ DueCovered(c)
  BY DEF DueInv
<1>2. BeforeOpening(c)' /\ FirstClosing(c)'
  BY <1>1 DEF BeforeOpening, FirstClosing, Openings, NoneSent, OpenedOnce
<1>3. DueCovered(c)'
  <2> SUFFICES ASSUME OpenedOnce(c), IsOpen(chain', c), due[c] > 0
               PROVE  chain'.channels[c].seq >= due[c] \/ \E i \in DOMAIN sent : Covers(i, c)
    BY DEF DueCovered, OpenedOnce, Covers
  <2>1. CASE chain.channels[c].seq >= due[c]
    <3>1. /\ chain.channels[c].seq \in Nat /\ chain'.channels[c].seq \in Nat
          /\ due[c] \in Nat
      BY OpenType DEF SystemInv, ContractInv, Sound, Opened, Channel
    <3> DEFINE x == chain.channels[c].seq
               y == chain'.channels[c].seq
    <3>2. x \in Nat /\ y \in Nat /\ due[c] \in Nat /\ x >= due[c] /\ y >= x
      BY <2>1, <3>1
    <3> HIDE DEF x, y
    <3>3. y >= due[c]
      BY <3>2
    <3> QED BY <3>3 DEF y
  <2> QED BY <1>1, <2>1 DEF DueCovered
<1> QED BY <1>2, <1>3

LEMMA ClientOpensDue ==
    ASSUME SystemInv, DueInv, NEW e \in Id, ClientOpens(e), NEW c \in Id
    PROVE  BeforeOpening(c)' /\ FirstClosing(c)' /\ DueCovered(c)'
<1>1. /\ log' = Append(log, e) /\ unseeded' = unseeded \cup {e}
      /\ due' = [due EXCEPT ![e] = 0] /\ UNCHANGED <<sent, replica>>
  BY DEF ClientOpens, OpenChannel, sequencer
<1>2. log \in Seq(Id) /\ due \in [Id -> Nat] /\ chain \in Storage
  BY DEF SystemInv, ContractInv, Sound
<1>3. BeforeOpening(c) /\ FirstClosing(c) /\ DueCovered(c)
  BY DEF DueInv
<1>4. /\ DOMAIN log' = DOMAIN log \cup {Len(log) + 1} /\ Len(log) + 1 \notin DOMAIN log
      /\ log'[Len(log) + 1] = e /\ \A i \in DOMAIN log : log'[i] = log[i]
  BY <1>1, <1>2
<1>5. CASE c = e
  <2>1. Len(log) + 1 \in Openings(c)'
    BY <1>4, <1>5 DEF Openings
  <2>2. due'[c] = 0
    BY <1>1, <1>2, <1>5
  <2>3. ASSUME OpenedOnce(c)' PROVE NoneSent(c)
    <3>1. Openings(c)' = Openings(c) \cup {Len(log) + 1} /\ Len(log) + 1 \notin Openings(c)
      BY <1>4, <1>5 DEF Openings
    <3>2. IsFiniteSet(Openings(c))
      <4>1. IsFiniteSet(DOMAIN log)
        BY <1>2, FS_Interval
      <4> QED BY <4>1, FS_Subset DEF Openings
    <3>3. Cardinality(Openings(c)) \in Nat
          /\ Cardinality(Openings(c) \cup {Len(log) + 1}) = Cardinality(Openings(c)) + 1
      BY <3>1, <3>2, FS_AddElement, FS_CardinalityType
    <3>4. Cardinality(Openings(c) \cup {Len(log) + 1}) = 1
      BY <2>3, <3>1 DEF OpenedOnce, Openings
    <3>5. Openings(c) = {}
      BY <3>2, <3>3, <3>4, FS_EmptySet
    <3> QED BY <1>3, <3>5 DEF BeforeOpening
  <2>4. BeforeOpening(c)'
    BY <2>1 DEF BeforeOpening
  <2>5. FirstClosing(c)'
    BY <1>1, <2>3 DEF FirstClosing, NoneSent
  <2>6. DueCovered(c)'
    BY <2>2 DEF DueCovered
  <2> QED BY <2>4, <2>5, <2>6
<1>6. CASE c # e
  <2>1. Openings(c)' = Openings(c)
    BY <1>4, <1>6 DEF Openings
  <2>2. OpenedOnce(c)' <=> OpenedOnce(c)
    BY <2>1 DEF OpenedOnce, Openings
  <2> DEFINE new == [balance |-> e.amount, seq |-> 0, recipients |-> <<>>]
  <2>3. chain'.channels[c] = chain.channels[c] /\ due'[c] = due[c]
    BY <1>1, <1>2, <1>6 DEF ClientOpens, OpenChannel, Storage
  <2>4. BeforeOpening(c)'
    BY <1>1, <1>3, <1>6, <2>1, <2>3 DEF BeforeOpening, IsOpen, NoneSent
  <2>5. FirstClosing(c)'
    BY <1>1, <1>3, <2>2, <2>3 DEF FirstClosing, NoneSent
  <2>6. DueCovered(c)'
    BY <1>1, <1>3, <2>2, <2>3 DEF DueCovered, IsOpen, Covers
  <2> QED BY <2>4, <2>5, <2>6
<1> QED BY <1>5, <1>6

LEMMA FinalizeDue ==
    ASSUME SystemInv, DueInv, NEW e \in Id, Finalize(e), NEW c \in Id
    PROVE  BeforeOpening(c)' /\ FirstClosing(c)' /\ DueCovered(c)'
<1>1. PICK k : k = Receipt(e, replica[e])
  OBVIOUS
<1>2. /\ sent' = Append(sent, k) /\ UNCHANGED <<chain, log, replica, unseeded>>
      /\ due' = [due EXCEPT ![e] = IF @ = 0 THEN replica[e].seq ELSE @]
      /\ replica[e] # None /\ replica[e].seq > 0
  BY <1>1 DEF Finalize, Send, contract, sequencer
<1>3. k.chan = e /\ k.seq = replica[e].seq
  BY <1>1 DEF Receipt
<1>4. /\ replica[e].seq \in Nat /\ due \in [Id -> Nat] /\ sent \in Seq(receipts)
      /\ k \in receipts
  BY <1>1, <1>2 DEF SystemInv, ReplicaReceived, SentReceived
<1>5. /\ DOMAIN sent' = DOMAIN sent \cup {Len(sent) + 1} /\ DOMAIN sent = 1 .. Len(sent)
      /\ Len(sent) \in Nat
      /\ sent'[Len(sent) + 1] = k /\ \A i \in DOMAIN sent : sent'[i] = sent[i]
  BY <1>2, <1>4
<1>6. BeforeOpening(c) /\ FirstClosing(c) /\ DueCovered(c)
  BY DEF DueInv
<1>7. /\ Openings(c)' = Openings(c) /\ (OpenedOnce(c)' <=> OpenedOnce(c))
      /\ (IsOpen(chain, c)' <=> IsOpen(chain, c))
  BY <1>2 DEF Openings, OpenedOnce, IsOpen
<1>8. ASSUME c # e, NoneSent(c) PROVE NoneSent(c)'
  BY <1>3, <1>5, <1>8 DEF NoneSent
<1>9. BeforeOpening(c)'
  <2>1. c = e => Openings(c) # {}
    BY <1>2, <1>6 DEF BeforeOpening
  <2> QED BY <1>2, <1>6, <1>7, <1>8, <2>1 DEF BeforeOpening
<1>10. due'[c] = IF c = e /\ due[c] = 0 THEN replica[e].seq ELSE due[c]
  BY <1>2, <1>4
<1>11. FirstClosing(c)'
  <2>1. c = e => due'[c] # 0
    BY <1>2, <1>4, <1>10
  <2> QED BY <1>6, <1>7, <1>8, <1>10, <2>1 DEF FirstClosing
<1>12. DueCovered(c)'
  <2> SUFFICES ASSUME OpenedOnce(c), IsOpen(chain, c), due'[c] > 0
               PROVE  \/ chain.channels[c].seq >= due'[c]
                      \/ \E i \in DOMAIN sent' : Covers(i, c)'
    BY <1>2, <1>7 DEF DueCovered
  <2>1. CASE c = e /\ due[c] = 0
    <3>1. NoneSent(c)
      BY <1>6, <2>1 DEF FirstClosing
    <3>2. PICK n : n = Len(sent) + 1
      OBVIOUS
    <3>3. n \in DOMAIN sent' /\ sent'[n] = k /\ \A j \in DOMAIN sent' : j < n => j \in DOMAIN sent
      BY <1>5, <3>2
    <3>4. \A j \in DOMAIN sent' : j < n => sent'[j].chan # c
      BY <1>5, <3>1, <3>3 DEF NoneSent
    <3>5. k.chan = c /\ k.seq >= due'[c]
      BY <1>3, <1>4, <1>10, <2>1
    <3>6. Covers(n, c)'
      BY <3>3, <3>4, <3>5 DEF Covers
    <3> QED BY <3>3, <3>6
  <2>2. CASE ~(c = e /\ due[c] = 0)
    <3>1. due'[c] = due[c]
      BY <1>10, <2>2
    <3>2. ASSUME NEW i \in DOMAIN sent, Covers(i, c) PROVE i \in DOMAIN sent' /\ Covers(i, c)'
      BY <1>5, <3>1, <3>2 DEF Covers
    <3> QED BY <1>6, <3>1, <3>2 DEF DueCovered
  <2> QED BY <2>1, <2>2
<1> QED BY <1>9, <1>11, <1>12

LEMMA MineDue ==
    ASSUME SystemInv, DueInv, Mine, NEW c \in Id
    PROVE  BeforeOpening(c)' /\ FirstClosing(c)' /\ DueCovered(c)'
<1>1. PICK k : k = Head(sent)
  OBVIOUS
<1>2. /\ sent # <<>> /\ sent' = Tail(sent) /\ k \in receipts
      /\ \/ /\ Closable(chain, k) /\ chain' = Closed(chain, k)
            /\ k.chan \in Opened(chain)
            /\ Opened(chain') = Opened(chain) \ {k.chan}
            /\ \A e \in Opened(chain') : chain'.channels[e] = chain.channels[e]
         \/ ~Closable(chain, k) /\ chain' = chain
      /\ UNCHANGED <<log, replica, unseeded, due>>
  BY <1>1, MineCloses DEF Mine, sequencer
<1>3. /\ k = sent[1] /\ DOMAIN sent = 1 .. Len(sent) /\ Len(sent) \in Nat
      /\ DOMAIN sent' = 1 .. Len(sent) - 1
      /\ \A i \in DOMAIN sent' : i + 1 \in DOMAIN sent /\ sent'[i] = sent[i + 1]
  <2>1. Len(sent') = Len(sent) - 1 /\ sent' \in Seq(receipts)
    BY <1>2, SentHead
  <2>2. sent \in Seq(receipts)
    BY DEF SystemInv, SentReceived
  <2>3. k = sent[1] /\ \A i \in DOMAIN sent' : i + 1 \in DOMAIN sent /\ sent'[i] = sent[i + 1]
    BY <1>1, <1>2, SentHead
  <2>4. DOMAIN sent' = 1 .. Len(sent')
    BY <2>1
  <2>5. DOMAIN sent = 1 .. Len(sent) /\ Len(sent) \in Nat
    BY <2>2
  <2> QED BY <2>1, <2>3, <2>4, <2>5
<1>4. BeforeOpening(c) /\ FirstClosing(c) /\ DueCovered(c)
  BY DEF DueInv
<1>5. /\ Openings(c)' = Openings(c) /\ (OpenedOnce(c)' <=> OpenedOnce(c))
      /\ due'[c] = due[c]
  BY <1>2 DEF Openings, OpenedOnce
<1>6. NoneSent(c) => NoneSent(c)'
  BY <1>3 DEF NoneSent
<1>7. IsOpen(chain', c) => IsOpen(chain, c) /\ chain'.channels[c] = chain.channels[c]
  BY <1>2 DEF Opened
<1>8. BeforeOpening(c)' /\ FirstClosing(c)'
  BY <1>2, <1>4, <1>5, <1>6, <1>7 DEF BeforeOpening, FirstClosing
<1>9. DueCovered(c)'
  <2> SUFFICES ASSUME OpenedOnce(c), IsOpen(chain', c), due[c] > 0
               PROVE  \/ chain'.channels[c].seq >= due'[c]
                      \/ \E i \in DOMAIN sent' : Covers(i, c)'
    BY <1>2, <1>5 DEF DueCovered
  <2>1. CASE chain.channels[c].seq >= due[c]
    BY <1>5, <1>7, <2>1
  <2>2. ASSUME NEW i \in DOMAIN sent, Covers(i, c)
        PROVE  \/ chain'.channels[c].seq >= due'[c]
               \/ \E j \in DOMAIN sent' : Covers(j, c)'
    <3>1. CASE i = 1
      <4>1. k.chan = c /\ k.seq >= due[c]
        BY <1>3, <2>2, <3>1 DEF Covers
      <4>2. ~Closable(chain, k) /\ IsOpen(chain, c)
        BY <1>2, <1>7, <4>1 DEF Opened
      <4>3. chain.channels[c].seq > k.seq
        BY <1>2, <4>1, <4>2, ReceiptCloses
      <4>4. /\ chain.channels[c].seq \in Nat /\ k.seq \in Nat /\ due[c] \in Nat
        <5>1. c \in Opened(chain) /\ chain \in Storage
          BY <4>2 DEF SystemInv, ContractInv, Sound, Opened
        <5> QED BY <1>2, <5>1, OpenType, ReceiptIsUpdate DEF SystemInv, Channel
      <4> DEFINE x == chain.channels[c].seq
      <4>5. x \in Nat /\ x > k.seq
        BY <4>3, <4>4
      <4> HIDE DEF x
      <4>6. x >= due[c]
        BY <4>1, <4>4, <4>5
      <4> QED BY <1>5, <1>7, <4>6 DEF x
    <3>2. CASE i # 1
      <4>1. PICK j : j = i - 1
        OBVIOUS
      <4>2. j \in DOMAIN sent' /\ j + 1 = i
        BY <1>3, <3>2, <4>1
      <4>3. sent'[j] = sent[i]
        BY <1>3, <4>2
      <4>4. ASSUME NEW n \in DOMAIN sent', n < j PROVE sent'[n].chan # c
        <5>1. n + 1 \in DOMAIN sent /\ sent'[n] = sent[n + 1] /\ n + 1 < i
          BY <1>3, <4>2, <4>4
        <5> QED BY <2>2, <5>1 DEF Covers
      <4>5. Covers(j, c)'
        BY <1>5, <2>2, <4>3, <4>4 DEF Covers
      <4> QED BY <4>2, <4>5
    <3> QED BY <3>1, <3>2
  <2> QED BY <1>4, <1>7, <2>1, <2>2 DEF DueCovered
<1> QED BY <1>8, <1>9

LEMMA PublishDue ==
    ASSUME SystemInv, DueInv, SystemInv', NEW k \in receipts, Publish(k), NEW c \in Id
    PROVE  BeforeOpening(c)' /\ FirstClosing(c)' /\ DueCovered(c)'
<1>1. /\ IsOpen(chain, k.chan) /\ k.seq > chain.channels[k.chan].seq
      /\ chain' = Updated(chain, k)
      /\ UNCHANGED <<log, replica, sent, unseeded, due>>
  BY DEF Publish, PublishIntermediateState, OffChain, sequencer
<1>2. /\ Sound(chain) /\ ReceiptsValid /\ PublishedReceipts(chain, receipts)
      /\ k \in Updates /\ k.chan \in Id /\ k.seq \in Nat /\ Ordinary(k.data)
  BY ReceiptIsUpdate DEF SystemInv, ContractInv
<1>3. Opened(chain') = Opened(chain)
  BY <1>1, <1>2, UpdatedSound
<1>4. /\ chain'.channels[k.chan].seq = k.seq
      /\ \A e \in Id \ {k.chan} : chain'.channels[e] = chain.channels[e]
  BY <1>1, <1>2, UpdatedReceipts
<1>5. IsOpen(chain', c) =>
        IsOpen(chain, c) /\ chain'.channels[c].seq >= chain.channels[c].seq
  <2> SUFFICES ASSUME c \in Opened(chain)
               PROVE  chain'.channels[c].seq >= chain.channels[c].seq
    BY <1>3 DEF Opened
  <2>1. chain.channels[c].seq \in Nat
    BY <1>2, OpenType DEF Sound, Channel
  <2>2. CASE c = k.chan
    <3> DEFINE x == chain.channels[c].seq
               y == chain'.channels[c].seq
    <3>1. x \in Nat /\ y = k.seq /\ k.seq > x
      BY <1>1, <1>4, <2>1, <2>2
    <3> HIDE DEF x, y
    <3>2. y >= x
      BY <1>2, <3>1
    <3> QED BY <3>2 DEF x, y
  <2>3. CASE c # k.chan
    BY <1>4, <2>1, <2>3
  <2> QED BY <2>2, <2>3
<1> QED BY <1>1, <1>5, SameLife

LEMMA NextDueInv == SystemInv /\ DueInv /\ [SystemNext]_system => DueInv'
<1> SUFFICES ASSUME SystemInv, DueInv, [SystemNext]_system, NEW c \in Id
             PROVE  BeforeOpening(c)' /\ FirstClosing(c)' /\ DueCovered(c)'
  BY DEF DueInv
<1>0. SystemInv' /\ chain \in Storage /\ Sound(chain)
  BY NextSystemInv DEF SystemInv, ContractInv, Sound
<1>1. IsOpen(chain, c) => chain.channels[c].seq \in Nat
  BY <1>0, OpenType DEF Opened, Channel
<1>2. CASE Advance
  BY <1>0, <1>1, <1>2, SameLife DEF Advance, Tick, OffChain, sequencer
<1>3. ASSUME NEW e \in Id, ClientApproves(e)
      PROVE  BeforeOpening(c)' /\ FirstClosing(c)' /\ DueCovered(c)'
  <2>1. chain'.channels = chain.channels
    BY <1>0, <1>3 DEF ClientApproves, Approve, Storage
  <2>2. UNCHANGED <<sent, log, due, unseeded, replica>>
    BY <1>3 DEF ClientApproves, Approve, sequencer
  <2> QED BY <1>0, <1>1, <2>1, <2>2, SameLife DEF IsOpen
<1>4. ASSUME NEW e \in Id, Seed(e)
      PROVE  BeforeOpening(c)' /\ FirstClosing(c)' /\ DueCovered(c)'
  <2>1. /\ UNCHANGED <<chain, sent, log, due>> /\ unseeded' \subseteq unseeded
        /\ replica' = [replica EXCEPT ![e] = Fresh]
        /\ e \in unseeded \/ IsOpen(chain, e)
    BY <1>4 DEF Seed, contract
  <2>2. replica'[c] # None => replica[c] # None \/ c \in unseeded \/ IsOpen(chain, c)
    BY <2>1 DEF SystemInv, ReplicaReceived
  <2> QED BY <1>0, <1>1, <2>1, <2>2, SameLife
<1>5. ASSUME NEW e \in Id, Killed(e)
      PROVE  BeforeOpening(c)' /\ FirstClosing(c)' /\ DueCovered(c)'
  BY <1>0, <1>1, <1>5, SameLife DEF Killed, contract, sequencer
<1>6. ASSUME NEW e \in Id, Settle(e)
      PROVE  BeforeOpening(c)' /\ FirstClosing(c)' /\ DueCovered(c)'
  <2>1. UNCHANGED <<chain, sent, log, due, unseeded>> /\ replica[e] # None
    BY <1>6 DEF Settle, contract
  <2>2. \A d \in Id : d # e => replica'[d] = replica[d]
    BY <1>6 DEF Settle, SystemInv, ReplicaReceived
  <2> QED BY <1>0, <1>1, <2>1, <2>2, SameLife
<1>7. ASSUME NEW e \in Id, Expire(e)
      PROVE  BeforeOpening(c)' /\ FirstClosing(c)' /\ DueCovered(c)'
  <2>1. /\ e \in Opened(chain) /\ chain' = Distributed(chain, e, Published(chain, e))
        /\ UNCHANGED <<sent, log, due, unseeded, replica>>
    BY <1>7 DEF Expire, CloseAfterExpiry, OffChain, sequencer, Opened
  <2>2. /\ Opened(chain') = Opened(chain) \ {e}
        /\ \A d \in Opened(chain) \ {e} : chain'.channels[d] = chain.channels[d]
    BY <1>0, <2>1, DistributedOpened
  <2>3. IsOpen(chain', c) => IsOpen(chain, c) /\ chain'.channels[c] = chain.channels[c]
    BY <2>2 DEF Opened
  <2> QED BY <1>0, <1>1, <2>1, <2>3, SameLife
<1>8. CASE UNCHANGED system
  BY <1>0, <1>1, <1>8, SameLife DEF system, contract, sequencer
<1> QED
  BY <1>0, <1>2, <1>3, <1>4, <1>5, <1>6, <1>7, <1>8, MineDue, ClientOpensDue, FinalizeDue,
     PublishDue DEF SystemNext

\* A closing pays the payee the number it carries.
LEMMA ClosingPays ==
    ASSUME SystemInv, NEW k \in receipts, Closable(chain, k), chain' = Closed(chain, k)
    PROVE  Paid \in Int /\ Paid >= k.seq
<1>1. Sound(chain) /\ ReceiptsValid
  BY DEF SystemInv, ContractInv
<1>2. /\ k.chan \in Opened(chain) /\ k.data \in Messages /\ k.data = Amount(k.seq)
      /\ k.seq \in Nat /\ Distributable(chain, k.chan, k.data)
  BY <1>1, ReceiptIsUpdate DEF Closable, Opened
<1>3. Payee \in Address \ {Escrow}
  BY PayeeAssumption
<1>4. /\ chain'.token[Payee] \in Nat /\ chain.token[Payee] \in Nat
      /\ chain'.token[Payee] - chain.token[Payee] >= Received(k.data, Payee)
  BY <1>1, <1>2, <1>3, DistributedPays DEF Closed
<1>5. Received(k.data, Payee) = k.seq
  BY <1>2, AmountSums
<1> QED BY <1>4, <1>5 DEF Paid

(***************************************************************************)
(* When a closing the sequencer sent closes a channel opened once, the     *)
(* payee gets all that was accepted before the first closing was sent,     *)
(* whichever closing that is and whatever was published in between.        *)
(***************************************************************************)
THEOREM AcceptedIsPaid == SystemSpec => ClosingPaysAccepted
<1>1. SystemSpec => [](SystemInv /\ DueInv)
  BY InitSystemInv, NextSystemInv, InitDueInv, NextDueInv, PTL DEF SystemSpec
<1>2. SystemInv /\ DueInv /\ [SystemNext]_system =>
        [\A c \in Id :
            sent' # sent /\ IsOpen(chain, c) /\ ~IsOpen(chain', c) /\ OpenedOnce(c)
              => Paid >= due[c]]_system
  <2> SUFFICES ASSUME SystemInv, DueInv, [SystemNext]_system, NEW c \in Id,
                      sent' # sent, IsOpen(chain, c), ~IsOpen(chain', c), OpenedOnce(c)
               PROVE  Paid >= due[c]
    OBVIOUS
  <2>1. Mine
    <3>1. \A e \in Id : ~Finalize(e)
      BY DEF Finalize, Send, contract
    <3> QED BY <3>1 DEF SystemNext, Advance, ClientApproves, ClientOpens, Seed, Killed,
                Settle, Expire, Publish, OffChain, system, sequencer
  <2>2. PICK k : k = Head(sent)
    OBVIOUS
  <2>3. /\ sent # <<>> /\ k \in receipts /\ Closable(chain, k) /\ chain' = Closed(chain, k)
        /\ c = k.chan
    BY <2>1, <2>2, MineCloses DEF Opened
  <2>4. Paid \in Int /\ Paid >= k.seq
    BY <2>3, ClosingPays
  <2>5. /\ k.seq \in Nat /\ due[c] \in Nat /\ c \in Opened(chain)
        /\ chain.channels[c].seq \in Nat
    BY <2>3, ReceiptIsUpdate, OpenType DEF SystemInv, ContractInv, Sound, Opened, Channel
  <2>6. k = sent[1] /\ 1 \in DOMAIN sent
    BY <2>2, <2>3, SentHead DEF SystemInv, SentReceived
  <2>7. k.seq >= due[c]
    <3>1. CASE due[c] = 0
      BY <2>5, <3>1
    <3>2. CASE due[c] > 0 /\ chain.channels[c].seq >= due[c]
      <4> DEFINE x == chain.channels[c].seq
      <4>1. x \in Nat /\ k.seq >= x /\ x >= due[c]
        BY <2>3, <2>5, <3>2 DEF Closable
      <4> HIDE DEF x
      <4> QED BY <2>5, <4>1
    <3>3. ASSUME NEW i \in DOMAIN sent, Covers(i, c) PROVE k.seq >= due[c]
      <4>1. i = 1
        <5>1. i \in Nat /\ i >= 1
          BY DEF SystemInv, SentReceived
        <5> QED BY <2>3, <2>6, <3>3, <5>1 DEF Covers
      <4> QED BY <2>6, <3>3, <4>1 DEF Covers
    <3> QED BY <2>5, <3>1, <3>2, <3>3 DEF DueInv, DueCovered
  <2>8. PICK paid \in Int : paid = Paid
    BY <2>4
  <2>9. paid >= due[c]
    BY <2>4, <2>5, <2>7, <2>8
  <2> QED BY <2>8, <2>9
<1> QED BY <1>1, <1>2, PTL DEF SystemSpec, ClosingPaysAccepted
-----------------------------------------------------------------------------
(***************************************************************************)
(* The refinement.  The four variables of PaymentPromise as operators on   *)
(* the storage and on the receipts.                                        *)
(***************************************************************************)
AccountsOf(s) == [a \in Address \ {Escrow} |-> s.token[a]]
LockedIn(s) == [c \in Id |-> IF IsOpen(s, c) THEN s.channels[c].balance ELSE 0]
SecuredIn(s) == [c \in Id |-> IF IsOpen(s, c) THEN Total(Published(s, c)) ELSE 0]
Numbers(R, c) == {0} \cup {k.seq : k \in {r \in R : r.chan = c}}
Best(R, c) == CHOOSE n \in Numbers(R, c) : \A m \in Numbers(R, c) : m <= n
PromisedIn(R) == [c \in Id |-> Best(R, c)]

LEMMA BestIsMax ==
    ASSUME NEW R, NEW c \in Id, NEW n \in Nat, n \in Numbers(R, c),
           Numbers(R, c) \subseteq Nat, \A m \in Numbers(R, c) : m <= n
    PROVE  Best(R, c) = n
<1> DEFINE b == Best(R, c)
<1>1. b \in Numbers(R, c) /\ \A m \in Numbers(R, c) : m <= b
  BY DEF Best
<1>2. b \in Nat /\ b <= n /\ n <= b
  BY <1>1
<1> HIDE DEF b
<1>3. b = n
  BY <1>2
<1> QED BY <1>3 DEF b

\* The receipts of a channel have a last number, within its deposit.
LEMMA BestType ==
    ASSUME NEW R, NEW c \in Id,
           \A k \in R : k.chan = c => k.seq \in Nat /\ k.seq <= c.amount
    PROVE  /\ Numbers(R, c) \subseteq Nat
           /\ Best(R, c) \in Numbers(R, c) /\ Best(R, c) \in 0 .. c.amount
           /\ \A m \in Numbers(R, c) : m <= Best(R, c)
<1> DEFINE S == Numbers(R, c)
<1>1. c.amount \in Nat
  BY IdType
<1>2. S \subseteq 0 .. c.amount /\ 0 \in S
  BY <1>1 DEF Numbers
<1> HIDE DEF S
<1>3. PICK n \in S : \A m \in S : m <= n
  <2> DEFINE P == S \ {0}
  <2>1. P \in SUBSET (1 .. c.amount)
    BY <1>1, <1>2
  <2>2. CASE P = {}
    BY <1>2, <2>2
  <2>3. CASE P # {}
    <3> HIDE DEF P
    <3>1. PICK i \in P : \A j \in P : j <= i
      BY <1>1, <2>1, <2>3, LastIndex
    <3>2. i \in Nat /\ 0 <= i
      BY <1>1, <2>1, <3>1
    <3> QED BY <3>1, <3>2 DEF P
  <2> QED BY <2>2, <2>3
<1>4. S \subseteq Nat /\ n \in 0 .. c.amount
  BY <1>1, <1>2
<1>5. Best(R, c) = n
  BY <1>3, <1>4, BestIsMax DEF S
<1> QED BY <1>3, <1>4, <1>5 DEF S

LEMMA BestOfReceipts ==
    ASSUME ReceiptsValid, NEW c \in Id
    PROVE  /\ Best(receipts, c) \in Nat /\ Best(receipts, c) <= c.amount
           /\ c.amount \in Nat
           /\ \A k \in receipts : k.chan = c => k.seq <= Best(receipts, c)
<1>1. \A k \in receipts : k.chan = c => k.seq \in Nat /\ k.seq <= c.amount
  BY ReceiptIsUpdate
<1>2. c.amount \in Nat
  BY IdType
<1>3. Best(receipts, c) \in 0 .. c.amount
      /\ \A m \in Numbers(receipts, c) : m <= Best(receipts, c)
  BY <1>1, BestType
<1>4. \A k \in receipts : k.chan = c => k.seq \in Numbers(receipts, c)
  BY DEF Numbers
<1> QED BY <1>2, <1>3, <1>4

LEMMA OneMoreReceipt ==
    ASSUME ReceiptsValid, NEW c \in Id, NEW u, u.chan = c,
           u.seq \in Nat, u.seq > 0, u.seq <= c.amount
    PROVE  /\ \A e \in Id \ {c} : Best(receipts \cup {u}, e) = Best(receipts, e)
           /\ Best(receipts \cup {u}, c) =
                IF u.seq <= Best(receipts, c) THEN Best(receipts, c) ELSE u.seq
<1> DEFINE b == Best(receipts, c)
<1>1. \A e \in Id \ {c} : Numbers(receipts \cup {u}, e) = Numbers(receipts, e)
  BY DEF Numbers
<1>2. Numbers(receipts \cup {u}, c) = Numbers(receipts, c) \cup {u.seq}
  BY DEF Numbers
<1>3. \A k \in receipts : k.chan = c => k.seq \in Nat /\ k.seq <= c.amount
  BY ReceiptIsUpdate
<1>4. /\ Numbers(receipts, c) \subseteq Nat
      /\ b \in Numbers(receipts, c) /\ b \in Nat
      /\ \A m \in Numbers(receipts, c) : m <= b
  BY <1>3, BestType, BestOfReceipts
<1> HIDE DEF b
<1>5. ASSUME u.seq <= b PROVE Best(receipts \cup {u}, c) = b
  BY <1>2, <1>4, <1>5, BestIsMax
<1>6. ASSUME ~(u.seq <= b) PROVE Best(receipts \cup {u}, c) = u.seq
  <2>1. \A m \in Numbers(receipts, c) : m <= u.seq
    BY <1>4, <1>6
  <2> DEFINE R == receipts \cup {u}
  <2>2. /\ Numbers(R, c) = Numbers(receipts, c) \cup {u.seq}
        /\ Numbers(R, c) \subseteq Nat /\ u.seq \in Numbers(R, c)
    BY <1>2, <1>4
  <2> HIDE DEF R
  <2>3. \A m \in Numbers(R, c) : m <= u.seq
    BY <2>1, <2>2
  <2>4. Best(R, c) = u.seq
    BY <2>2, <2>3, BestIsMax
  <2> QED BY <2>4 DEF R
<1>7. \A e \in Id \ {c} : Best(receipts \cup {u}, e) = Best(receipts, e)
  BY <1>1 DEF Best
<1> QED BY <1>5, <1>6, <1>7 DEF b
-----------------------------------------------------------------------------
\* The actions of PaymentPromise, in these terms.
LEMMA LockStep ==
    ASSUME NEW c \in Id, LockedIn(chain)[c] = 0, AccountsOf(chain)[c.owner] >= c.amount,
           AccountsOf(chain') = [AccountsOf(chain) EXCEPT ![c.owner] = @ - c.amount],
           LockedIn(chain') = [LockedIn(chain) EXCEPT ![c] = c.amount],
           SecuredIn(chain') = SecuredIn(chain), UNCHANGED receipts
    PROVE  Promise!Next
<1>1. Promise!Lock(c)
  BY DEF Promise!Lock, AccountsOf, LockedIn, SecuredIn, Promised
<1> QED BY <1>1 DEF Promise!Next

LEMMA PromiseStep ==
    ASSUME NEW c \in Id, Best(receipts, c) < c.amount,
           PromisedIn(receipts') = [PromisedIn(receipts) EXCEPT ![c] = @ + 1],
           UNCHANGED chain
    PROVE  Promise!Next
<1>1. Promise!Promise(c)
  BY DEF Promise!Promise, PromisedIn, Promised, Best, Numbers
<1> QED BY <1>1 DEF Promise!Next

LEMMA SecureStep ==
    ASSUME NEW c \in Id, LockedIn(chain)[c] > 0,
           NEW n \in SecuredIn(chain)[c] .. PromisedIn(receipts)[c],
           SecuredIn(chain') = [SecuredIn(chain) EXCEPT ![c] = n],
           AccountsOf(chain') = AccountsOf(chain), LockedIn(chain') = LockedIn(chain),
           UNCHANGED receipts
    PROVE  Promise!Next
<1>1. [e \in Id |-> Promised(e)]' = [e \in Id |-> Promised(e)]
  BY DEF Promised
<1>2. PromisedIn(receipts) = [e \in Id |-> Promised(e)]
  BY DEF PromisedIn, Promised, Best, Numbers
<1>3. Promise!Secure(c)
  BY <1>1, <1>2 DEF Promise!Secure, AccountsOf, LockedIn, SecuredIn
<1> QED BY <1>3 DEF Promise!Next

LEMMA CloseStep ==
    ASSUME NEW c \in Id, LockedIn(chain)[c] > 0,
           NEW n \in SecuredIn(chain)[c] .. PromisedIn(receipts)[c],
           AccountsOf(chain') =
                [AccountsOf(chain) EXCEPT ![Payee] = @ + n,
                                          ![c.owner] = @ + LockedIn(chain)[c] - n],
           LockedIn(chain') = [LockedIn(chain) EXCEPT ![c] = 0],
           SecuredIn(chain') = [SecuredIn(chain) EXCEPT ![c] = 0],
           UNCHANGED receipts
    PROVE  Promise!Next
<1>1. [e \in Id |-> Promised(e)]' = [e \in Id |-> Promised(e)]
  BY DEF Promised
<1>2. PromisedIn(receipts) = [e \in Id |-> Promised(e)]
  BY DEF PromisedIn, Promised, Best, Numbers
<1>3. Promise!Close(c)
  BY <1>1, <1>2 DEF Promise!Close, AccountsOf, LockedIn, SecuredIn
<1> QED BY <1>3 DEF Promise!Next
-----------------------------------------------------------------------------
\* A step that touches one channel changes what is locked and secured in it.
LEMMA OneChannelChanges ==
    ASSUME NEW s, NEW t, NEW c \in Id,
           \A e \in Id \ {c} : t.channels[e] = s.channels[e] /\ t.balances[e] = s.balances[e]
    PROVE  /\ LockedIn(t) = [LockedIn(s) EXCEPT ![c] = LockedIn(t)[c]]
           /\ SecuredIn(t) = [SecuredIn(s) EXCEPT ![c] = SecuredIn(t)[c]]
<1>1. ASSUME NEW e \in Id, e # c
      PROVE  LockedIn(t)[e] = LockedIn(s)[e] /\ SecuredIn(t)[e] = SecuredIn(s)[e]
  <2>1. t.channels[e] = s.channels[e] /\ t.balances[e] = s.balances[e]
    BY <1>1
  <2>2. Published(t, e) = Published(s, e)
    BY <2>1 DEF Published
  <2> QED BY <2>1, <2>2 DEF LockedIn, SecuredIn, IsOpen
<1>2. /\ LockedIn(t) = [e \in Id |-> LockedIn(t)[e]]
      /\ LockedIn(s) = [e \in Id |-> LockedIn(s)[e]]
  BY DEF LockedIn
<1>3. /\ SecuredIn(t) = [e \in Id |-> SecuredIn(t)[e]]
      /\ SecuredIn(s) = [e \in Id |-> SecuredIn(s)[e]]
  BY DEF SecuredIn
<1> QED BY <1>1, <1>2, <1>3

LEMMA SecuredIsNumber ==
    ASSUME NEW s, Sound(s), NEW R, PublishedReceipts(s, R), NEW c \in Opened(s)
    PROVE  /\ c \in Id /\ s.channels[c].seq \in Nat
           /\ SecuredIn(s)[c] = s.channels[c].seq
           /\ LockedIn(s)[c] = c.amount /\ c.amount > 0 /\ c.amount \in Nat
<1>1. s \in Storage /\ c \in Id /\ IsOpen(s, c) /\ s.channels[c].balance = c.amount
  BY OpenType DEF Sound, Opened
<1>2. PublishedReceipt(s, c, R) /\ c.amount > 0
  BY DEF PublishedReceipts
<1>3. s.channels[c].seq \in Nat /\ Total(Published(s, c)) = s.channels[c].seq
  BY <1>1, <1>2, PublishedAmount
<1> QED BY <1>1, <1>2, <1>3, IdType DEF SecuredIn, LockedIn

LEMMA OpenLocks ==
    ASSUME SystemInv, NEW c \in Id, ClientOpens(c)
    PROVE  Promise!Next
<1> DEFINE new == [balance |-> c.amount, seq |-> 0, recipients |-> <<>>]
<1>0. Sound(chain) /\ chain \in Storage
  BY DEF SystemInv, ContractInv, Sound
<1>1. c.owner \in Address /\ c.owner # Escrow /\ c.owner \in Owners /\ c.amount \in Nat
  BY IdType
<1>2. /\ ~IsOpen(chain, c) /\ c.amount <= chain.token[c.owner] /\ UNCHANGED receipts
      /\ chain'.channels = [chain.channels EXCEPT ![c] = new]
      /\ chain'.balances = chain.balances
  BY <1>0 DEF ClientOpens, OpenChannel, Storage, sequencer
<1>3. chain'.token = [chain.token EXCEPT ![c.owner] = @ - c.amount,
                                        ![Escrow] = @ + c.amount]
  BY <1>0 DEF ClientOpens, OpenChannel, Storage
<1>4. chain.channels \in [Id -> Channel \cup {None}] /\ chain'.channels[c] = new
      /\ \A e \in Id \ {c} : chain'.channels[e] = chain.channels[e]
  BY <1>0, <1>2 DEF Storage
<1>5. new # None
  <2>1. new \in Channel
    BY <1>1 DEF Channel
  <2> QED BY <2>1, NoneAssumption
<1>6. LockedIn(chain)[c] = 0 /\ LockedIn(chain')[c] = c.amount
  BY <1>2, <1>4, <1>5 DEF LockedIn, IsOpen
<1>7. SecuredIn(chain)[c] = 0 /\ SecuredIn(chain')[c] = 0
  <2>1. Total(Published(chain', c)) = 0
    BY <1>4, NothingOwed
  <2> QED BY <1>2, <2>1 DEF SecuredIn
<1>8. /\ LockedIn(chain') = [LockedIn(chain) EXCEPT ![c] = c.amount]
      /\ SecuredIn(chain') = [SecuredIn(chain) EXCEPT ![c] = 0]
  BY <1>2, <1>4, <1>6, <1>7, OneChannelChanges
<1>9. SecuredIn(chain') = SecuredIn(chain)
  <2>1. SecuredIn(chain) = [e \in Id |-> SecuredIn(chain)[e]]
    BY DEF SecuredIn
  <2> QED BY <1>7, <1>8, <2>1
<1>10. /\ AccountsOf(chain)[c.owner] >= c.amount
       /\ AccountsOf(chain') = [AccountsOf(chain) EXCEPT ![c.owner] = @ - c.amount]
  <2>1. chain.token \in [Address -> Nat]
    BY <1>0 DEF Storage
  <2>2. \A a \in Address \ {Escrow} :
            chain'.token[a] = IF a = c.owner THEN chain.token[a] - c.amount ELSE chain.token[a]
    BY <1>1, <1>3, <2>1
  <2>3. AccountsOf(chain') = [a \in Address \ {Escrow} |->
            IF a = c.owner THEN chain.token[a] - c.amount ELSE chain.token[a]]
    BY <2>2 DEF AccountsOf
  <2>4. c.amount <= chain.token[c.owner] /\ chain.token[c.owner] \in Nat
    BY <1>1, <1>2, <2>1
  <2>5. AccountsOf(chain)[c.owner] = chain.token[c.owner]
    BY <1>1 DEF AccountsOf
  <2>6. AccountsOf(chain)[c.owner] >= c.amount
    BY <1>1, <2>4, <2>5
  <2>7. AccountsOf(chain') = [AccountsOf(chain) EXCEPT ![c.owner] = @ - c.amount]
    BY <1>1, <2>3 DEF AccountsOf
  <2> QED BY <2>6, <2>7
<1> QED BY <1>2, <1>6, <1>8, <1>9, <1>10, LockStep

LEMMA SettlePromises ==
    ASSUME SystemInv, NEW c \in Id, Settle(c)
    PROVE  Promise!Next \/ PromisedIn(receipts') = PromisedIn(receipts)
<1>1. PICK u \in NextUpdates(c) :
        /\ u.ts <= c.expiry /\ u.seq <= c.amount
        /\ receipts' = receipts \cup {u}
  BY DEF Settle
<1>2. replica[c] # None /\ UNCHANGED chain /\ ReceiptsValid
  BY DEF Settle, contract, SystemInv
<1>3. u.chan = c /\ u.seq = replica[c].seq + 1 /\ replica[c].seq \in Nat
  BY <1>2 DEF NextUpdates, SystemInv, ReplicaReceived
<1> DEFINE b == Best(receipts, c)
<1>4. b \in Nat
  BY <1>2, BestOfReceipts
<1>5. replica[c].seq <= b
  <2>1. CASE replica[c].seq = 0
    BY <1>4, <2>1
  <2>2. CASE replica[c].seq > 0
    <3> DEFINE k == Receipt(c, replica[c])
    <3>1. k \in receipts
      BY <1>2, <2>2 DEF SystemInv, ReplicaReceived
    <3>2. k.chan = c /\ k.seq = replica[c].seq
      BY DEF Receipt
    <3> HIDE DEF k
    <3> QED BY <1>2, <3>1, <3>2, BestOfReceipts
  <2> QED BY <1>3, <2>1, <2>2
<1>6. /\ \A e \in Id \ {c} : Best(receipts', e) = Best(receipts, e)
      /\ Best(receipts', c) = IF u.seq <= b THEN b ELSE u.seq
  <2>1. u.seq \in Nat /\ u.seq > 0
    BY <1>3
  <2> QED BY <1>1, <1>2, <1>3, <2>1, OneMoreReceipt
<1> HIDE DEF b
<1>7. CASE u.seq <= b
  <2>1. \A e \in Id : Best(receipts', e) = Best(receipts, e)
    BY <1>6, <1>7 DEF b
  <2> QED BY <2>1 DEF PromisedIn
<1>8. CASE ~(u.seq <= b)
  <2>1. u.seq = b + 1
    BY <1>3, <1>4, <1>5, <1>8
  <2>2. b < c.amount
    BY <1>1, <1>4, <2>1, IdType
  <2>3. \A e \in Id : Best(receipts', e) = IF e = c THEN b + 1 ELSE Best(receipts, e)
    BY <1>6, <1>8, <2>1
  <2>4. PromisedIn(receipts') = [PromisedIn(receipts) EXCEPT ![c] = @ + 1]
    BY <2>3 DEF PromisedIn, b
  <2> QED BY <1>2, <2>2, <2>4, PromiseStep DEF b
<1> QED BY <1>7, <1>8

LEMMA PublishSecures ==
    ASSUME SystemInv, NEW k \in receipts, Publish(k)
    PROVE  Promise!Next
<1>1. PICK c : c = k.chan
  OBVIOUS
<1>2. /\ IsOpen(chain, c) /\ k.seq > chain.channels[c].seq
      /\ chain' = Updated(chain, k) /\ UNCHANGED receipts
  BY <1>1 DEF Publish, PublishIntermediateState, OffChain, sequencer
<1>3. /\ Sound(chain) /\ ReceiptsValid /\ PublishedReceipts(chain, receipts)
      /\ k \in Updates /\ c \in Id /\ k.seq \in Nat /\ c \in Opened(chain)
      /\ Ordinary(k.data)
  BY <1>1, <1>2, ReceiptIsUpdate DEF SystemInv, ContractInv, Opened
<1>4. Sound(chain') /\ Opened(chain') = Opened(chain) /\ chain'.token = chain.token
  BY <1>1, <1>2, <1>3, UpdatedSound
<1>5. /\ PublishedReceipts(chain', receipts)
      /\ chain'.channels[c].seq = k.seq
      /\ \A e \in Id \ {c} :
            chain'.channels[e] = chain.channels[e] /\ chain'.balances[e] = chain.balances[e]
  BY <1>1, <1>2, <1>3, UpdatedReceipts
<1>6. /\ SecuredIn(chain)[c] = chain.channels[c].seq /\ chain.channels[c].seq \in Nat
      /\ LockedIn(chain)[c] = c.amount /\ c.amount > 0
  BY <1>3, SecuredIsNumber
<1>7. SecuredIn(chain')[c] = k.seq /\ LockedIn(chain')[c] = c.amount
  BY <1>3, <1>4, <1>5, SecuredIsNumber
<1>8. /\ LockedIn(chain') = [LockedIn(chain) EXCEPT ![c] = c.amount]
      /\ SecuredIn(chain') = [SecuredIn(chain) EXCEPT ![c] = k.seq]
  BY <1>3, <1>5, <1>7, OneChannelChanges
<1>9. LockedIn(chain') = LockedIn(chain)
  <2>1. LockedIn(chain) = [e \in Id |-> LockedIn(chain)[e]]
    BY DEF LockedIn
  <2> QED BY <1>6, <1>8, <2>1
<1>10. AccountsOf(chain') = AccountsOf(chain)
  BY <1>4 DEF AccountsOf
<1>11. k.seq \in SecuredIn(chain)[c] .. PromisedIn(receipts)[c]
  <2> DEFINE x == chain.channels[c].seq
             b == Best(receipts, c)
  <2>1. x \in Nat /\ k.seq > x /\ b \in Nat /\ k.seq <= b
    BY <1>1, <1>2, <1>3, <1>6, BestOfReceipts
  <2>2. PromisedIn(receipts)[c] = b /\ SecuredIn(chain)[c] = x
    BY <1>3, <1>6 DEF PromisedIn
  <2> HIDE DEF x, b
  <2> QED BY <1>3, <2>1, <2>2
<1>12. LockedIn(chain)[c] > 0
  BY <1>6
<1> QED BY <1>2, <1>3, <1>8, <1>9, <1>10, <1>11, <1>12, SecureStep

\* A closing, by a receipt or after the expiry.
LEMMA CloseHonours ==
    ASSUME SystemInv, NEW c \in Opened(chain), NEW d \in Messages, NEW n \in Nat,
           Total(d) = n, Received(d, Payee) = n, \A a : a # Payee => Received(d, a) = 0,
           chain.channels[c].seq <= n, n <= Best(receipts, c),
           chain' = Distributed(chain, c, d), UNCHANGED receipts
    PROVE  Promise!Next
<1>1. Sound(chain) /\ chain \in Storage /\ PublishedReceipts(chain, receipts) /\ ReceiptsValid
  BY DEF SystemInv, ContractInv, Sound
<1>2. /\ c \in Id /\ chain.channels[c].seq \in Nat
      /\ SecuredIn(chain)[c] = chain.channels[c].seq
      /\ LockedIn(chain)[c] = c.amount /\ c.amount > 0 /\ c.amount \in Nat
      /\ chain.channels[c].balance = c.amount
  BY <1>1, SecuredIsNumber DEF Sound
<1>3. /\ chain'.token = Transferred(chain, c, d) /\ chain'.balances = chain.balances
      /\ Opened(chain') = Opened(chain) \ {c}
      /\ \A e \in Id \ {c} : chain'.channels[e] = chain.channels[e]
  <2>1. chain'.token = Transferred(chain, c, d) /\ chain'.balances = chain.balances
    BY <1>1, <1>2, DistributedToken
  <2>2. chain'.channels = [chain.channels EXCEPT ![c] = None]
    BY <1>1, <1>2, DistributedParts
  <2>3. Opened(chain') = Opened(chain) \ {c}
    BY <1>1, DistributedOpened
  <2>4. DOMAIN chain.channels = Id
    BY <1>1 DEF Storage
  <2>5. \A e \in Id \ {c} : chain'.channels[e] = chain.channels[e]
    BY <2>2, <2>4
  <2> QED BY <2>1, <2>3, <2>5
<1>4. LockedIn(chain')[c] = 0 /\ SecuredIn(chain')[c] = 0
  BY <1>2, <1>3 DEF LockedIn, SecuredIn, Opened
<1>5. /\ LockedIn(chain') = [LockedIn(chain) EXCEPT ![c] = 0]
      /\ SecuredIn(chain') = [SecuredIn(chain) EXCEPT ![c] = 0]
  <2>1. c \in Id
    BY <1>2
  <2>2. \A e \in Id \ {c} :
            chain'.channels[e] = chain.channels[e] /\ chain'.balances[e] = chain.balances[e]
    BY <1>3
  <2>3. /\ LockedIn(chain') = [LockedIn(chain) EXCEPT ![c] = LockedIn(chain')[c]]
        /\ SecuredIn(chain') = [SecuredIn(chain) EXCEPT ![c] = SecuredIn(chain')[c]]
    BY ONLY <2>1, <2>2, OneChannelChanges
  <2> QED BY <1>4, <2>3
<1>6. n \in SecuredIn(chain)[c] .. PromisedIn(receipts)[c]
  <2> DEFINE x == chain.channels[c].seq
             b == Best(receipts, c)
  <2>1. x \in Nat /\ x <= n /\ b \in Nat /\ n <= b
    BY <1>1, <1>2, BestOfReceipts
  <2>2. PromisedIn(receipts)[c] = b /\ SecuredIn(chain)[c] = x
    BY <1>2 DEF PromisedIn
  <2> HIDE DEF x, b
  <2> QED BY <2>1, <2>2
<1>7. AccountsOf(chain') =
        [AccountsOf(chain) EXCEPT ![Payee] = @ + n, ![c.owner] = @ + LockedIn(chain)[c] - n]
  <2>1. /\ chain.token \in [Address -> Nat]
        /\ Payee \in Address \ {Escrow} /\ c.owner \in Address \ {Escrow}
        /\ c.owner # Payee
    BY <1>1, <1>2, IdType, PayeeAssumption DEF Storage
  <2>2. ASSUME NEW a \in Address \ {Escrow}
        PROVE  chain'.token[a] = chain.token[a] + Received(d, a)
                                    + (IF a = c.owner THEN c.amount - n ELSE 0)
    <3>1. chain'.token[a] = chain.token[a] + Received(d, a)
                                + (IF a = c.owner THEN c.amount - n ELSE 0) - 0
      BY <1>2, <1>3, <2>1 DEF Transferred
    <3>2. chain.token[a] \in Nat /\ Received(d, a) \in Nat /\ c.amount \in Nat
      BY <1>2, <2>1, ReceivedType
    <3> QED BY <3>1, <3>2
  <2>3. ASSUME NEW a \in Address \ {Escrow}
        PROVE  chain'.token[a] =
                CASE a = Payee -> chain.token[a] + n
                  [] a = c.owner -> chain.token[a] + c.amount - n
                  [] OTHER -> chain.token[a]
    <3>1. chain.token[a] \in Nat
      BY <2>1
    <3>2. CASE a = Payee
      BY <1>2, <2>1, <2>2, <3>1, <3>2
    <3>3. CASE a = c.owner
      BY <1>2, <2>1, <2>2, <3>1, <3>3
    <3>4. CASE a # Payee /\ a # c.owner
      BY <2>2, <3>1, <3>4
    <3> QED BY <3>2, <3>3, <3>4
  <2> QED BY <1>2, <2>1, <2>3 DEF AccountsOf
<1>8. LockedIn(chain)[c] > 0
  BY <1>2
<1> QED BY <1>2, <1>5, <1>6, <1>7, <1>8, CloseStep

LEMMA MineHonours ==
    ASSUME SystemInv, Mine
    PROVE  Promise!Next \/ UNCHANGED <<chain, receipts>>
<1>1. PICK k : k = Head(sent)
  OBVIOUS
<1>2. /\ k \in receipts /\ UNCHANGED receipts
      /\ \/ Closable(chain, k) /\ chain' = Closed(chain, k) /\ k.chan \in Opened(chain)
         \/ chain' = chain
  BY <1>1, MineCloses DEF Mine, sequencer
<1>3. CASE Closable(chain, k) /\ chain' = Closed(chain, k) /\ k.chan \in Opened(chain)
  <2>1. PICK c : c = k.chan
    OBVIOUS
  <2>2. /\ c \in Opened(chain) /\ c \in Id /\ ReceiptsValid
        /\ k.data \in Messages /\ k.seq \in Nat /\ k.data = Amount(k.seq)
    BY <1>2, <1>3, <2>1, ReceiptIsUpdate DEF SystemInv
  <2>3. chain.channels[c].seq \in Nat
    BY <2>2, OpenType DEF SystemInv, ContractInv, Sound, Channel
  <2>4. chain.channels[c].seq <= k.seq /\ chain' = Distributed(chain, c, k.data)
    BY <1>3, <2>1, <2>2, <2>3 DEF Closable, Closed
  <2>5. k.seq <= Best(receipts, c)
    BY <1>2, <2>1, <2>2, BestOfReceipts
  <2>6. /\ Total(k.data) = k.seq /\ Received(k.data, Payee) = k.seq
        /\ \A a : a # Payee => Received(k.data, a) = 0
    BY <2>2, AmountSums
  <2>7. Promise!Next
    BY <1>2, <2>2, <2>4, <2>5, <2>6, CloseHonours
  <2> QED BY <2>7
<1> QED BY <1>2, <1>3

LEMMA ExpireHonours ==
    ASSUME SystemInv, NEW c \in Id, Expire(c)
    PROVE  Promise!Next
<1>1. /\ c \in Opened(chain) /\ UNCHANGED receipts
      /\ chain' = Distributed(chain, c, Published(chain, c))
  BY DEF Expire, CloseAfterExpiry, OffChain, sequencer, Opened
<1>2. /\ chain \in Storage /\ Sound(chain) /\ ReceiptsValid
      /\ PublishedReceipt(chain, c, receipts)
  BY <1>1 DEF SystemInv, ContractInv, Sound, PublishedReceipts
<1>3. PICK d : d = Published(chain, c)
  OBVIOUS
<1>4. PICK n : n = chain.channels[c].seq
  OBVIOUS
<1>5. /\ n \in Nat /\ d \in Messages /\ Total(d) = n /\ Received(d, Payee) = n
      /\ \A a : a # Payee => Received(d, a) = 0
  BY <1>1, <1>2, <1>3, <1>4, PublishedAmount
<1>6. n <= Best(receipts, c)
  <2>1. Best(receipts, c) \in Nat /\ \A k \in receipts : k.chan = c => k.seq <= Best(receipts, c)
    BY <1>2, BestOfReceipts
  <2>2. n = 0 \/ \E k \in receipts : k.chan = c /\ k.seq = n
    BY <1>2, <1>4 DEF PublishedReceipt
  <2> QED BY <2>1, <2>2
<1>7. chain.channels[c].seq <= n
  BY <1>4, <1>5
<1> QED BY <1>1, <1>3, <1>5, <1>6, <1>7, CloseHonours

(***************************************************************************)
(* Contract and sequencer keep the promise of PaymentPromise: deposits are *)
(* locked and released whole, what the payee was promised only grows, a    *)
(* closing pays it no less than what is published and no more than what it *)
(* has receipts for, and the owner gets the rest.                          *)
(***************************************************************************)
THEOREM KeepsPromise == SystemSpec => ImplementsPromise
<1>1. SystemInit => Promise!Init
  <2> SUFFICES ASSUME SystemInit PROVE Promise!Init
    OBVIOUS
  <2>1. /\ chain.channels = [c \in Id |-> None] /\ receipts = {}
        /\ chain.token = Supply
    BY DEF SystemInit, Init
  <2>2. [a \in Address \ {Escrow} |-> chain.token[a]]
            = [a \in Address \ {Escrow} |-> Supply[a]]
    BY <2>1
  <2>3. \A c \in Id : ~IsOpen(chain, c)
    BY <2>1 DEF IsOpen
  <2>4. \A c \in Id : Promised(c) = 0
    <3>1. \A c \in Id : {0} \cup {k.seq : k \in {r \in receipts : r.chan = c}} = {0}
      BY <2>1
    <3>2. (CHOOSE n \in {0} : \A m \in {0} : m <= n) = 0
      OBVIOUS
    <3> QED BY <3>1, <3>2 DEF Promised
  <2> QED BY <2>2, <2>3, <2>4 DEF Promise!Init
<1>2. SystemInv /\ [SystemNext]_system =>
        [Promise!Next]_(<<[a \in Address \ {Escrow} |-> chain.token[a]],
            [c \in Id |-> IF IsOpen(chain, c) THEN chain.channels[c].balance ELSE 0],
            [c \in Id |-> Promised(c)],
            [c \in Id |-> IF IsOpen(chain, c) THEN Total(Published(chain, c)) ELSE 0]>>)
  <2> SUFFICES ASSUME SystemInv, [SystemNext]_system
               PROVE  \/ Promise!Next
                      \/ /\ AccountsOf(chain') = AccountsOf(chain)
                         /\ LockedIn(chain') = LockedIn(chain)
                         /\ PromisedIn(receipts') = PromisedIn(receipts)
                         /\ SecuredIn(chain') = SecuredIn(chain)
    <3>1. PromisedIn(receipts) = [c \in Id |-> Promised(c)]
      BY DEF PromisedIn, Promised, Best, Numbers
    <3>2. PromisedIn(receipts') = [c \in Id |-> Promised(c)]'
      BY DEF PromisedIn, Promised, Best, Numbers
    <3> QED BY <3>1, <3>2 DEF AccountsOf, LockedIn, SecuredIn
  <2>1. ASSUME NEW c \in Id, ClientApproves(c)
        PROVE  /\ AccountsOf(chain') = AccountsOf(chain)
               /\ LockedIn(chain') = LockedIn(chain)
               /\ SecuredIn(chain') = SecuredIn(chain) /\ UNCHANGED receipts
    <3>1. /\ chain'.channels = chain.channels /\ chain'.token = chain.token
          /\ chain'.balances = chain.balances
      BY <2>1 DEF ClientApproves, Approve, SystemInv, ContractInv, Sound, Storage
    <3>2. UNCHANGED receipts
      BY <2>1 DEF ClientApproves, sequencer
    <3>3. \A c_1 \in Id : Published(chain', c_1) = Published(chain, c_1)
      BY <3>1 DEF Published
    <3> QED BY <3>1, <3>2, <3>3 DEF AccountsOf, LockedIn, SecuredIn, IsOpen
  <2>2. ASSUME NEW c \in Id, Settle(c) PROVE UNCHANGED chain
    BY <2>2 DEF Settle, contract
  <2>3. ASSUME NEW c \in Id, Seed(c) \/ Killed(c) \/ Finalize(c)
        PROVE  UNCHANGED <<chain, receipts>>
    BY <2>3 DEF Seed, Killed, Finalize, Send, contract, sequencer
  <2>4. CASE Advance \/ UNCHANGED system
    <3>1. UNCHANGED <<chain, receipts>>
      BY <2>4 DEF Advance, Tick, OffChain, system, contract, sequencer
    <3> QED BY <3>1
  <2> QED
    BY <2>1, <2>2, <2>3, <2>4, OpenLocks, SettlePromises, PublishSecures, MineHonours,
       ExpireHonours DEF SystemNext
<1> QED
  BY <1>1, <1>2, SystemInvHolds, PTL DEF SystemSpec, ImplementsPromise, Promise!Spec
=============================================================================
