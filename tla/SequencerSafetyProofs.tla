----------------------- MODULE SequencerSafetyProofs -----------------------
(***************************************************************************)
(* What the sequencer's replica, its tables and its answers have to do     *)
(* with each other, for every set of channels, addresses, request slots    *)
(* and payments.  Each theorem names the faults it tolerates.              *)
(***************************************************************************)
EXTENDS SequencerProofs, ChannelDataProofs

\* Saving the entries of a list in order keeps the rows those of a listing.
LEMMA UpsertRows ==
    ASSUME NEW t, Listing(t), NEW n, Listing(n), Outgrows(n, t),
           NEW i \in DOMAIN n, i <= Len(t) + 1,
           \A j \in 1 .. i - 1 : t[j] = n[j]
    PROVE  \E u : /\ Listing(u) /\ Range(u) = Upsert(Range(t), n[i])
                  /\ Outgrows(n, u) /\ Outgrows(u, t)
                  /\ i <= Len(u) /\ \A j \in 1 .. i : u[j] = n[j]
<1>1. /\ t \in Seq(RecipientBalance) /\ Len(t) \in Nat /\ DOMAIN t = 1 .. Len(t)
      /\ n \in Seq(RecipientBalance) /\ Len(n) \in Nat /\ DOMAIN n = 1 .. Len(n)
      /\ n[i] \in RecipientBalance /\ n[i].pos = i - 1 /\ i \in Nat /\ i > 0
  BY ListingEntry DEF Listing
<1>2. \A j \in DOMAIN t : j \in DOMAIN n /\ n[j].addr = t[j].addr /\ t[j].bal <= n[j].bal
  BY DEF Outgrows
<1>3. \A j \in DOMAIN n : n[j].bal <= n[j].bal
  BY <1>1, ListingEntry
<1>4. CASE i <= Len(t)
  <2> DEFINE u == [t EXCEPT ![i] = n[i]]
  <2>1. /\ u \in Seq(RecipientBalance) /\ Len(u) = Len(t) /\ DOMAIN u = DOMAIN t
        /\ u[i] = n[i] /\ \A j \in DOMAIN t : j # i => u[j] = t[j]
    BY <1>1, <1>4
  <2> HIDE DEF u
  <2>2. i \in DOMAIN t /\ t[i].addr = n[i].addr
    BY <1>1, <1>2, <1>4
  <2>3. \A j \in DOMAIN u : u[j].addr = t[j].addr /\ u[j].pos = j - 1
    BY <1>1, <2>1, <2>2 DEF Listing
  <2>4. Listing(u)
    BY <2>1, <2>3 DEF Listing
  <2>5. Outgrows(n, u)
    BY <1>2, <1>3, <2>1 DEF Outgrows
  <2>6. Outgrows(u, t)
    <3>1. \A j \in DOMAIN t : t[j].bal <= t[j].bal
      BY <1>1, ListingEntry
    <3> QED BY <1>2, <2>1, <2>2, <2>3, <3>1 DEF Outgrows
  <2>7. Range(u) = Upsert(Range(t), n[i])
    <3>1. \A j \in DOMAIN t : t[j].addr = n[i].addr => j = i
      BY <2>2 DEF Listing
    <3> QED BY <2>1, <2>2, <3>1 DEF Upsert, Range
  <2>8. \A j \in 1 .. i : u[j] = n[j]
    BY <1>1, <1>4, <2>1
  <2> QED BY <1>4, <2>1, <2>4, <2>5, <2>6, <2>7, <2>8
<1>5. CASE i = Len(t) + 1
  <2> DEFINE u == Append(t, n[i])
  <2>1. /\ u \in Seq(RecipientBalance) /\ Len(u) = i /\ DOMAIN u = 1 .. i
        /\ u[i] = n[i] /\ \A j \in DOMAIN t : u[j] = t[j]
    BY <1>1, <1>5
  <2> HIDE DEF u
  <2>2. \A j \in DOMAIN u : j \in DOMAIN n /\ u[j] = n[j]
    BY <1>1, <1>5, <2>1
  <2>3. Listing(u)
    BY <2>1, <2>2 DEF Listing
  <2>4. Outgrows(n, u)
    BY <1>3, <2>2 DEF Outgrows
  <2>5. Outgrows(u, t)
    <3>1. \A j \in DOMAIN t : j \in DOMAIN u
      BY <1>1, <1>5, <2>1
    <3> QED BY <1>2, <2>2, <3>1 DEF Outgrows
  <2>6. Range(u) = Upsert(Range(t), n[i])
    <3>1. \A j \in DOMAIN t : t[j].addr # n[i].addr
      <4>1. \A j \in DOMAIN t : j # i
        BY <1>1, <1>5
      <4> QED BY <1>2, <4>1 DEF Listing
    <3>2. \A j \in DOMAIN u : j \in DOMAIN t \/ j = i
      BY <1>1, <1>5, <2>1
    <3>3. DOMAIN t \subseteq DOMAIN u /\ i \in DOMAIN u
      BY <1>1, <1>5, <2>1
    <3> QED BY <2>1, <3>1, <3>2, <3>3 DEF Upsert, Range
  <2>7. i <= Len(u)
    BY <1>1, <2>1
  <2>8. \A j \in 1 .. i : u[j] = n[j]
    BY <2>1, <2>2
  <2> QED BY <2>3, <2>4, <2>5, <2>6, <2>7, <2>8
<1> QED BY <1>1, <1>4, <1>5

\* ORDER BY position reads back the listing whose rows the table holds.
LEMMA RowsOfListing ==
    ASSUME NEW t, Listing(t), NEW r \in OrderedByPosition(Range(t))
    PROVE  r = t
<1> DEFINE n == Len(t)
<1>1. n \in Nat /\ DOMAIN t = 1 .. n /\ t = [i \in 1 .. n |-> t[i]]
      /\ \A i \in 1 .. n : t[i].pos = i - 1
  BY ListingEntry DEF Listing
<1>2. Cardinality(1 .. n) = n /\ IsFiniteSet(1 .. n)
  <2> HIDE DEF n
  <2>1. n \in Int /\ 1 \in Int /\ n >= 0
    BY <1>1
  <2>2. /\ IsFiniteSet(1 .. n)
        /\ Cardinality(1 .. n) = IF 1 > n THEN 0 ELSE n - 1 + 1
    BY <2>1, FS_Interval
  <2> QED BY <2>1, <2>2
<1>3. Cardinality(Range(t)) = n
  <2>1. t \in Bijection(1 .. n, Range(t))
    <3> HIDE DEF n
    <3> QED BY <1>1 DEF Bijection, Injection, Surjection, IsInjective, Range
  <2>2. ExistsBijection(1 .. n, Range(t))
    BY <2>1 DEF ExistsBijection
  <2> QED BY <1>2, <2>2, FS_Bijection
<1> HIDE DEF n
<1>4. /\ r \in [1 .. n -> Range(t)]
      /\ \A row \in Range(t) : \E i \in 1 .. n : r[i] = row
      /\ \A i, j \in 1 .. n : i < j => r[i].pos <= r[j].pos
  BY <1>3 DEF OrderedByPosition
<1>5. \A i, j \in 1 .. n : r[i] = r[j] => i = j
  <2>1. r \in Surjection(1 .. n, Range(t))
    BY <1>4 DEF Surjection
  <2>2. r \in Injection(1 .. n, Range(t))
    BY <1>2, <1>3, <2>1, FS_SurjSameCardinalityImpliesInj
  <2> QED BY <1>4, <2>2 DEF Injection, IsInjective
<1>6. \A i \in 1 .. n : \E k \in 1 .. n : r[i] = t[k]
  BY <1>1, <1>4 DEF Range
<1>7. \A k \in 1 .. n : \E i \in 1 .. n : r[i] = t[k]
  BY <1>1, <1>4 DEF Range
<1> DEFINE Bad == {i \in 1 .. n : r[i] # t[i]}
<1>8. Bad = {}
  <2> SUFFICES ASSUME Bad # {} PROVE FALSE
    OBVIOUS
  <2>1. PICK i \in Bad : \A j \in Bad : i <= j
    BY <1>1, FirstIndex
  <2>2. i \in 1 .. n /\ r[i] # t[i] /\ \A j \in 1 .. n : j < i => r[j] = t[j]
    BY <1>1, <2>1
  <2> HIDE DEF Bad
  <2>3. PICK k \in 1 .. n : r[i] = t[k]
    BY <1>6, <2>2
  <2>4. k > i
    <3>1. k # i
      BY <2>2, <2>3
    <3>2. CASE k < i
      <4>1. r[k] = r[i]
        BY <2>2, <2>3, <3>2
      <4> QED BY <1>5, <2>2, <3>1, <4>1
    <3> QED BY <1>1, <2>2, <3>1, <3>2
  <2>5. PICK j \in 1 .. n : r[j] = t[i]
    BY <1>7, <2>2
  <2>6. j > i
    <3>1. j # i
      BY <2>2, <2>5
    <3>2. CASE j < i
      <4>1. t[j] = t[i]
        BY <2>2, <2>5, <3>2
      <4> QED BY <1>1, <2>2, <3>1, <4>1
    <3> QED BY <1>1, <2>2, <3>1, <3>2
  <2>7. r[i].pos <= r[j].pos
    BY <1>4, <2>2, <2>6
  <2>8. r[i].pos = k - 1 /\ r[j].pos = i - 1
    BY <1>1, <2>2, <2>3, <2>5
  <2> QED BY <1>1, <2>2, <2>4, <2>7, <2>8
<1>9. r = [i \in 1 .. n |-> r[i]]
  BY <1>4
<1> QED BY <1>1, <1>8, <1>9
-----------------------------------------------------------------------------
(***************************************************************************)
(* The tables lag behind the replica, but in one way only: their rows are  *)
(* those of a listing which the replica outgrows, and a handler that is    *)
(* writing rows has brought the first of them up to the replica.  This     *)
(* needs every channel to be seeded once, which takes one process that     *)
(* sets channels up, and no crash that makes a channel known again which   *)
(* that process was told is missing: after an aborted seed has left its    *)
(* row behind, a crash would.                                              *)
(***************************************************************************)
OneSetup == \A k, l \in Setups : k = l
CrashesOrAborts == OneSetup /\ ~({"crash", "abort"} \subseteq Faults)

Listed(c) == IF channels[c] = None THEN <<>> ELSE channels[c].recipients

LockExclusive ==
    \A p, q \in Requests :
        pc[p] \in {"save", "rows"} /\ pc[q] \in {"save", "rows", "rpc"} => p = q

SeedsOnce ==
    /\ \A p \in Requests :
        /\ pc[p] \in {"seed", "insert"} => channels[job[p].chan] = None
        /\ pc[p] = "insert" => dbChannels[job[p].chan] # None
    /\ \A p, q \in Requests :
        /\ pc[p] \in {"seed", "insert"} /\ pc[q] \in {"seed", "insert"}
        /\ job[p].chan = job[q].chan
        => p = q

\* Who was told a channel is missing is right about it until it seeds it.
MissingUnseeded ==
    \A c \in Channels : missing[c] # {} =>
        /\ channels[c] = None
        /\ \A p \in Requests : pc[p] \in {"seed", "insert"} => job[p].chan # c
        /\ "abort" \notin Faults => dbChannels[c] = None
SavedIsKnown ==
    "abort" \notin Faults =>
        \A c \in Channels : channels[c] = None /\ dbChannels[c] # None =>
            \E p \in Requests : pc[p] = "insert" /\ job[p].chan = c

KnownIsStored == \A c \in Channels : channels[c] # None => dbChannels[c] # None

WritersInOrder ==
    \A p \in Requests :
        /\ pc[p] \in {"settle", "save"} => job[p].next = 1
        /\ pc[p] = "rows" => dbChannels[job[p].chan] = RowOf(channels[job[p].chan])

ReplicaListed ==
    \A c \in Channels : channels[c] # None =>
        /\ Listing(channels[c].recipients)
        /\ Total(Content(channels[c].recipients)) <= Balance[c]

\* t is the listing the rows of c hold.
StoredAs(c, t) ==
    /\ Listing(t) /\ Range(t) = dbRecipients[c] /\ Outgrows(Listed(c), t)
    /\ \A p \in Requests : pc[p] = "rows" /\ job[p].chan = c =>
        /\ job[p].next <= Len(t) + 1
        /\ \A j \in 1 .. job[p].next - 1 : t[j] = channels[c].recipients[j]
RowsLag == \A c \in Channels : \E t : StoredAs(c, t)

StoreInv ==
    /\ TypeInv
    /\ LockExclusive /\ SeedsOnce /\ MissingUnseeded /\ SavedIsKnown /\ KnownIsStored
    /\ WritersInOrder /\ ReplicaListed /\ RowsLag

LEMMA InitStoreInv == Init => StoreInv
<1> SUFFICES ASSUME Init PROVE StoreInv
  OBVIOUS
<1>1. TypeInv
  BY InitTypeInv
<1>2. /\ LockExclusive /\ SeedsOnce /\ MissingUnseeded /\ SavedIsKnown /\ KnownIsStored
      /\ WritersInOrder /\ ReplicaListed
  BY DEF Init, LockExclusive, SeedsOnce, MissingUnseeded, SavedIsKnown, KnownIsStored,
         WritersInOrder, ReplicaListed
<1>3. ASSUME NEW c \in Channels PROVE StoredAs(c, <<>>)
  BY EmptyListing DEF Init, StoredAs, Range, Listed
<1> QED BY <1>1, <1>2, <1>3 DEF StoreInv, RowsLag

(***************************************************************************)
(* Most steps leave the replica and the tables alone and do at most one    *)
(* thing to the handlers: end one, or start a settle.                      *)
(***************************************************************************)
LEMMA QuietStep ==
    ASSUME StoreInv, TypeInv', UNCHANGED <<channels, dbChannels, dbRecipients, missing>>,
           \A q \in Requests :
               \/ pc'[q] = pc[q] /\ job'[q] = job[q]
               \/ pc'[q] = "idle"
               \/ pc'[q] = "settle" /\ job'[q].next = 1,
           \/ "abort" \in Faults
           \/ \A q \in Requests : pc[q] = "insert" => pc'[q] = pc[q] /\ job'[q] = job[q]
    PROVE  StoreInv'
<1>1. /\ LockExclusive' /\ SeedsOnce' /\ KnownIsStored' /\ WritersInOrder' /\ ReplicaListed'
      /\ MissingUnseeded'
  BY DEF StoreInv, LockExclusive, SeedsOnce, KnownIsStored, WritersInOrder, ReplicaListed,
         MissingUnseeded, RowOf
<1>4. SavedIsKnown'
  BY DEF StoreInv, SavedIsKnown
<1>2. ASSUME NEW c \in Channels PROVE \E t : StoredAs(c, t)'
  <2>1. PICK t : StoredAs(c, t)
    BY DEF StoreInv, RowsLag
  <2>2. StoredAs(c, t)'
    BY <2>1 DEF StoredAs, Listed
  <2> QED BY <2>2
<1>3. RowsLag'
  BY <1>2 DEF RowsLag
<1> QED BY <1>1, <1>3, <1>4 DEF StoreInv

\* A 404 is for a channel without an entry, a seed in flight or a saved row.
LEMMA LookupStore ==
    ASSUME StoreInv, TypeInv', OneSetup,
           NEW k \in Setups, NEW c \in Channels, Lookup(k, c)
    PROVE  StoreInv'
<1>1. /\ channels[c] = None /\ ~Seeding(k, c)
      /\ UNCHANGED <<channels, dbChannels, dbRecipients, pc, job>>
      /\ \A e \in Channels : e # c => missing'[e] = missing[e]
  BY DEF Lookup, db, StoreInv, TypeInv, TypeOK
<1>2. \A p \in Requests : pc[p] \in {"seed", "insert"} => job[p].chan # c
  BY <1>1 DEF OneSetup, Seeding, StoreInv, TypeInv, TypeOK
<1>3. "abort" \notin Faults => dbChannels[c] = None
  BY <1>1, <1>2 DEF StoreInv, SavedIsKnown
<1>4. MissingUnseeded'
  BY <1>1, <1>2, <1>3 DEF StoreInv, MissingUnseeded
<1>5. /\ LockExclusive' /\ SeedsOnce' /\ SavedIsKnown' /\ KnownIsStored' /\ WritersInOrder'
      /\ ReplicaListed'
  BY <1>1 DEF StoreInv, LockExclusive, SeedsOnce, SavedIsKnown, KnownIsStored,
              WritersInOrder, ReplicaListed, RowOf
<1>6. ASSUME NEW e \in Channels PROVE \E t : StoredAs(e, t)'
  <2>1. PICK t : StoredAs(e, t)
    BY DEF StoreInv, RowsLag
  <2>2. StoredAs(e, t)'
    BY <1>1, <2>1 DEF StoredAs, Listed
  <2> QED BY <2>2
<1> QED BY <1>4, <1>5, <1>6 DEF StoreInv, RowsLag

LEMMA SeedStartStore ==
    ASSUME StoreInv, TypeInv', OneSetup,
           NEW p \in Requests, NEW c \in Channels, SeedStart(p, c)
    PROVE  StoreInv'
<1>1. PICK k \in missing[c] :
        /\ missing' = [missing EXCEPT ![c] = @ \ {k}]
        /\ Start(p, "seed", c, k)
        /\ UNCHANGED <<channels, db, signed, now, outputs>>
  BY DEF SeedStart
<1>2. /\ pc[p] = "idle" /\ pc'[p] = "seed" /\ job'[p].chan = c
      /\ \A q \in Requests : q # p => pc'[q] = pc[q] /\ job'[q] = job[q]
      /\ UNCHANGED <<channels, dbChannels, dbRecipients>>
      /\ missing'[c] = missing[c] \ {k}
      /\ \A e \in Channels : e # c => missing'[e] = missing[e]
      /\ missing[c] \subseteq Setups
  BY <1>1 DEF Start, Idle, db, StoreInv, TypeInv, TypeOK
<1>3. /\ channels[c] = None
      /\ \A q \in Requests : pc[q] \in {"seed", "insert"} => job[q].chan # c
  BY <1>1 DEF StoreInv, MissingUnseeded
<1>4. missing'[c] = {}
  BY <1>1, <1>2 DEF OneSetup
<1>5. SeedsOnce' /\ MissingUnseeded'
  BY <1>2, <1>3, <1>4 DEF StoreInv, SeedsOnce, MissingUnseeded
<1>6. SavedIsKnown'
  BY <1>2 DEF StoreInv, SavedIsKnown
<1>7. LockExclusive' /\ KnownIsStored' /\ WritersInOrder' /\ ReplicaListed'
  BY <1>2 DEF StoreInv, LockExclusive, KnownIsStored, WritersInOrder, ReplicaListed, RowOf
<1>8. ASSUME NEW e \in Channels PROVE \E t : StoredAs(e, t)'
  <2>1. PICK t : StoredAs(e, t)
    BY DEF StoreInv, RowsLag
  <2>2. StoredAs(e, t)'
    BY <1>2, <2>1 DEF StoredAs, Listed
  <2> QED BY <2>2
<1> QED BY <1>5, <1>6, <1>7, <1>8 DEF StoreInv, RowsLag

LEMMA FinalizeStartStore ==
    ASSUME StoreInv, TypeInv', NEW p \in Requests, NEW c \in Channels, FinalizeStart(p, c)
    PROVE  StoreInv'
<1>1. /\ ReadLockFree /\ UNCHANGED <<channels, dbChannels, dbRecipients, missing>>
      /\ pc[p] = "idle" /\ pc'[p] = "rpc"
      /\ \A q \in Requests : q # p => pc'[q] = pc[q] /\ job'[q] = job[q]
  BY DEF FinalizeStart, Start, Idle, db, clients, StoreInv, TypeInv, TypeOK
<1>2. LockExclusive'
  BY <1>1 DEF ReadLockFree, LockExclusive
<1>3. /\ SeedsOnce' /\ MissingUnseeded' /\ SavedIsKnown' /\ KnownIsStored' /\ WritersInOrder'
      /\ ReplicaListed'
  BY <1>1 DEF StoreInv, SeedsOnce, MissingUnseeded, SavedIsKnown, KnownIsStored,
              WritersInOrder, ReplicaListed, RowOf
<1>4. ASSUME NEW e \in Channels PROVE \E t : StoredAs(e, t)'
  <2>1. PICK t : StoredAs(e, t)
    BY DEF StoreInv, RowsLag
  <2>2. StoredAs(e, t)'
    BY <1>1, <2>1 DEF StoredAs, Listed
  <2> QED BY <2>2
<1> QED BY <1>2, <1>3, <1>4 DEF StoreInv, RowsLag

LEMMA SeedSaveStore ==
    ASSUME StoreInv, TypeInv', NEW p \in Requests, SeedSave(p)
    PROVE  StoreInv'
<1> DEFINE c == job[p].chan
<1>1. /\ pc[p] = "seed" /\ c \in Channels /\ channels[c] = None
      /\ UNCHANGED <<channels, dbRecipients, job, missing>>
      /\ dbChannels'[c] = RowOf(Fresh)
      /\ \A e \in Channels : e # c => dbChannels'[e] = dbChannels[e]
      /\ pc'[p] = "insert"
      /\ \A q \in Requests : q # p => pc'[q] = pc[q]
  BY JobType DEF SeedSave, Goto, clients, StoreInv, SeedsOnce, TypeInv, TypeOK
<1>2. RowOf(Fresh) # None
  BY FreshType, NoneAssumption
<1> HIDE DEF c
<1>3. SeedsOnce' /\ MissingUnseeded' /\ SavedIsKnown'
  <2>1. \A q \in Requests : pc[q] \in {"seed", "insert"} => job[q].chan \in Channels
    BY JobType DEF StoreInv, TypeInv
  <2>2. c = job[p].chan
    BY DEF c
  <2>3. SeedsOnce'
    BY <1>1, <1>2, <2>1, <2>2 DEF StoreInv, SeedsOnce
  <2>4. MissingUnseeded'
    BY <1>1, <2>2 DEF StoreInv, MissingUnseeded
  <2>5. SavedIsKnown'
    BY <1>1, <2>2 DEF StoreInv, SavedIsKnown
  <2> QED BY <2>3, <2>4, <2>5
<1>4. WritersInOrder'
  <2>1. \A q \in Requests : pc[q] = "rows" =>
            job[q].chan \in Channels /\ channels[job[q].chan] # None
    BY JobType DEF StoreInv, TypeInv, BusyOnKnown
  <2> QED BY <1>1, <2>1 DEF StoreInv, WritersInOrder, RowOf
<1>5. LockExclusive' /\ KnownIsStored' /\ ReplicaListed'
  BY <1>1, <1>2 DEF StoreInv, LockExclusive, KnownIsStored, ReplicaListed
<1>6. ASSUME NEW e \in Channels PROVE \E t : StoredAs(e, t)'
  <2>1. PICK t : StoredAs(e, t)
    BY DEF StoreInv, RowsLag
  <2>2. StoredAs(e, t)'
    BY <1>1, <2>1 DEF StoredAs, Listed
  <2> QED BY <2>2
<1> QED BY <1>3, <1>4, <1>5, <1>6 DEF StoreInv, RowsLag

LEMMA SeedInsertStore ==
    ASSUME StoreInv, TypeInv', NEW p \in Requests, SeedInsert(p)
    PROVE  StoreInv'
<1> DEFINE c == job[p].chan
<1>1. /\ pc[p] = "insert" /\ c \in Channels /\ channels[c] = None /\ dbChannels[c] # None
      /\ WriteLockFree
      /\ UNCHANGED <<dbChannels, dbRecipients, missing>>
      /\ channels'[c] = Fresh
      /\ \A e \in Channels : e # c => channels'[e] = channels[e]
      /\ pc'[p] = "idle"
      /\ \A q \in Requests : q # p => pc'[q] = pc[q] /\ job'[q] = job[q]
  BY JobType DEF SeedInsert, Finish, db, clients, StoreInv, SeedsOnce, TypeInv, TypeOK
<1>2. c = job[p].chan
  OBVIOUS
<1> HIDE DEF c
<1>3. SeedsOnce' /\ MissingUnseeded' /\ SavedIsKnown'
  <2>1. \A q \in Requests : pc[q] \in {"seed", "insert"} => job[q].chan \in Channels
    BY JobType DEF StoreInv, TypeInv
  <2>2. SeedsOnce'
    BY <1>1, <1>2, <2>1 DEF StoreInv, SeedsOnce
  <2>3. MissingUnseeded'
    BY <1>1, <1>2 DEF StoreInv, MissingUnseeded
  <2>4. Fresh # None
    BY FreshType, NoneAssumption
  <2>5. SavedIsKnown'
    BY <1>1, <1>2, <2>4 DEF StoreInv, SavedIsKnown
  <2> QED BY <2>2, <2>3, <2>5
<1>4. LockExclusive' /\ WritersInOrder'
  BY <1>1 DEF StoreInv, LockExclusive, WritersInOrder, WriteLockFree
<1>5. KnownIsStored'
  BY <1>1 DEF StoreInv, KnownIsStored
<1>6. ReplicaListed'
  <2>1. Fresh.recipients = <<>>
    BY DEF Fresh
  <2>2. Total(Content(<<>>)) = 0
    <3> DEFINE f == [i \in DOMAIN Content(<<>>) |-> Content(<<>>)[i][2]]
    <3>1. DOMAIN f = {} /\ f = [i \in DOMAIN f |-> f[i]]
      BY DEF Content
    <3>2. SumFunction(f) = 0
      BY <3>1, SumEmpty
    <3> QED BY <3>2 DEF Total
  <2>3. Balance[c] \in Nat
    BY <1>1, BalanceAssumption
  <2> QED BY <1>1, <2>1, <2>2, <2>3, EmptyListing DEF StoreInv, ReplicaListed
<1>7. ASSUME NEW e \in Channels PROVE \E t : StoredAs(e, t)'
  <2>1. PICK t : StoredAs(e, t)
    BY DEF StoreInv, RowsLag
  <2>2. Listed(e)' = Listed(e)
    <3>1. Fresh # None /\ Fresh.recipients = <<>>
      BY FreshType, NoneAssumption DEF Fresh
    <3> QED BY <1>1, <3>1 DEF Listed
  <2>3. \A q \in Requests : pc'[q] # "rows"
    BY <1>1 DEF WriteLockFree
  <2>4. StoredAs(e, t)'
    BY <1>1, <2>1, <2>2, <2>3 DEF StoredAs
  <2> QED BY <2>4
<1> QED BY <1>3, <1>4, <1>5, <1>6, <1>7 DEF StoreInv, RowsLag

\* What settle does to the replica: one payment more, within capacity.
LEMMA AppliedListed ==
    ASSUME StoreInv, NEW p \in Requests, SettleApply(p)
    PROVE  LET m == job[p].msg
               c == job[p].chan
               new == NextRecipients(m)
           IN  /\ m \in PayRequest /\ m.chan = c /\ c \in Channels
               /\ channels[c] \in ChannelState /\ channels[c] # None
               /\ m.seq = channels[c].seq + 1
               /\ channels' = [channels EXCEPT ![c] =
                    [seq |-> m.seq, ts |-> m.ts, sig |-> m.sig,
                     cosig |-> Digest(c, m.seq, m.ts, Content(new)),
                     recipients |-> new]]
               /\ Listing(new) /\ Outgrows(new, channels[c].recipients)
               /\ Total(Content(new)) <= Balance[c]
<1> DEFINE m == job[p].msg
           c == job[p].chan
<1>1. m \in PayRequest /\ m.chan = c /\ c \in Channels /\ m.pay \in Payment
  BY JobType DEF SettleApply, StoreInv, TypeInv, TypeOK, PayRequest
<1>2. channels[c] # None /\ Extends(m)
  BY DEF SettleApply
<1>3. channels[c] \in ChannelState /\ Listing(channels[c].recipients)
  BY <1>1, <1>2 DEF StoreInv, TypeInv, TypeOK, ReplicaListed
<1>4. channels' = [channels EXCEPT ![m.chan] =
        [seq |-> m.seq, ts |-> m.ts, sig |-> m.sig,
         cosig |-> Digest(m.chan, m.seq, m.ts, Content(NextRecipients(m))),
         recipients |-> NextRecipients(m)]]
  BY DEF SettleApply
<1>5. Listing(NextRecipients(m)) /\ Outgrows(NextRecipients(m), channels[c].recipients)
  BY <1>1, <1>3, ApplyPaymentGrows DEF NextRecipients
<1>6. m.seq = channels[c].seq + 1 /\ Total(Content(NextRecipients(m))) <= Balance[c]
  BY <1>1, <1>2 DEF Extends, Acceptable
<1> HIDE DEF m, c
<1>7. channels' = [channels EXCEPT ![c] =
        [seq |-> m.seq, ts |-> m.ts, sig |-> m.sig,
         cosig |-> Digest(c, m.seq, m.ts, Content(NextRecipients(m))),
         recipients |-> NextRecipients(m)]]
  BY <1>1, <1>4
<1> QED BY <1>1, <1>2, <1>3, <1>5, <1>6, <1>7 DEF m, c

LEMMA SettleApplyStore ==
    ASSUME StoreInv, TypeInv', NEW p \in Requests, SettleApply(p)
    PROVE  StoreInv'
<1> DEFINE m == job[p].msg
           c == job[p].chan
           new == NextRecipients(m)
           state == [seq |-> m.seq, ts |-> m.ts, sig |-> m.sig,
                     cosig |-> Digest(c, m.seq, m.ts, Content(new)),
                     recipients |-> new]
<1>1. /\ c \in Channels /\ channels[c] # None /\ channels[c] \in ChannelState
      /\ Listing(new) /\ Outgrows(new, channels[c].recipients)
      /\ Total(Content(new)) <= Balance[c]
  BY AppliedListed
<1>2. channels' = [channels EXCEPT ![c] = state]
  BY AppliedListed
<1>3. state.recipients = new
  OBVIOUS
<1> HIDE DEF state
<1>4. /\ channels'[c] = state /\ \A e \in Channels : e # c => channels'[e] = channels[e]
      /\ pc[p] = "settle" /\ WriteLockFree
      /\ UNCHANGED <<dbChannels, dbRecipients, job, missing>>
      /\ pc'[p] = "save" /\ \A q \in Requests : q # p => pc'[q] = pc[q]
  BY <1>1, <1>2 DEF SettleApply, Goto, db, clients, StoreInv, TypeInv, TypeOK
<1>5. state # None
  <2>1. pc'[p] = "save" /\ job'[p].chan = c /\ BusyOnKnown'
    BY <1>4 DEF TypeInv
  <2>2. channels'[c] # None
    BY <2>1 DEF BusyOnKnown
  <2> QED BY <1>4, <2>2
<1> HIDE DEF new
<1>6. LockExclusive'
  BY <1>4 DEF LockExclusive, WriteLockFree
<1>7. SeedsOnce' /\ MissingUnseeded' /\ SavedIsKnown'
  <2>1. \A q \in Requests : pc[q] \in {"seed", "insert"} =>
            job[q].chan \in Channels /\ job[q].chan # c
    BY <1>1, JobType DEF StoreInv, TypeInv, SeedsOnce
  <2>2. missing[c] = {}
    BY <1>1 DEF StoreInv, MissingUnseeded
  <2> HIDE DEF c
  <2>3. SeedsOnce'
    BY <1>4, <2>1 DEF StoreInv, SeedsOnce
  <2>4. MissingUnseeded'
    BY <1>4, <2>2 DEF StoreInv, MissingUnseeded
  <2>5. SavedIsKnown'
    BY <1>4, <1>5 DEF StoreInv, SavedIsKnown
  <2> QED BY <2>3, <2>4, <2>5
<1>8. KnownIsStored' /\ ReplicaListed'
  BY <1>1, <1>3, <1>4 DEF StoreInv, KnownIsStored, ReplicaListed
<1>9. WritersInOrder'
  BY <1>4 DEF StoreInv, WritersInOrder, WriteLockFree
<1>10. ASSUME NEW e \in Channels PROVE \E t : StoredAs(e, t)'
  <2>1. PICK t : StoredAs(e, t)
    BY DEF StoreInv, RowsLag
  <2>2. \A q \in Requests : pc'[q] # "rows"
    BY <1>4 DEF WriteLockFree
  <2>3. Outgrows(Listed(e)', t)
    <3>1. CASE e = c
      <4>1. Listed(e)' = new /\ Listed(e) = channels[c].recipients
        BY <1>1, <1>3, <1>4, <1>5, <3>1 DEF Listed
      <4>2. /\ new \in Seq(RecipientBalance) /\ t \in Seq(RecipientBalance)
            /\ channels[c].recipients \in Seq(RecipientBalance)
        BY <1>1, <2>1 DEF StoredAs, Listing, ChannelState
      <4>3. Outgrows(channels[c].recipients, t)
        BY <2>1, <4>1 DEF StoredAs
      <4>4. Outgrows(new, t)
        BY <1>1, <4>2, <4>3, OutgrowsTransitive
      <4> QED BY <4>1, <4>4
    <3>2. CASE e # c
      BY <1>4, <2>1, <3>2 DEF StoredAs, Listed
    <3> QED BY <3>1, <3>2
  <2>4. StoredAs(e, t)'
    BY <1>4, <2>1, <2>2, <2>3 DEF StoredAs
  <2> QED BY <2>4
<1> QED BY <1>6, <1>7, <1>8, <1>9, <1>10 DEF StoreInv, RowsLag

LEMMA SaveChannelRowStore ==
    ASSUME StoreInv, TypeInv', NEW p \in Requests, SaveChannelRow(p)
    PROVE  StoreInv'
<1> DEFINE c == job[p].chan
<1>1. /\ pc[p] = "save" /\ c \in Channels /\ channels[c] # None
      /\ channels[c] \in ChannelState /\ job[p].next = 1
      /\ UNCHANGED <<channels, dbRecipients, job, missing>>
      /\ dbChannels'[c] = RowOf(channels[c])
      /\ \A e \in Channels : e # c => dbChannels'[e] = dbChannels[e]
      /\ pc'[p] = "rows" /\ \A q \in Requests : q # p => pc'[q] = pc[q]
  BY JobType DEF SaveChannelRow, Goto, clients, StoreInv, TypeInv, TypeOK, BusyOnKnown,
                 WritersInOrder
<1>2. RowOf(channels[c]) # None
  BY <1>1, RowOfType, NoneAssumption
<1>3. c = job[p].chan
  OBVIOUS
<1> HIDE DEF c
<1>4. \A q \in Requests : q # p => pc[q] \notin {"save", "rows", "rpc"}
  BY <1>1 DEF StoreInv, LockExclusive
<1>5. LockExclusive' /\ WritersInOrder'
  BY <1>1, <1>3, <1>4 DEF StoreInv, LockExclusive, WritersInOrder
<1>6. SeedsOnce' /\ MissingUnseeded' /\ SavedIsKnown'
  <2>1. \A q \in Requests : pc[q] \in {"seed", "insert"} =>
            job[q].chan \in Channels /\ job[q].chan # c
    BY <1>1, JobType DEF StoreInv, TypeInv, SeedsOnce
  <2>2. SeedsOnce'
    BY <1>1, <2>1 DEF StoreInv, SeedsOnce
  <2>3. MissingUnseeded'
    BY <1>1 DEF StoreInv, MissingUnseeded
  <2>4. SavedIsKnown'
    BY <1>1 DEF StoreInv, SavedIsKnown
  <2> QED BY <2>2, <2>3, <2>4
<1>7. KnownIsStored' /\ ReplicaListed'
  BY <1>1, <1>2 DEF StoreInv, KnownIsStored, ReplicaListed
<1>8. ASSUME NEW e \in Channels PROVE \E t : StoredAs(e, t)'
  <2>1. PICK t : StoredAs(e, t)
    BY DEF StoreInv, RowsLag
  <2>2. Len(t) \in Nat
    BY <2>1, ListingEntry DEF StoredAs, Listing
  <2>3. ASSUME NEW q \in Requests, pc'[q] = "rows"
        PROVE  /\ job'[q].next <= Len(t) + 1
               /\ \A j \in 1 .. job'[q].next - 1 : t[j] = channels'[e].recipients[j]
    <3>1. q = p
      BY <1>1, <1>4, <2>3
    <3> QED BY <1>1, <2>2, <3>1
  <2>4. StoredAs(e, t)'
    BY <1>1, <2>1, <2>3 DEF StoredAs, Listed
  <2> QED BY <2>4
<1> QED BY <1>5, <1>6, <1>7, <1>8 DEF StoreInv, RowsLag

LEMMA SaveRecipientRowStore ==
    ASSUME StoreInv, TypeInv', NEW p \in Requests, SaveRecipientRow(p)
    PROVE  StoreInv'
<1> DEFINE c == job[p].chan
           i == job[p].next
           list == channels[c].recipients
<1>1. /\ pc[p] = "rows" /\ c \in Channels /\ channels[c] # None
      /\ channels[c] \in ChannelState /\ i \in Nat /\ i # 0 /\ i <= Len(list)
      /\ UNCHANGED <<channels, dbChannels, pc, missing>>
      /\ dbRecipients'[c] = Upsert(dbRecipients[c], list[i])
      /\ \A e \in Channels : e # c => dbRecipients'[e] = dbRecipients[e]
      /\ job'[p].next = i + 1 /\ job'[p].chan = c
      /\ \A q \in Requests : q # p => job'[q] = job[q]
  BY JobType DEF SaveRecipientRow, clients, StoreInv, TypeInv, TypeOK, BusyOnKnown, Job
<1>2. Listing(list) /\ i \in DOMAIN list
  BY <1>1, ListingEntry DEF StoreInv, ReplicaListed, ChannelState
<1>3. c = job[p].chan /\ i = job[p].next /\ list = channels[c].recipients
  OBVIOUS
<1> HIDE DEF c, i, list
<1>4. \A q \in Requests : q # p => pc[q] \notin {"save", "rows", "rpc"}
  BY <1>1 DEF StoreInv, LockExclusive
<1>5. LockExclusive'
  BY <1>1 DEF StoreInv, LockExclusive
<1>6. WritersInOrder'
  BY <1>1, <1>3, <1>4 DEF StoreInv, WritersInOrder
<1>7. SeedsOnce' /\ MissingUnseeded' /\ SavedIsKnown'
  <2>1. \A q \in Requests : pc[q] \in {"seed", "insert"} => q # p
    BY <1>1
  <2> QED BY <1>1, <2>1 DEF StoreInv, SeedsOnce, MissingUnseeded, SavedIsKnown
<1>8. KnownIsStored' /\ ReplicaListed'
  BY <1>1 DEF StoreInv, KnownIsStored, ReplicaListed
<1>9. ASSUME NEW e \in Channels PROVE \E t : StoredAs(e, t)'
  <2>1. PICK t : StoredAs(e, t)
    BY DEF StoreInv, RowsLag
  <2>2. CASE e = c
    <3>1. /\ Listing(t) /\ Range(t) = dbRecipients[c] /\ Outgrows(list, t)
          /\ i <= Len(t) + 1 /\ \A j \in 1 .. i - 1 : t[j] = list[j]
      BY <1>1, <1>3, <2>1, <2>2 DEF StoredAs, Listed
    <3>2. PICK u : /\ Listing(u) /\ Range(u) = Upsert(Range(t), list[i])
                   /\ Outgrows(list, u) /\ Outgrows(u, t)
                   /\ i <= Len(u) /\ \A j \in 1 .. i : u[j] = list[j]
      BY <1>2, <3>1, UpsertRows
    <3>3. Range(u) = dbRecipients'[e]
      BY <1>1, <2>2, <3>1, <3>2
    <3>4. Listed(e)' = list
      BY <1>1, <1>3, <2>2 DEF Listed
    <3>5. Len(u) \in Nat
      BY <3>2, ListingEntry DEF Listing
    <3>6. ASSUME NEW q \in Requests, pc'[q] = "rows"
          PROVE  /\ job'[q].next <= Len(u) + 1
                 /\ \A j \in 1 .. job'[q].next - 1 : u[j] = channels'[e].recipients[j]
      <4>1. q = p
        BY <1>1, <1>4, <3>6
      <4>2. job'[q].next = i + 1 /\ channels'[e].recipients = list
        BY <1>1, <1>3, <2>2, <4>1
      <4> QED BY <1>1, <3>2, <3>5, <4>2
    <3>7. StoredAs(e, u)'
      BY <3>2, <3>3, <3>4, <3>6 DEF StoredAs
    <3> QED BY <3>7
  <2>3. CASE e # c
    <3>1. StoredAs(e, t)'
      BY <1>1, <1>3, <2>1, <2>3 DEF StoredAs, Listed
    <3> QED BY <3>1
  <2> QED BY <2>2, <2>3
<1> QED BY <1>5, <1>6, <1>7, <1>8, <1>9 DEF StoreInv, RowsLag

\* The state a restart reads from the row of c and the listing t.
DbState(c, t) ==
    [seq |-> dbChannels[c].seq, ts |-> dbChannels[c].ts,
     sig |-> dbChannels[c].sig, cosig |-> dbChannels[c].cosig, recipients |-> t]

LEMMA LoadedIsStored ==
    ASSUME StoreInv, NEW c \in Channels, NEW s \in Loaded(c), NEW t, StoredAs(c, t)
    PROVE  IF dbChannels[c] = None THEN s = None
           ELSE s = DbState(c, t) /\ s \in ChannelState /\ s # None /\ s.recipients = t
<1>1. CASE dbChannels[c] = None
  BY <1>1 DEF Loaded
<1>2. CASE dbChannels[c] # None
  <2>1. PICK r \in OrderedByPosition(dbRecipients[c]) :
          s = [seq |-> dbChannels[c].seq, ts |-> dbChannels[c].ts,
               sig |-> dbChannels[c].sig, cosig |-> dbChannels[c].cosig,
               recipients |-> r]
    BY <1>2 DEF Loaded
  <2>2. r = t
    BY <2>1, RowsOfListing DEF StoredAs
  <2>3. dbChannels[c] \in Row /\ t \in Seq(RecipientBalance)
    BY <1>2 DEF StoreInv, TypeInv, TypeOK, StoredAs, Listing
  <2>4. DbState(c, t) \in ChannelState
    BY <2>3 DEF DbState, Row, ChannelState
  <2>5. s = DbState(c, t) /\ s.recipients = t
    BY <2>1, <2>2 DEF DbState
  <2> QED BY <1>2, <2>4, <2>5, NoneAssumption
<1> QED BY <1>1, <1>2

LEMMA CrashStore ==
    ASSUME StoreInv, TypeInv', CrashesOrAborts, Crash
    PROVE  StoreInv'
<1>1. /\ \A c \in Channels : channels'[c] \in Loaded(c)
      /\ \A p \in Requests : pc'[p] = "idle"
      /\ UNCHANGED <<dbChannels, dbRecipients, missing>>
      /\ "abort" \notin Faults
  BY DEF Crash, db, clients, CrashesOrAborts
<1>2. /\ LockExclusive' /\ SeedsOnce' /\ MissingUnseeded' /\ WritersInOrder'
  BY <1>1 DEF LockExclusive, SeedsOnce, WritersInOrder, MissingUnseeded, StoreInv, Loaded
<1>6. SavedIsKnown'
  <2> SUFFICES ASSUME NEW c \in Channels, dbChannels[c] # None PROVE channels'[c] # None
    BY <1>1 DEF SavedIsKnown
  <2>1. PICK t : StoredAs(c, t)
    BY DEF StoreInv, RowsLag
  <2> QED BY <1>1, <2>1, LoadedIsStored
<1>3. KnownIsStored'
  BY <1>1 DEF KnownIsStored, Loaded
<1>4. ASSUME NEW c \in Channels
      PROVE  /\ \E t : StoredAs(c, t)'
             /\ channels'[c] # None =>
                    /\ Listing(channels'[c].recipients)
                    /\ Total(Content(channels'[c].recipients)) <= Balance[c]
  <2>1. PICK t : StoredAs(c, t)
    BY DEF StoreInv, RowsLag
  <2>2. Listing(t) /\ Outgrows(Listed(c), t) /\ Range(t) = dbRecipients[c]
    BY <2>1 DEF StoredAs
  <2>3. CASE dbChannels[c] = None
    <3>1. channels'[c] = None
      BY <1>1, <2>3 DEF Loaded
    <3>2. channels[c] = None
      BY <2>3 DEF StoreInv, KnownIsStored
    <3>3. Listed(c)' = Listed(c)
      BY <3>1, <3>2 DEF Listed
    <3>4. StoredAs(c, t)'
      BY <1>1, <2>2, <3>3 DEF StoredAs
    <3> QED BY <3>1, <3>4
  <2>4. CASE dbChannels[c] # None
    <3>1. channels'[c] # None /\ channels'[c].recipients = t
      BY <1>1, <2>1, <2>4, LoadedIsStored
    <3>2. Listed(c)' = t /\ Outgrows(t, t)
      BY <2>2, <3>1, OutgrowsItself DEF Listed, Listing
    <3>3. StoredAs(c, t)'
      BY <1>1, <2>2, <3>2 DEF StoredAs
    <3>4. Total(Content(t)) <= Balance[c]
      <4>1. Listing(Listed(c)) /\ Total(Content(Listed(c))) <= Balance[c]
        <5>1. CASE channels[c] = None
          <6>1. Listed(c) = <<>>
            BY <5>1 DEF Listed
          <6> DEFINE f == [i \in DOMAIN Content(<<>>) |-> Content(<<>>)[i][2]]
          <6>2. DOMAIN f = {} /\ f = [i \in DOMAIN f |-> f[i]]
            BY DEF Content
          <6>3. Total(Content(<<>>)) = 0
            BY <6>2, SumEmpty DEF Total
          <6> QED BY <6>1, <6>3, EmptyListing, BalanceAssumption
        <5>2. CASE channels[c] # None
          BY <5>2 DEF Listed, StoreInv, ReplicaListed
        <5> QED BY <5>1, <5>2
      <4>2. /\ Total(Content(t)) \in Nat /\ Total(Content(Listed(c))) \in Nat
            /\ Total(Content(t)) <= Total(Content(Listed(c)))
        BY <2>2, <4>1, OutgrowsTotal DEF Listing
      <4>3. Balance[c] \in Nat
        BY BalanceAssumption
      <4> QED BY <4>1, <4>2, <4>3
    <3> QED BY <2>2, <3>1, <3>3, <3>4
  <2> QED BY <2>3, <2>4
<1>5. ReplicaListed' /\ RowsLag'
  BY <1>4 DEF ReplicaListed, RowsLag
<1> QED BY <1>2, <1>3, <1>5, <1>6 DEF StoreInv

LEMMA NextStoreInv ==
    ASSUME CrashesOrAborts
    PROVE  StoreInv /\ [Next]_vars => StoreInv'
<1> SUFFICES ASSUME StoreInv, [Next]_vars PROVE StoreInv'
  OBVIOUS
<1>0. TypeInv' /\ TypeOK
  BY NextTypeInv DEF StoreInv, TypeInv
<1>1. ASSUME NEW c \in Channels, NEW pay \in Payments, NEW ts \in Timestamps,
             Sign(c, pay, ts)
      PROVE  StoreInv'
  BY <1>0, <1>1, QuietStep DEF Sign, db
<1>2. CASE Tick
  BY <1>0, <1>2, QuietStep DEF Tick, db
<1>3. ASSUME NEW p \in Requests, NEW c \in Channels, SeedStart(p, c)
      PROVE  StoreInv'
  BY <1>0, <1>3, SeedStartStore DEF CrashesOrAborts
<1>4. ASSUME NEW p \in Requests, NEW m \in signed, SettleStart(p, m)
      PROVE  StoreInv'
  BY <1>0, <1>4, QuietStep DEF SettleStart, Start, Idle, TypeOK, db, clients
<1>5. ASSUME NEW p \in Requests,
             SettleRefuse(p) \/ SettleReplay(p) \/ SettleReply(p) \/ FinalizeSend(p) \/ Abort(p)
      PROVE  StoreInv'
  <2>1. /\ UNCHANGED <<channels, dbChannels, dbRecipients, missing>> /\ Finish(p)
        /\ "abort" \in Faults \/ pc[p] # "insert"
    BY <1>5 DEF SettleRefuse, SettleReplay, SettleReply, FinalizeSend, Abort, db, clients
  <2> QED BY <1>0, <2>1, QuietStep DEF Finish, TypeOK
<1>6. ASSUME NEW p \in Requests, NEW c \in Channels, FinalizeStart(p, c)
      PROVE  StoreInv'
  BY <1>0, <1>6, FinalizeStartStore
<1>7. ASSUME NEW k \in Setups, NEW c \in Channels, Lookup(k, c)
      PROVE  StoreInv'
  BY <1>0, <1>7, LookupStore DEF CrashesOrAborts
<1>8. CASE UNCHANGED vars
  BY <1>0, <1>8, QuietStep DEF vars
<1> QED
  BY <1>0, <1>1, <1>2, <1>3, <1>4, <1>5, <1>6, <1>7, <1>8, SeedSaveStore, SeedInsertStore,
     SettleApplyStore, SaveChannelRowStore, SaveRecipientRowStore, CrashStore
  DEF Next, Seed, Settle, Save

(***************************************************************************)
(* The replica never owes more than the channel holds and never lists a    *)
(* recipient twice, even when a restart loads the rows of a write that was *)
(* cut short, as long as one process sets channels up and crashes do not   *)
(* come together with aborted handlers.                                    *)
(***************************************************************************)
THEOREM CapacityKept ==
    ASSUME CrashesOrAborts
    PROVE  Spec => []WithinCapacity
<1>1. Spec => []StoreInv
  BY InitStoreInv, NextStoreInv, PTL DEF Spec
<1>2. StoreInv => WithinCapacity
  BY DEF StoreInv, ReplicaListed, Listing, WithinCapacity
<1> QED BY <1>1, <1>2, PTL
-----------------------------------------------------------------------------
(***************************************************************************)
(* What was answered is kept.  A crash loads the tables, so as long as     *)
(* writes are not aborted the tables have to keep every answer as well as  *)
(* the replica does; once a write may be aborted the tables may stay       *)
(* behind for good, and only a sequencer that does not crash keeps its     *)
(* word.                                                                   *)
(***************************************************************************)
Answered == receipts \cup closings

ViewOf(c, s) ==
    [chan |-> c, seq |-> s.seq, ts |-> s.ts, sig |-> s.sig, cosig |-> s.cosig,
     data |-> Content(s.recipients)]

\* State s of channel c keeps every answer about c.
Keeps(c, s) ==
    \A r \in Answered : r.chan = c =>
        /\ r.seq <= s.seq
        /\ Outgrows(s.recipients, FromContent(r.data))
        /\ r.seq = s.seq => r = ViewOf(c, s)

AnsweredKnown ==
    \A r \in Answered : channels[r.chan] # None /\ Listing(FromContent(r.data))
ReplicaKeeps == \A c \in Channels : channels[c] # None => Keeps(c, channels[c])
AnsweredOrdered ==
    \A r, s \in Answered : r.chan = s.chan /\ r.seq <= s.seq =>
        /\ Outgrows(FromContent(s.data), FromContent(r.data))
        /\ r.seq = s.seq => r = s
WritesUnanswered ==
    \A p \in Requests : pc[p] \in {"save", "rows"} =>
        \A r \in Answered : r.chan = job[p].chan => r.seq < channels[job[p].chan].seq
SentSigned ==
    /\ \A p \in Requests : pc[p] = "rpc" =>
        View(job[p].chan).sig = Digest(job[p].chan, View(job[p].chan).seq,
                                       View(job[p].chan).ts, View(job[p].chan).data)
    /\ \A k \in closings : k.sig = Digest(k.chan, k.seq, k.ts, k.data)
InsertedFresh ==
    \A p \in Requests : pc[p] = "insert" => dbChannels[job[p].chan] = RowOf(Fresh)
RowsKeep ==
    \A c \in Channels : dbChannels[c] # None =>
        \A t : Listing(t) /\ Range(t) = dbRecipients[c] => Keeps(c, DbState(c, t))

AnswerInv ==
    /\ StoreInv
    /\ AnsweredKnown /\ ReplicaKeeps /\ AnsweredOrdered /\ WritesUnanswered
    /\ SentSigned /\ InsertedFresh
    /\ "abort" \notin Faults => ReplicaMatchesDb /\ RowsKeep

LEMMA InitAnswerInv == Init => AnswerInv
<1> SUFFICES ASSUME Init PROVE AnswerInv
  OBVIOUS
<1>1. StoreInv /\ Answered = {}
  BY InitStoreInv DEF Init, Answered
<1> QED
  BY <1>1 DEF Init, AnswerInv, AnsweredKnown, ReplicaKeeps, AnsweredOrdered, WritesUnanswered,
              SentSigned, InsertedFresh, ReplicaMatchesDb, RowsKeep

\* What an answer is made of.
LEMMA AnsweredType ==
    ASSUME TypeOK, NEW r \in Answered
    PROVE  /\ r \in ChannelView /\ r.chan \in Channels /\ r.seq \in Nat
           /\ FromContent(r.data) \in Seq(RecipientBalance)
<1>1. r \in ChannelView
  BY DEF TypeOK, Answered
<1>2. r.chan \in Channels /\ r.seq \in Nat /\ r.data \in Data
  BY <1>1 DEF ChannelView
<1> QED BY <1>1, <1>2, FromContentType

\* A state holds a channel's rows if and only if a restart would load it.
LEMMA StoredIsLoaded ==
    ASSUME NEW c \in Channels, NEW s \in ChannelState, StoredIs(c, s),
           Listing(s.recipients), NEW t, Listing(t), Range(t) = dbRecipients[c]
    PROVE  DbState(c, t) = s
<1>1. Range(s.recipients) = dbRecipients[c]
  BY DEF StoredIs, Range
<1>2. t = s.recipients
  BY <1>1, SameRows
<1>3. s = [seq |-> s.seq, ts |-> s.ts, sig |-> s.sig, cosig |-> s.cosig,
           recipients |-> s.recipients]
  BY DEF ChannelState
<1>4. /\ dbChannels[c].seq = s.seq /\ dbChannels[c].ts = s.ts
      /\ dbChannels[c].sig = s.sig /\ dbChannels[c].cosig = s.cosig
  BY DEF StoredIs, RowOf
<1> QED BY <1>2, <1>3, <1>4 DEF DbState

\* Steps that answer nothing and write nothing.
LEMMA QuietAnswers ==
    ASSUME AnswerInv, StoreInv',
           UNCHANGED <<channels, dbChannels, dbRecipients, receipts, closings>>,
           \A q \in Requests :
               \/ pc'[q] = pc[q] /\ job'[q] = job[q]
               \/ pc'[q] \in {"idle", "seed", "settle"}
               \/ pc'[q] = "rpc" /\ Finalizable(job'[q].chan),
           \/ "abort" \in Faults
           \/ \A q \in Requests : pc[q] \in {"insert", "save", "rows"} =>
                  pc'[q] = pc[q] /\ job'[q] = job[q]
    PROVE  AnswerInv'
<1>1. Answered' = Answered
  BY DEF Answered
<1>2. AnsweredKnown' /\ ReplicaKeeps' /\ AnsweredOrdered' /\ WritesUnanswered' /\ InsertedFresh'
  BY <1>1 DEF AnswerInv, AnsweredKnown, ReplicaKeeps, Keeps, AnsweredOrdered, WritesUnanswered,
              InsertedFresh
<1>3. SentSigned'
  BY DEF AnswerInv, SentSigned, View, Finalizable
<1>4. ASSUME "abort" \notin Faults PROVE ReplicaMatchesDb' /\ RowsKeep'
  <2>1. \A c \in Channels : Quiet(c)' => Quiet(c)
    BY <1>4 DEF Quiet
  <2> QED BY <1>1, <1>4, <2>1 DEF AnswerInv, ReplicaMatchesDb, StoredIs, RowsKeep, Keeps, DbState
<1> QED BY <1>2, <1>3, <1>4 DEF AnswerInv

\* A new answer: the replica's state of a channel nobody is writing.
LEMMA NewAnswer ==
    ASSUME AnswerInv, StoreInv', NEW p \in Requests, Finish(p), pc[p] # "idle",
           NEW c, c = job[p].chan, channels[c] # None,
           UNCHANGED <<channels, dbChannels, dbRecipients>>,
           Answered' = Answered \cup {View(c)},
           closings' = closings \/ (pc[p] = "rpc" /\ closings' = closings \cup {View(c)}),
           \A q \in Requests : q # p => pc[q] \notin {"save", "rows"},
           "abort" \notin Faults => StoredIs(c, channels[c])
    PROVE  AnswerInv'
<1>1. TypeOK /\ TypeOK'
  BY DEF AnswerInv, StoreInv, TypeInv
<1>2. /\ c \in Channels /\ channels[c] \in ChannelState /\ Listing(channels[c].recipients)
      /\ channels[c].seq \in Nat
  BY <1>1, JobType DEF AnswerInv, StoreInv, ReplicaListed, ChannelState
<1>3. /\ pc'[p] = "idle"
      /\ \A q \in Requests : q # p => pc'[q] = pc[q] /\ job'[q] = job[q]
  BY <1>1 DEF Finish, TypeOK
<1> DEFINE v == View(c)
<1>4. /\ v.chan = c /\ v.seq = channels[c].seq /\ FromContent(v.data) = channels[c].recipients
      /\ v = ViewOf(c, channels[c])
  BY <1>2, ListingContent DEF View, ViewOf
<1> HIDE DEF v
<1>5. Outgrows(channels[c].recipients, channels[c].recipients)
  BY <1>2, OutgrowsItself DEF Listing
<1>6. AnsweredKnown'
  BY <1>2, <1>4 DEF AnswerInv, AnsweredKnown, v
<1>7. ReplicaKeeps'
  <2> SUFFICES ASSUME NEW e \in Channels, channels[e] # None,
                      NEW r \in Answered', r.chan = e
               PROVE  /\ r.seq <= channels[e].seq
                      /\ Outgrows(channels[e].recipients, FromContent(r.data))
                      /\ r.seq = channels[e].seq => r = ViewOf(e, channels[e])
    BY DEF ReplicaKeeps, Keeps
  <2>1. CASE r \in Answered
    BY <2>1 DEF AnswerInv, ReplicaKeeps, Keeps
  <2>2. CASE r = v
    BY <1>2, <1>4, <1>5, <2>2
  <2> QED BY <2>1, <2>2 DEF v
<1>8. AnsweredOrdered'
  <2> SUFFICES ASSUME NEW r \in Answered', NEW s \in Answered', r.chan = s.chan, r.seq <= s.seq
               PROVE  /\ Outgrows(FromContent(s.data), FromContent(r.data))
                      /\ r.seq = s.seq => r = s
    BY DEF AnsweredOrdered
  <2>1. CASE r \in Answered /\ s \in Answered
    BY <2>1 DEF AnswerInv, AnsweredOrdered
  <2>2. CASE r \in Answered /\ s = v
    BY <1>2, <1>4, <2>2 DEF AnswerInv, ReplicaKeeps, Keeps
  <2>3. CASE r = v /\ s \in Answered
    <3>1. s.chan = c /\ s.seq \in Nat
      BY <1>1, <1>4, <2>3, AnsweredType
    <3>2. s.seq <= channels[c].seq /\ (s.seq = channels[c].seq => s = v)
      BY <1>2, <1>4, <2>3, <3>1 DEF AnswerInv, ReplicaKeeps, Keeps
    <3>3. s = v
      BY <1>2, <1>4, <2>3, <3>1, <3>2
    <3> QED BY <1>4, <1>5, <2>3, <3>3
  <2>4. CASE r = v /\ s = v
    BY <1>4, <1>5, <2>4
  <2> QED BY <2>1, <2>2, <2>3, <2>4 DEF v
<1>9. WritesUnanswered'
  BY <1>3 DEF WritesUnanswered
<1>10. SentSigned'
  <2>1. \A q \in Requests : pc'[q] = "rpc" => pc[q] = "rpc" /\ job'[q] = job[q]
    BY <1>3
  <2>2. \A k \in closings' : k \in closings \/ (pc[p] = "rpc" /\ k = View(c))
    OBVIOUS
  <2> QED BY <2>1, <2>2 DEF AnswerInv, SentSigned, View
<1>11. InsertedFresh'
  BY <1>3 DEF AnswerInv, InsertedFresh
<1>12. ASSUME "abort" \notin Faults PROVE ReplicaMatchesDb' /\ RowsKeep'
  <2>1. \A e \in Channels : e # c /\ Quiet(e)' => Quiet(e)
    BY <1>3 DEF Quiet
  <2>2. ReplicaMatchesDb'
    BY <1>12, <2>1 DEF AnswerInv, ReplicaMatchesDb, StoredIs
  <2>3. RowsKeep'
    <3> SUFFICES ASSUME NEW e \in Channels, dbChannels[e] # None,
                        NEW t, Listing(t), Range(t) = dbRecipients[e]
                 PROVE  Keeps(e, DbState(e, t))'
      BY DEF RowsKeep
    <3>1. CASE e = c
      <4>1. DbState(c, t) = channels[c]
        BY <1>2, <1>12, <3>1, StoredIsLoaded
      <4>2. Keeps(c, channels[c])'
        BY <1>2, <1>7 DEF ReplicaKeeps
      <4> QED BY <3>1, <4>1, <4>2 DEF Keeps, DbState
    <3>2. CASE e # c
      <4>1. Keeps(e, DbState(e, t))
        BY <1>12 DEF AnswerInv, RowsKeep
      <4>2. \A r \in Answered' : r.chan = e => r \in Answered
        BY <1>4, <3>2 DEF v
      <4> QED BY <4>1, <4>2 DEF Keeps, DbState
    <3> QED BY <3>1, <3>2
  <2> QED BY <2>2, <2>3
<1> QED BY <1>6, <1>7, <1>8, <1>9, <1>10, <1>11, <1>12 DEF AnswerInv

LEMMA SettleReplayAnswers ==
    ASSUME AnswerInv, StoreInv', NEW p \in Requests, SettleReplay(p)
    PROVE  AnswerInv'
<1> DEFINE c == job[p].chan
<1>1. /\ pc[p] = "settle" /\ WriteLockFree /\ channels[c] # None /\ Finish(p)
      /\ UNCHANGED <<channels, dbChannels, dbRecipients>>
      /\ closings' = closings /\ Answered' = Answered \cup {View(c)}
  BY DEF SettleReplay, db, Answered
<1>2. c \in Channels /\ c = job[p].chan
  BY <1>1, JobType DEF AnswerInv, StoreInv, TypeInv
<1> HIDE DEF c
<1>3. Quiet(c)
  BY <1>1 DEF AnswerInv, StoreInv, SeedsOnce, Quiet, WriteLockFree
<1>4. "abort" \notin Faults => StoredIs(c, channels[c])
  BY <1>1, <1>2, <1>3 DEF AnswerInv, ReplicaMatchesDb
<1> QED BY <1>1, <1>2, <1>4, NewAnswer DEF WriteLockFree

LEMMA FinalizeSendAnswers ==
    ASSUME AnswerInv, StoreInv', NEW p \in Requests, FinalizeSend(p)
    PROVE  AnswerInv'
<1> DEFINE c == job[p].chan
<1>1. /\ pc[p] = "rpc" /\ Finish(p)
      /\ UNCHANGED <<channels, dbChannels, dbRecipients>>
      /\ closings' = closings \cup {View(c)} /\ Answered' = Answered \cup {View(c)}
  BY DEF FinalizeSend, db, Answered
<1>2. c \in Channels /\ c = job[p].chan /\ channels[c] # None
  BY <1>1, JobType DEF AnswerInv, StoreInv, TypeInv, BusyOnKnown
<1> HIDE DEF c
<1>3. \A q \in Requests : pc[q] \notin {"save", "rows"}
  BY <1>1 DEF AnswerInv, StoreInv, LockExclusive
<1>4. Quiet(c)
  BY <1>2, <1>3 DEF AnswerInv, StoreInv, SeedsOnce, Quiet
<1>5. "abort" \notin Faults => StoredIs(c, channels[c])
  BY <1>2, <1>4 DEF AnswerInv, ReplicaMatchesDb
<1> QED BY <1>1, <1>2, <1>3, <1>5, NewAnswer

\* A handler that has saved every row has stored the replica's state.
LEMMA RowsSaved ==
    ASSUME StoreInv, NEW p \in Requests, pc[p] = "rows",
           job[p].next > Len(channels[job[p].chan].recipients)
    PROVE  StoredIs(job[p].chan, channels[job[p].chan])
<1> DEFINE c == job[p].chan
           list == channels[c].recipients
<1>1. c \in Channels /\ channels[c] \in ChannelState /\ channels[c] # None /\ job[p].next \in Nat
  BY JobType DEF StoreInv, TypeInv, BusyOnKnown
<1>2. dbChannels[c] = RowOf(channels[c])
  BY DEF StoreInv, WritersInOrder
<1>3. PICK t : StoredAs(c, t)
  BY <1>1 DEF StoreInv, RowsLag
<1>4. /\ Listing(t) /\ Range(t) = dbRecipients[c] /\ Outgrows(list, t)
      /\ job[p].next <= Len(t) + 1
      /\ \A j \in 1 .. job[p].next - 1 : t[j] = list[j]
  BY <1>1, <1>3 DEF StoredAs, Listed
<1>5. list \in Seq(RecipientBalance) /\ t \in Seq(RecipientBalance)
  BY <1>1, <1>4 DEF ChannelState, Listing
<1> HIDE DEF c, list
<1>6. /\ Len(list) \in Nat /\ DOMAIN list = 1 .. Len(list)
      /\ Len(t) \in Nat /\ DOMAIN t = 1 .. Len(t) /\ DOMAIN t \subseteq DOMAIN list
  BY <1>4, <1>5 DEF Outgrows
<1>7. job[p].next > Len(list)
  BY DEF c, list
<1>8. Len(t) = Len(list) /\ \A j \in 1 .. Len(list) : t[j] = list[j]
  <2> DEFINE n == Len(list)
             k == Len(t)
  <2>1. k >= n
    BY <1>1, <1>4, <1>6, <1>7
  <2>2. k <= n
    <3>1. n \in Nat /\ k \in Nat /\ 1 .. k \subseteq 1 .. n
      BY <1>6
    <3> HIDE DEF n, k
    <3> QED BY <3>1
  <2>3. \A j \in 1 .. Len(list) : j \in 1 .. job[p].next - 1
    BY <1>1, <1>6, <1>7
  <2>4. k = n
    <3>1. n \in Nat /\ k \in Nat
      BY <1>6
    <3> HIDE DEF n, k
    <3> QED BY <2>1, <2>2, <3>1
  <2>5. \A j \in 1 .. Len(list) : t[j] = list[j]
    BY <1>4, <2>3
  <2> QED BY <2>4, <2>5
<1>9. t = list
  BY <1>5, <1>6, <1>8
<1>10. StoredIs(c, channels[c])
  BY <1>2, <1>4, <1>9 DEF StoredIs, Range, list
<1> QED BY <1>10 DEF c

LEMMA SettleReplyAnswers ==
    ASSUME AnswerInv, StoreInv', NEW p \in Requests, SettleReply(p)
    PROVE  AnswerInv'
<1> DEFINE c == job[p].chan
<1>1. /\ pc[p] = "rows" /\ Finish(p) /\ job[p].next > Len(channels[c].recipients)
      /\ UNCHANGED <<channels, dbChannels, dbRecipients>>
      /\ closings' = closings /\ Answered' = Answered \cup {View(c)}
  BY DEF SettleReply, db, Answered
<1>2. StoredIs(c, channels[c])
  BY <1>1, RowsSaved DEF AnswerInv
<1>3. c \in Channels /\ c = job[p].chan /\ channels[c] # None
  BY <1>1, JobType DEF AnswerInv, StoreInv, TypeInv, BusyOnKnown
<1> HIDE DEF c
<1>4. \A q \in Requests : q # p => pc[q] \notin {"save", "rows"}
  BY <1>1 DEF AnswerInv, StoreInv, LockExclusive
<1> QED BY <1>1, <1>2, <1>3, <1>4, NewAnswer

LEMMA SeedSaveAnswers ==
    ASSUME AnswerInv, StoreInv', NEW p \in Requests, SeedSave(p)
    PROVE  AnswerInv'
<1> DEFINE c == job[p].chan
<1>1. /\ pc[p] = "seed" /\ c \in Channels /\ channels[c] = None
      /\ UNCHANGED <<channels, dbRecipients, job, receipts, closings>>
      /\ dbChannels'[c] = RowOf(Fresh)
      /\ \A e \in Channels : e # c => dbChannels'[e] = dbChannels[e]
      /\ pc'[p] = "insert"
      /\ \A q \in Requests : q # p => pc'[q] = pc[q]
  BY JobType DEF SeedSave, Goto, outputs, AnswerInv, StoreInv, SeedsOnce, TypeInv, TypeOK
<1>2. Answered' = Answered
  BY <1>1 DEF Answered
<1>3. \A r \in Answered : r.chan # c
  BY <1>1 DEF AnswerInv, AnsweredKnown
<1>4. c = job[p].chan
  OBVIOUS
<1> HIDE DEF c
<1>5. AnsweredKnown' /\ ReplicaKeeps' /\ AnsweredOrdered' /\ WritesUnanswered'
  BY <1>1, <1>2 DEF AnswerInv, AnsweredKnown, ReplicaKeeps, Keeps, AnsweredOrdered,
                    WritesUnanswered
<1>6. SentSigned'
  BY <1>1 DEF AnswerInv, SentSigned, View
<1>7. InsertedFresh'
  <2>1. \A q \in Requests : pc[q] = "insert" => job[q].chan \in Channels /\ q # p
    BY <1>1, JobType DEF AnswerInv, StoreInv, TypeInv
  <2>2. RowOf(Fresh)' = RowOf(Fresh)
    BY DEF RowOf, Fresh
  <2> QED BY <1>1, <1>4, <2>1, <2>2 DEF AnswerInv, InsertedFresh
<1>8. ASSUME "abort" \notin Faults PROVE ReplicaMatchesDb' /\ RowsKeep'
  <2>1. \A e \in Channels : Quiet(e)' => Quiet(e) /\ e # c
    BY <1>1, <1>4 DEF Quiet
  <2>2. ReplicaMatchesDb'
    BY <1>1, <1>8, <2>1 DEF AnswerInv, ReplicaMatchesDb, StoredIs
  <2>3. RowsKeep'
    <3> SUFFICES ASSUME NEW e \in Channels, dbChannels'[e] # None,
                        NEW t, Listing(t), Range(t) = dbRecipients[e]
                 PROVE  Keeps(e, DbState(e, t))'
      BY <1>1 DEF RowsKeep
    <3>1. CASE e = c
      BY <1>2, <1>3, <3>1 DEF Keeps
    <3>2. CASE e # c
      <4>1. Keeps(e, DbState(e, t))
        BY <1>1, <1>8, <3>2 DEF AnswerInv, RowsKeep
      <4> QED BY <1>1, <1>2, <3>2, <4>1 DEF Keeps, DbState
    <3> QED BY <3>1, <3>2
  <2> QED BY <2>2, <2>3
<1> QED BY <1>5, <1>6, <1>7, <1>8 DEF AnswerInv

LEMMA SeedInsertAnswers ==
    ASSUME AnswerInv, StoreInv', NEW p \in Requests, SeedInsert(p)
    PROVE  AnswerInv'
<1> DEFINE c == job[p].chan
<1>1. /\ pc[p] = "insert" /\ c \in Channels /\ channels[c] = None /\ WriteLockFree
      /\ dbChannels[c] = RowOf(Fresh)
      /\ UNCHANGED <<dbChannels, dbRecipients, receipts, closings>>
      /\ channels'[c] = Fresh
      /\ \A e \in Channels : e # c => channels'[e] = channels[e]
      /\ pc'[p] = "idle"
      /\ \A q \in Requests : q # p => pc'[q] = pc[q] /\ job'[q] = job[q]
  BY JobType DEF SeedInsert, Finish, db, outputs, AnswerInv, InsertedFresh, StoreInv, SeedsOnce,
                 TypeInv, TypeOK
<1>2. Answered' = Answered
  BY <1>1 DEF Answered
<1>3. \A r \in Answered : r.chan \in Channels /\ r.chan # c
  BY <1>1, AnsweredType DEF AnswerInv, AnsweredKnown, StoreInv, TypeInv
<1>4. c = job[p].chan /\ Fresh # None
  BY FreshType, NoneAssumption
<1> HIDE DEF c
<1>5. AnsweredKnown' /\ AnsweredOrdered'
  BY <1>1, <1>2, <1>3 DEF AnswerInv, AnsweredKnown, AnsweredOrdered
<1>6. ReplicaKeeps'
  <2> SUFFICES ASSUME NEW e \in Channels, channels'[e] # None, NEW r \in Answered, r.chan = e
               PROVE  /\ r.seq <= channels'[e].seq
                      /\ Outgrows(channels'[e].recipients, FromContent(r.data))
                      /\ r.seq = channels'[e].seq => r = ViewOf(e, channels'[e])
    BY <1>2 DEF ReplicaKeeps, Keeps
  <2>1. CASE e = c
    BY <1>3, <2>1
  <2>2. CASE e # c
    <3>1. Keeps(e, channels[e]) /\ channels'[e] = channels[e]
      BY <1>1, <2>2 DEF AnswerInv, ReplicaKeeps
    <3> QED BY <3>1 DEF Keeps
  <2> QED BY <2>1, <2>2
<1>7. WritesUnanswered' /\ SentSigned'
  BY <1>1 DEF AnswerInv, WritesUnanswered, SentSigned, WriteLockFree
<1>8. InsertedFresh'
  BY <1>1 DEF AnswerInv, InsertedFresh, RowOf, Fresh
<1>9. ASSUME "abort" \notin Faults PROVE ReplicaMatchesDb' /\ RowsKeep'
  <2>1. RowsKeep'
    BY <1>1, <1>2, <1>9 DEF AnswerInv, RowsKeep, Keeps, DbState
  <2>2. StoredIs(c, Fresh)
    <3>1. PICK t : StoredAs(c, t)
      BY <1>1 DEF AnswerInv, StoreInv, RowsLag
    <3>2. Range(t) = dbRecipients[c] /\ Outgrows(<<>>, t)
      BY <1>1, <3>1 DEF StoredAs, Listed
    <3>3. dbRecipients[c] = {}
      BY <3>2 DEF Outgrows, Range
    <3>4. Fresh.recipients = <<>>
      BY DEF Fresh
    <3> QED BY <1>1, <3>3, <3>4 DEF StoredIs
  <2>3. \A e \in Channels : e # c /\ Quiet(e)' => Quiet(e)
    BY <1>1, <1>4 DEF Quiet
  <2>4. ReplicaMatchesDb'
    <3> SUFFICES ASSUME NEW e \in Channels, Quiet(e)'
                 PROVE  IF channels'[e] = None THEN dbChannels'[e] = None
                        ELSE StoredIs(e, channels[e])'
      BY DEF ReplicaMatchesDb
    <3>1. CASE e = c
      BY <1>1, <1>4, <2>2, <3>1 DEF StoredIs
    <3>2. CASE e # c
      BY <1>1, <1>9, <2>3, <3>2 DEF AnswerInv, ReplicaMatchesDb, StoredIs
    <3> QED BY <3>1, <3>2
  <2> QED BY <2>1, <2>4
<1> QED BY <1>5, <1>6, <1>7, <1>8, <1>9 DEF AnswerInv

LEMMA SettleApplyAnswers ==
    ASSUME AnswerInv, StoreInv', NEW p \in Requests, SettleApply(p)
    PROVE  AnswerInv'
<1> DEFINE m == job[p].msg
           c == job[p].chan
           new == NextRecipients(m)
           state == [seq |-> m.seq, ts |-> m.ts, sig |-> m.sig,
                     cosig |-> Digest(c, m.seq, m.ts, Content(new)),
                     recipients |-> new]
<1>0. StoreInv /\ TypeOK
  BY DEF AnswerInv, StoreInv, TypeInv
<1>1. /\ c \in Channels /\ channels[c] # None /\ channels[c] \in ChannelState
      /\ m.seq = channels[c].seq + 1
      /\ Listing(new) /\ Outgrows(new, channels[c].recipients)
  BY <1>0, AppliedListed
<1>2. channels' = [channels EXCEPT ![c] = state]
  BY <1>0, AppliedListed
<1>3. state.recipients = new /\ state.seq = channels[c].seq + 1 /\ channels[c].seq \in Nat
      /\ channels[c].recipients \in Seq(RecipientBalance)
  BY <1>1 DEF ChannelState
<1> HIDE DEF state
<1>4. /\ channels'[c] = state /\ \A e \in Channels : e # c => channels'[e] = channels[e]
      /\ pc[p] = "settle" /\ WriteLockFree
      /\ UNCHANGED <<dbChannels, dbRecipients, job, receipts, closings>>
      /\ pc'[p] = "save" /\ \A q \in Requests : q # p => pc'[q] = pc[q]
  BY <1>0, <1>1, <1>2 DEF SettleApply, Goto, db, outputs, TypeOK
<1>5. state # None
  BY <1>4, <1>1 DEF StoreInv, TypeInv, BusyOnKnown
<1>6. Answered' = Answered /\ c = job[p].chan
  BY <1>4 DEF Answered
<1> HIDE DEF new, c
<1>7. \A r \in Answered : r.chan = c =>
          r.seq < state.seq /\ Outgrows(new, FromContent(r.data))
  <2> SUFFICES ASSUME NEW r \in Answered, r.chan = c
               PROVE  r.seq < state.seq /\ Outgrows(new, FromContent(r.data))
    OBVIOUS
  <2>1. r.seq <= channels[c].seq /\ Outgrows(channels[c].recipients, FromContent(r.data))
    BY <1>1 DEF AnswerInv, ReplicaKeeps, Keeps
  <2>2. r.seq \in Nat /\ FromContent(r.data) \in Seq(RecipientBalance)
    BY <1>0, AnsweredType
  <2>3. new \in Seq(RecipientBalance)
    BY <1>1 DEF Listing
  <2>4. r.seq < state.seq
    BY <1>3, <2>1, <2>2
  <2>5. Outgrows(new, FromContent(r.data))
    BY <1>1, <1>3, <2>1, <2>2, <2>3, OutgrowsTransitive
  <2> QED BY <2>4, <2>5
<1>8. AnsweredKnown'
  <2>1. \A r \in Answered : r.chan \in Channels
    BY <1>0, AnsweredType
  <2> QED BY <1>4, <1>5, <1>6, <2>1 DEF AnswerInv, AnsweredKnown
<1>9. ReplicaKeeps'
  <2> SUFFICES ASSUME NEW e \in Channels, channels'[e] # None, NEW r \in Answered, r.chan = e
               PROVE  /\ r.seq <= channels'[e].seq
                      /\ Outgrows(channels'[e].recipients, FromContent(r.data))
                      /\ r.seq = channels'[e].seq => r = ViewOf(e, channels'[e])
    BY <1>6 DEF ReplicaKeeps, Keeps
  <2>1. CASE e = c
    <3>1. state.seq \in Nat /\ \A a \in Answered : a.seq \in Nat
      BY <1>0, <1>3, AnsweredType
    <3>2. \A a \in Answered : a.chan = c => a.seq <= state.seq /\ a.seq # state.seq
      BY <1>7, <3>1
    <3>3. channels'[e] = state /\ state.recipients = new
      BY <1>3, <1>4, <2>1
    <3> QED BY <1>7, <2>1, <3>2, <3>3
  <2>2. CASE e # c
    <3>1. Keeps(e, channels[e]) /\ channels'[e] = channels[e]
      BY <1>4, <2>2 DEF AnswerInv, ReplicaKeeps
    <3> QED BY <3>1 DEF Keeps
  <2> QED BY <2>1, <2>2
<1>10. AnsweredOrdered'
  BY <1>6 DEF AnswerInv, AnsweredOrdered
<1>11. WritesUnanswered'
  <2> SUFFICES ASSUME NEW q \in Requests, pc'[q] \in {"save", "rows"},
                      NEW r \in Answered', r.chan = job'[q].chan
               PROVE  r.seq < channels'[job'[q].chan].seq
    BY DEF WritesUnanswered
  <2>1. q = p
    BY <1>4 DEF WriteLockFree
  <2> QED BY <1>4, <1>6, <1>7, <2>1
<1>12. SentSigned'
  BY <1>4 DEF AnswerInv, SentSigned, WriteLockFree
<1>13. InsertedFresh'
  BY <1>4 DEF AnswerInv, InsertedFresh, RowOf, Fresh
<1>14. ASSUME "abort" \notin Faults PROVE ReplicaMatchesDb' /\ RowsKeep'
  <2>1. \A e \in Channels : Quiet(e)' => Quiet(e) /\ e # c
    BY <1>4, <1>6 DEF Quiet
  <2>2. ReplicaMatchesDb'
    BY <1>4, <1>14, <2>1 DEF AnswerInv, ReplicaMatchesDb, StoredIs
  <2>3. RowsKeep'
    BY <1>4, <1>6, <1>14 DEF AnswerInv, RowsKeep, Keeps, DbState
  <2> QED BY <2>2, <2>3
<1> QED BY <1>8, <1>9, <1>10, <1>11, <1>12, <1>13, <1>14 DEF AnswerInv

LEMMA SaveChannelRowAnswers ==
    ASSUME AnswerInv, StoreInv', NEW p \in Requests, SaveChannelRow(p)
    PROVE  AnswerInv'
<1> DEFINE c == job[p].chan
<1>1. /\ pc[p] = "save" /\ c \in Channels /\ channels[c] # None /\ dbChannels[c] # None
      /\ UNCHANGED <<channels, dbRecipients, job, receipts, closings>>
      /\ dbChannels'[c] = RowOf(channels[c])
      /\ \A e \in Channels : e # c => dbChannels'[e] = dbChannels[e]
      /\ pc'[p] = "rows" /\ \A q \in Requests : q # p => pc'[q] = pc[q]
  BY JobType DEF SaveChannelRow, Goto, outputs, AnswerInv, StoreInv, KnownIsStored, TypeInv,
                 TypeOK, BusyOnKnown
<1>2. Answered' = Answered /\ c = job[p].chan
  BY <1>1 DEF Answered
<1> HIDE DEF c
<1>3. AnsweredKnown' /\ ReplicaKeeps' /\ AnsweredOrdered' /\ WritesUnanswered'
  BY <1>1, <1>2 DEF AnswerInv, AnsweredKnown, ReplicaKeeps, Keeps, AnsweredOrdered,
                    WritesUnanswered
<1>4. SentSigned'
  BY <1>1 DEF AnswerInv, SentSigned, View
<1>5. InsertedFresh'
  <2>1. \A q \in Requests : pc[q] = "insert" => job[q].chan \in Channels /\ job[q].chan # c
    BY <1>1, JobType DEF AnswerInv, StoreInv, TypeInv, SeedsOnce
  <2> QED BY <1>1, <2>1 DEF AnswerInv, InsertedFresh, RowOf, Fresh
<1>6. ASSUME "abort" \notin Faults PROVE ReplicaMatchesDb' /\ RowsKeep'
  <2>1. \A e \in Channels : Quiet(e)' => Quiet(e) /\ e # c
    BY <1>1, <1>2 DEF Quiet
  <2>2. ReplicaMatchesDb'
    BY <1>1, <1>6, <2>1 DEF AnswerInv, ReplicaMatchesDb, StoredIs
  <2>3. RowsKeep'
    <3> SUFFICES ASSUME NEW e \in Channels, dbChannels'[e] # None,
                        NEW t, Listing(t), Range(t) = dbRecipients[e]
                 PROVE  Keeps(e, DbState(e, t))'
      BY <1>1 DEF RowsKeep
    <3>1. CASE e = c
      <4> SUFFICES ASSUME NEW r \in Answered, r.chan = c
                   PROVE  /\ r.seq <= channels[c].seq /\ r.seq # channels[c].seq
                          /\ Outgrows(t, FromContent(r.data))
        BY <1>1, <1>2, <3>1 DEF Keeps, DbState, RowOf
      <4>1. r.seq < channels[c].seq
        BY <1>1, <1>2 DEF AnswerInv, WritesUnanswered
      <4>2. r.seq \in Nat /\ channels[c].seq \in Nat
        BY <1>1, AnsweredType DEF AnswerInv, StoreInv, TypeInv, TypeOK, ChannelState
      <4>3. Outgrows(t, FromContent(r.data))
        BY <1>1, <1>6, <3>1 DEF AnswerInv, RowsKeep, Keeps, DbState
      <4> QED BY <4>1, <4>2, <4>3
    <3>2. CASE e # c
      <4>1. Keeps(e, DbState(e, t))
        BY <1>1, <1>6, <3>2 DEF AnswerInv, RowsKeep
      <4> QED BY <1>1, <1>2, <3>2, <4>1 DEF Keeps, DbState
    <3> QED BY <3>1, <3>2
  <2> QED BY <2>2, <2>3
<1> QED BY <1>3, <1>4, <1>5, <1>6 DEF AnswerInv

LEMMA SaveRecipientRowAnswers ==
    ASSUME AnswerInv, StoreInv', NEW p \in Requests, SaveRecipientRow(p)
    PROVE  AnswerInv'
<1> DEFINE c == job[p].chan
           i == job[p].next
           list == channels[c].recipients
<1>1. /\ pc[p] = "rows" /\ c \in Channels /\ channels[c] # None
      /\ channels[c] \in ChannelState /\ i \in Nat /\ i # 0 /\ i <= Len(list)
      /\ UNCHANGED <<channels, dbChannels, pc, receipts, closings>>
      /\ dbRecipients'[c] = Upsert(dbRecipients[c], list[i])
      /\ \A e \in Channels : e # c => dbRecipients'[e] = dbRecipients[e]
      /\ \A q \in Requests : q # p => job'[q] = job[q]
      /\ job'[p].chan = c
  BY JobType DEF SaveRecipientRow, outputs, AnswerInv, StoreInv, TypeInv, TypeOK, BusyOnKnown, Job
<1>2. Answered' = Answered
  BY <1>1 DEF Answered
<1>3. c = job[p].chan /\ i = job[p].next /\ list = channels[c].recipients
  OBVIOUS
<1>4. Listing(list) /\ i \in DOMAIN list
  BY <1>1, ListingEntry DEF AnswerInv, StoreInv, ReplicaListed, ChannelState
<1> HIDE DEF c, i, list
<1>5. AnsweredKnown' /\ ReplicaKeeps' /\ AnsweredOrdered'
  BY <1>1, <1>2 DEF AnswerInv, AnsweredKnown, ReplicaKeeps, Keeps, AnsweredOrdered
<1>6. WritesUnanswered'
  BY <1>1, <1>2, <1>3 DEF AnswerInv, WritesUnanswered
<1>7. SentSigned'
  <2>1. \A q \in Requests : pc[q] = "rpc" => q # p
    BY <1>1
  <2> QED BY <1>1, <2>1 DEF AnswerInv, SentSigned, View
<1>8. InsertedFresh'
  <2>1. \A q \in Requests : pc[q] = "insert" => q # p
    BY <1>1
  <2> QED BY <1>1, <2>1 DEF AnswerInv, InsertedFresh, RowOf, Fresh
<1>9. ASSUME "abort" \notin Faults PROVE ReplicaMatchesDb' /\ RowsKeep'
  <2>1. \A e \in Channels : Quiet(e)' => Quiet(e) /\ e # c
    BY <1>1, <1>3 DEF Quiet
  <2>2. ReplicaMatchesDb'
    BY <1>1, <1>9, <2>1 DEF AnswerInv, ReplicaMatchesDb, StoredIs
  <2>3. RowsKeep'
    <3> SUFFICES ASSUME NEW e \in Channels, dbChannels[e] # None,
                        NEW w, Listing(w), Range(w) = dbRecipients'[e]
                 PROVE  Keeps(e, DbState(e, w))'
      BY <1>1 DEF RowsKeep
    <3>1. CASE e = c
      <4>1. PICK t : StoredAs(c, t)
        BY <1>1 DEF AnswerInv, StoreInv, RowsLag
      <4>2. /\ Listing(t) /\ Range(t) = dbRecipients[c] /\ Outgrows(list, t)
            /\ i <= Len(t) + 1 /\ \A j \in 1 .. i - 1 : t[j] = list[j]
        BY <1>1, <1>3, <4>1 DEF StoredAs, Listed
      <4>3. PICK u : /\ Listing(u) /\ Range(u) = Upsert(Range(t), list[i])
                     /\ Outgrows(list, u) /\ Outgrows(u, t)
        BY <1>4, <4>2, UpsertRows
      <4>4. w = u
        BY <1>1, <3>1, <4>2, <4>3, SameRows
      <4> SUFFICES ASSUME NEW r \in Answered, r.chan = c
                   PROVE  /\ r.seq <= dbChannels[c].seq /\ r.seq # dbChannels[c].seq
                          /\ Outgrows(w, FromContent(r.data))
        BY <1>1, <1>2, <3>1 DEF Keeps, DbState
      <4>5. r.seq < channels[c].seq /\ dbChannels[c].seq = channels[c].seq
        <5>1. r.seq < channels[c].seq
          BY <1>1, <1>3 DEF AnswerInv, WritesUnanswered
        <5>2. dbChannels[c] = RowOf(channels[c])
          BY <1>1, <1>3 DEF AnswerInv, StoreInv, WritersInOrder
        <5> QED BY <5>1, <5>2 DEF RowOf
      <4>6. /\ r.seq \in Nat /\ channels[c].seq \in Nat
            /\ FromContent(r.data) \in Seq(RecipientBalance)
        BY <1>1, AnsweredType DEF AnswerInv, StoreInv, TypeInv, ChannelState
      <4>7. Outgrows(t, FromContent(r.data))
        BY <1>9, <3>1, <4>2 DEF AnswerInv, RowsKeep, Keeps, DbState
      <4>8. Outgrows(u, FromContent(r.data))
        BY <4>2, <4>3, <4>6, <4>7, OutgrowsTransitive DEF Listing
      <4> QED BY <4>4, <4>5, <4>6, <4>8
    <3>2. CASE e # c
      <4>1. Keeps(e, DbState(e, w))
        BY <1>1, <1>9, <3>2 DEF AnswerInv, RowsKeep
      <4> QED BY <1>1, <1>2, <3>2, <4>1 DEF Keeps, DbState
    <3> QED BY <3>1, <3>2
  <2> QED BY <2>2, <2>3
<1> QED BY <1>5, <1>6, <1>7, <1>8, <1>9 DEF AnswerInv

LEMMA CrashAnswers ==
    ASSUME AnswerInv, StoreInv', "abort" \notin Faults, Crash
    PROVE  AnswerInv'
<1>1. /\ \A c \in Channels : channels'[c] \in Loaded(c)
      /\ \A p \in Requests : pc'[p] = "idle"
      /\ UNCHANGED <<dbChannels, dbRecipients, receipts, closings>>
  BY DEF Crash, db, outputs
<1>2. Answered' = Answered
  BY <1>1 DEF Answered
<1>3. StoreInv /\ TypeOK
  BY DEF AnswerInv, StoreInv, TypeInv
<1>4. ASSUME NEW c \in Channels
      PROVE  IF dbChannels[c] = None THEN channels'[c] = None
             ELSE /\ channels'[c] # None /\ Keeps(c, channels[c])'
                  /\ StoredIs(c, channels[c])'
  <2>1. PICK t : StoredAs(c, t)
    BY <1>3 DEF StoreInv, RowsLag
  <2>2. CASE dbChannels[c] = None
    BY <1>1, <2>2 DEF Loaded
  <2>3. CASE dbChannels[c] # None
    <3>1. channels'[c] = DbState(c, t) /\ channels'[c] # None
      BY <1>1, <1>3, <2>1, <2>3, LoadedIsStored
    <3>2. Listing(t) /\ Range(t) = dbRecipients[c]
      BY <2>1 DEF StoredAs
    <3>3. Keeps(c, DbState(c, t))
      BY <2>3, <3>2 DEF AnswerInv, RowsKeep
    <3>4. Keeps(c, channels[c])'
      BY <1>2, <3>1, <3>3 DEF Keeps
    <3>5. dbChannels[c] = RowOf(DbState(c, t))
      <4>1. dbChannels[c] \in Row
        BY <1>3, <2>3 DEF TypeOK
      <4>2. dbChannels[c] = [seq |-> dbChannels[c].seq, ts |-> dbChannels[c].ts,
                             sig |-> dbChannels[c].sig, cosig |-> dbChannels[c].cosig]
        BY <4>1 DEF Row
      <4> QED BY <4>2 DEF RowOf, DbState
    <3>6. StoredIs(c, DbState(c, t))
      <4>1. DbState(c, t).recipients = t
        BY DEF DbState
      <4> QED BY <3>2, <3>5, <4>1 DEF StoredIs, Range
    <3>7. StoredIs(c, channels[c])'
      BY <1>1, <3>1, <3>6 DEF StoredIs, RowOf
    <3> QED BY <2>3, <3>1, <3>4, <3>7
  <2> QED BY <2>2, <2>3
<1>5. AnsweredKnown'
  <2>1. \A r \in Answered : r.chan \in Channels
    BY <1>3, AnsweredType
  <2>2. \A r \in Answered : dbChannels[r.chan] # None
    BY <1>3, <2>1 DEF AnswerInv, AnsweredKnown, StoreInv, KnownIsStored
  <2> QED BY <1>2, <1>4, <2>1, <2>2 DEF AnswerInv, AnsweredKnown
<1>6. ReplicaKeeps' /\ ReplicaMatchesDb'
  BY <1>1, <1>4 DEF ReplicaKeeps, ReplicaMatchesDb
<1>7. AnsweredOrdered'
  BY <1>2 DEF AnswerInv, AnsweredOrdered
<1>8. WritesUnanswered' /\ SentSigned' /\ InsertedFresh'
  BY <1>1 DEF AnswerInv, WritesUnanswered, SentSigned, InsertedFresh
<1>9. RowsKeep'
  BY <1>1, <1>2 DEF AnswerInv, RowsKeep, Keeps, DbState
<1> QED BY <1>5, <1>6, <1>7, <1>8, <1>9 DEF AnswerInv

LEMMA NextAnswerInv ==
    ASSUME CrashesOrAborts
    PROVE  AnswerInv /\ [Next]_vars => AnswerInv'
<1> SUFFICES ASSUME AnswerInv, [Next]_vars PROVE AnswerInv'
  OBVIOUS
<1>0. StoreInv' /\ TypeOK
  BY NextStoreInv DEF AnswerInv, StoreInv, TypeInv
<1>1. ASSUME NEW c \in Channels, NEW pay \in Payments, NEW ts \in Timestamps,
             Sign(c, pay, ts)
      PROVE  AnswerInv'
  BY <1>0, <1>1, QuietAnswers DEF Sign, db, outputs
<1>2. CASE Tick
  BY <1>0, <1>2, QuietAnswers DEF Tick, db, outputs
<1>3. ASSUME NEW p \in Requests, NEW c \in Channels, SeedStart(p, c)
      PROVE  AnswerInv'
  <2>1. /\ pc'[p] = "seed" /\ pc[p] = "idle"
        /\ \A q \in Requests : q # p => pc'[q] = pc[q] /\ job'[q] = job[q]
        /\ UNCHANGED <<channels, dbChannels, dbRecipients, receipts, closings>>
    BY <1>0, <1>3 DEF SeedStart, Start, Idle, TypeOK, db, outputs
  <2> QED BY <1>0, <2>1, QuietAnswers
<1>4. ASSUME NEW p \in Requests, NEW m \in signed, SettleStart(p, m)
      PROVE  AnswerInv'
  BY <1>0, <1>4, QuietAnswers DEF SettleStart, Start, Idle, TypeOK, db, outputs
<1>5. ASSUME NEW p \in Requests, NEW c \in Channels, FinalizeStart(p, c)
      PROVE  AnswerInv'
  BY <1>0, <1>5, QuietAnswers DEF FinalizeStart, Start, Idle, TypeOK, db, outputs
<1>6. ASSUME NEW p \in Requests, SettleRefuse(p)
      PROVE  AnswerInv'
  BY <1>0, <1>6, QuietAnswers DEF SettleRefuse, Finish, TypeOK, db, outputs
<1>7. ASSUME NEW p \in Requests, Abort(p)
      PROVE  AnswerInv'
  BY <1>0, <1>7, QuietAnswers DEF Abort, Finish, TypeOK, db, outputs
<1>8. CASE Crash
  BY <1>0, <1>8, CrashAnswers DEF CrashesOrAborts, Crash
<1>9. ASSUME NEW k \in Setups, NEW c \in Channels, Lookup(k, c)
      PROVE  AnswerInv'
  BY <1>0, <1>9, QuietAnswers DEF Lookup, db, outputs
<1>10. CASE UNCHANGED vars
  BY <1>0, <1>10, QuietAnswers DEF vars
<1> QED
  BY <1>0, <1>1, <1>2, <1>3, <1>4, <1>5, <1>6, <1>7, <1>8, <1>9, <1>10, SeedSaveAnswers,
     SeedInsertAnswers, SettleReplayAnswers, SettleApplyAnswers, SaveChannelRowAnswers,
     SaveRecipientRowAnswers, SettleReplyAnswers, FinalizeSendAnswers
  DEF Next, Seed, Settle, Save

LEMMA AlwaysAnswerInv ==
    ASSUME CrashesOrAborts
    PROVE  Spec => []AnswerInv
BY InitAnswerInv, NextAnswerInv, PTL DEF Spec

(***************************************************************************)
(* Two answers of /settle for one sequence number are the same answer, for *)
(* a sequencer that may crash at any await and for one whose handlers may  *)
(* be cut short at any await, but not for both together.                   *)
(***************************************************************************)
THEOREM OneAnswerPerSequence ==
    ASSUME CrashesOrAborts
    PROVE  Spec => []OneReceiptPerSequence
<1>1. AnswerInv => OneReceiptPerSequence
  <2> SUFFICES ASSUME AnswerInv, NEW r \in receipts, NEW s \in receipts,
                      r.chan = s.chan, r.seq = s.seq
               PROVE  r = s
    BY DEF OneReceiptPerSequence
  <2>1. r \in Answered /\ s \in Answered /\ r.seq \in Nat
    BY AnsweredType DEF Answered, AnswerInv, StoreInv, TypeInv
  <2> QED BY <2>1 DEF AnswerInv, AnsweredOrdered
<1> QED BY <1>1, AlwaysAnswerInv, PTL

(***************************************************************************)
(* What /settle answered is kept: the replica never falls behind a receipt *)
(* nor owes anybody less than a receipt shows.                             *)
(***************************************************************************)
THEOREM AnswersKept ==
    ASSUME CrashesOrAborts
    PROVE  Spec => []ReceiptsKept
<1>1. AnswerInv => ReceiptsKept
  <2> SUFFICES ASSUME AnswerInv, NEW r \in receipts
               PROVE  /\ channels[r.chan] # None
                      /\ r.seq <= channels[r.chan].seq
                      /\ Pays(channels[r.chan].recipients, r.data)
    BY DEF ReceiptsKept
  <2>1. /\ r \in Answered /\ r.chan \in Channels
        /\ FromContent(r.data) \in Seq(RecipientBalance)
    BY AnsweredType DEF Answered, AnswerInv, StoreInv, TypeInv
  <2>2. channels[r.chan] # None /\ Keeps(r.chan, channels[r.chan])
    BY <2>1 DEF AnswerInv, AnsweredKnown, ReplicaKeeps
  <2>3. Listing(channels[r.chan].recipients)
    BY <2>1, <2>2 DEF AnswerInv, StoreInv, ReplicaListed
  <2> QED BY <2>1, <2>2, <2>3, OutgrowsPays DEF Keeps, Pays
<1> QED BY <1>1, AlwaysAnswerInv, PTL

(***************************************************************************)
(* A closing transaction carries a state the owner signed and pays every   *)
(* receipt with a sequence number up to its own.                           *)
(***************************************************************************)
THEOREM ClosingsCoverReceipts ==
    ASSUME CrashesOrAborts
    PROVE  Spec => []ClosingsPayReceipts
<1>1. AnswerInv => ClosingsPayReceipts
  <2> SUFFICES ASSUME AnswerInv, NEW k \in closings
               PROVE  /\ k.sig = Digest(k.chan, k.seq, k.ts, k.data)
                      /\ \A r \in receipts : r.chan = k.chan /\ r.seq <= k.seq =>
                             Pays(FromContent(k.data), r.data)
    BY DEF ClosingsPayReceipts
  <2>1. k.sig = Digest(k.chan, k.seq, k.ts, k.data)
    BY DEF AnswerInv, SentSigned
  <2>2. ASSUME NEW r \in receipts, r.chan = k.chan, r.seq <= k.seq
        PROVE  Pays(FromContent(k.data), r.data)
    <3>1. r \in Answered /\ k \in Answered /\ FromContent(r.data) \in Seq(RecipientBalance)
      BY AnsweredType DEF Answered, AnswerInv, StoreInv, TypeInv
    <3>2. Outgrows(FromContent(k.data), FromContent(r.data)) /\ Listing(FromContent(k.data))
      BY <2>2, <3>1 DEF AnswerInv, AnsweredOrdered, AnsweredKnown
    <3> QED BY <3>1, <3>2, OutgrowsPays DEF Pays
  <2> QED BY <2>1, <2>2
<1> QED BY <1>1, AlwaysAnswerInv, PTL

(***************************************************************************)
(* When no handler is in the middle of writing a channel, the tables hold  *)
(* exactly what the replica holds, whenever and as often as the sequencer  *)
(* crashes, provided no write is aborted and one process sets channels up. *)
(***************************************************************************)
THEOREM TablesMatchReplica ==
    ASSUME OneSetup, "abort" \notin Faults
    PROVE  Spec => []ReplicaMatchesDb
<1>1. CrashesOrAborts
  BY DEF CrashesOrAborts
<1>2. AnswerInv => ReplicaMatchesDb
  BY DEF AnswerInv
<1>3. Spec => []AnswerInv
  BY <1>1, AlwaysAnswerInv
<1> QED BY <1>2, <1>3, PTL
-----------------------------------------------------------------------------
(***************************************************************************)
(* The signature the replica holds is for the recipients it holds, as long *)
(* as no restart puts a saved row together with older recipients.          *)
(***************************************************************************)
SignedIsShown ==
    \A c \in Channels : channels[c] # None /\ channels[c].sig \in Signature =>
        channels[c].sig.data = Content(channels[c].recipients)

ReceiptsShown == \A r \in receipts : r.sig.data = r.data

ClosableInv == SignedIsShown /\ ReceiptsShown

LEMMA NextClosableInv ==
    ASSUME "crash" \notin Faults
    PROVE  TypeInv /\ BackedInv /\ ClosableInv /\ [Next]_vars => ClosableInv'
<1> SUFFICES ASSUME TypeInv, BackedInv, ClosableInv, [Next]_vars PROVE ClosableInv'
  OBVIOUS
<1>0. TypeOK
  BY DEF TypeInv
<1>1. ASSUME UNCHANGED <<channels, receipts>> PROVE ClosableInv'
  BY <1>1 DEF ClosableInv, SignedIsShown, ReceiptsShown
<1>2. ASSUME NEW p \in Requests, SeedInsert(p) PROVE ClosableInv'
  <2>1. /\ job[p].chan \in Channels /\ receipts' = receipts
        /\ channels' = [channels EXCEPT ![job[p].chan] = Fresh]
    BY <1>0, <1>2, JobType DEF SeedInsert, outputs
  <2>2. Fresh.sig \notin Signature
    BY NoneAssumption DEF Fresh
  <2> QED BY <1>0, <2>1, <2>2 DEF TypeOK, ClosableInv, SignedIsShown, ReceiptsShown
<1>3. ASSUME NEW p \in Requests, SettleApply(p) PROVE ClosableInv'
  <2> DEFINE m == job[p].msg
             new == NextRecipients(m)
             state == [seq |-> m.seq, ts |-> m.ts, sig |-> m.sig,
                       cosig |-> Digest(m.chan, m.seq, m.ts, Content(new)),
                       recipients |-> new]
  <2>1. /\ m.chan \in Channels /\ receipts' = receipts /\ Acceptable(m)
        /\ channels' = [channels EXCEPT ![m.chan] = state]
    BY <1>0, <1>3 DEF SettleApply, Extends, outputs, TypeOK, PayRequest
  <2>2. state.sig.data = Content(state.recipients)
    BY <2>1 DEF Acceptable, Digest
  <2> HIDE DEF state
  <2> QED BY <1>0, <2>1, <2>2 DEF TypeOK, ClosableInv, SignedIsShown, ReceiptsShown
<1>4. ASSUME NEW p \in Requests, SettleReplay(p) \/ SettleReply(p) PROVE ClosableInv'
  <2> DEFINE c == job[p].chan
  <2>1. /\ pc[p] \in {"settle", "rows"} /\ channels' = channels
        /\ receipts' = receipts \cup {View(c)}
    BY <1>4 DEF SettleReplay, SettleReply
  <2>2. c \in Channels /\ channels[c] # None /\ channels[c].sig \in Signature
    <3>1. CASE SettleReplay(p)
      BY <1>0, <3>1, JobType DEF SettleReplay, Replayed, TypeOK, PayRequest
    <3>2. CASE SettleReply(p)
      BY <1>0, <3>2, JobType DEF SettleReply, TypeInv, BusyOnKnown, BackedInv, WritersSigned
    <3> QED BY <1>4, <3>1, <3>2
  <2>3. View(c).sig.data = View(c).data
    BY <2>2 DEF ClosableInv, SignedIsShown, View
  <2> QED BY <2>1, <2>3 DEF ClosableInv, SignedIsShown, ReceiptsShown
<1>5. ASSUME NEW p \in Requests,
             \/ \E c \in Channels : SeedStart(p, c) \/ FinalizeStart(p, c)
             \/ \E m \in signed : SettleStart(p, m)
             \/ SeedSave(p) \/ SettleRefuse(p) \/ SaveChannelRow(p) \/ SaveRecipientRow(p)
             \/ FinalizeSend(p) \/ Abort(p)
      PROVE  UNCHANGED <<channels, receipts>>
  BY <1>5 DEF SeedStart, FinalizeStart, SettleStart, SeedSave, SettleRefuse, SaveChannelRow,
              SaveRecipientRow, FinalizeSend, Abort, outputs
<1>6. CASE \/ \E c \in Channels, pay \in Payments, ts \in Timestamps : Sign(c, pay, ts)
           \/ Tick \/ UNCHANGED vars
           \/ \E k \in Setups, c \in Channels : Lookup(k, c)
  BY <1>1, <1>6 DEF Sign, Tick, Lookup, vars, outputs
<1>7. ~Crash
  BY DEF Crash
<1> QED
  BY <1>1, <1>2, <1>3, <1>4, <1>5, <1>6, <1>7 DEF Next, Seed, Settle, Save

\* With the rest of what a receipt is backed by, its signatures are for it.
LEMMA ShownIsClosable ==
    ASSUME TypeOK, CosignedBacked, ReceiptsShown
    PROVE  ReceiptClosable
<1> SUFFICES ASSUME NEW r \in receipts
             PROVE  r.sig = Digest(r.chan, r.seq, r.ts, r.data) /\ r.cosig = r.sig
  BY DEF ReceiptClosable
<1>1. /\ r.cosig = r.sig /\ r.sig.chan = r.chan /\ r.sig.seq = r.seq /\ r.sig.ts = r.ts
      /\ r.sig.data = r.data
  BY DEF CosignedBacked, Backed, ReceiptsShown
<1>2. r.sig \in Signature
  BY DEF CosignedBacked, Backed, TypeOK, PayRequest
<1>3. r.sig = [chan |-> r.sig.chan, seq |-> r.sig.seq, ts |-> r.sig.ts, data |-> r.sig.data]
  BY <1>2 DEF Signature
<1> QED BY <1>1, <1>3 DEF Digest

(***************************************************************************)
(* A receipt can be taken to the contract: both signatures in it are for   *)
(* the sequence number, the timestamp, the recipients and the amounts it   *)
(* shows.  Aborted writes and channels seeded twice do no harm to this; a  *)
(* restart does.                                                           *)
(***************************************************************************)
THEOREM ReceiptsClosable ==
    ASSUME "crash" \notin Faults
    PROVE  Spec => []ReceiptClosable
<1>1. Init => ClosableInv
  BY DEF Init, ClosableInv, SignedIsShown, ReceiptsShown
<1>2. Spec => []TypeInv
  BY InitTypeInv, NextTypeInv, PTL DEF Spec
<1>3. TypeInv /\ TypeInv' /\ BackedInv /\ [Next]_vars => BackedInv'
  BY NextBackedInv
<1>4. Spec => []BackedInv
  BY <1>2, <1>3, InitBackedInv, PTL DEF Spec
<1>5. TypeInv /\ BackedInv /\ ClosableInv /\ [Next]_vars => ClosableInv'
  BY NextClosableInv
<1>6. TypeInv /\ BackedInv /\ ClosableInv => ReceiptClosable
  BY ShownIsClosable DEF TypeInv, BackedInv, ClosableInv
<1> QED BY <1>1, <1>2, <1>4, <1>5, <1>6, PTL DEF Spec
=============================================================================
