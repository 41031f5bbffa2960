-------------------------- MODULE CrawlStoreProofs --------------------------
(***************************************************************************)
(* Proofs about what a crawl leaves behind, for any number of peers, names *)
(* and writers, any size of the caches and any number of failing calls.    *)
(***************************************************************************)
EXTENDS CrawlStore, FiniteSetTheorems, TLAPS

-----------------------------------------------------------------------------
\* The invariant, by what it is about.

\* No two rows of a table have the same ID.
Distinct(ids) == \A x, y \in DOMAIN ids : ids[x] = ids[y] /\ x # y => ids[x] = NoId

\* The crawl is in Engine.Run.
Running == cmd \in {"run", "stuck"}
Crawling == cmd \in {"connect", "init", "run", "stuck"}

IdInv ==
  /\ nameId \in [Name -> 0..Cardinality(Name)] /\ Distinct(nameId)
  /\ peerId \in [Peer -> 0..Cardinality(Peer)] /\ Distinct(peerId)

CacheInv ==
  /\ DOMAIN cache \subseteq Name
  /\ \A K \in {Agent, Protocol} : Cardinality(DOMAIN cache \intersect K) <= CacheSize
  /\ Crawling => \A n \in DOMAIN cache : cache[n] = nameId[n] /\ nameId[n] # NoId

\* The table of the sets and its cache.
SetInv ==
  /\ DOMAIN setId \subseteq Sets
  /\ \A s \in DOMAIN setId : setId[s] \in 1..Cardinality(DOMAIN setId)
  /\ \A s, t \in DOMAIN setId : setId[s] = setId[t] => s = t
  /\ \A s \in DOMAIN setId : s \subseteq {NoId} \union {nameId[n] : n \in Protocol}
  /\ DOMAIN setCache \subseteq DOMAIN setId /\ Cardinality(DOMAIN setCache) <= CacheSize
  /\ \A s \in DOMAIN setCache : setCache[s] = setId[s]

MapInv ==
  \A p \in DOMAIN peerMappings : p \in Peer /\ peerMappings[p] = peerId[p] /\ peerId[p] # NoId

RowInv ==
  \A v \in visitRows :
    /\ v.peer \in Peer
    /\ v.agent # NoId => VisitOf[v.peer].agent \in Agent /\ v.agent = nameId[VisitOf[v.peer].agent]
    /\ v.set # NoId => RefersToSet(v.peer, v.set)

\* A writer that has yet to look up a name has yet to keep the neighbours, too.
TableInv ==
  /\ taken \subseteq Peer /\ DOMAIN routingTables \subseteq taken
  /\ \A p \in DOMAIN routingTables : routingTables[p] = VisitOf[p].neighbors
  /\ client = "json" => DOMAIN routingTables = {}
  /\ flushed \subseteq DOMAIN routingTables
  /\ client = "postgres" /\ cmd # "killed" =>
       \A p \in taken : \/ \E w \in Writer : work[w].pc = "lookup" /\ work[w].peer = p
                        \/ HasNeighbors(p) => p \in DOMAIN routingTables
  /\ \A p \in flushed : VisitOf[p].neighbors # {} => p \in DOMAIN neighborRows

NbrInv ==
  /\ \A p \in DOMAIN neighborRows : p \in Peer /\ neighborRows[p] = Lines(p)
  /\ client = "postgres" =>
       \A p \in DOMAIN neighborRows :
         peerId[p] # NoId /\ \A q \in VisitOf[p].neighbors : peerId[q] # NoId
  /\ client = "json" => \A v \in visitRows : HasNeighbors(v.peer) => v.peer \in DOMAIN neighborRows

\* What a writer holds: the IDs it has are those of the tables, or none.
NameMap == UNION {[D -> Nat] : D \in SUBSET Name}
LookupItem == [pc : {"lookup"}, peer : Peer, ids : NameMap, asked : NameMap,
               set : {Pending} \cup Nat, newSet : Nat]
InsertItem == [pc : {"insert"}, peer : Peer, agent : Nat, set : Nat]
MapItem == [pc : {"map"}, peer : Peer, id : Nat]
FileItem == [pc : {"neighbors", "visit"}, peer : Peer]
Item == {Idle} \cup LookupItem \cup InsertItem \cup MapItem \cup FileItem

ItemOK(i) ==
  /\ i # Idle => i.peer \in taken
  /\ i.pc = "lookup" =>
       /\ \A n \in DOMAIN i.ids :
            /\ n \in NamesOf(i.peer) /\ i.ids[n] \in {NoId, nameId[n]}
            /\ n \in Protocol => i.ids[n] # NoId
       /\ \A n \in DOMAIN i.asked :
            n \in NamesOf(i.peer) /\ i.asked[n] = nameId[n] /\ nameId[n] # NoId
       /\ i.newSet # NoId => RefersToSet(i.peer, i.newSet)
  /\ i.pc \in {"lookup", "insert"} /\ i.set \notin {NoId, Pending} => RefersToSet(i.peer, i.set)
  /\ i.pc = "insert" /\ i.agent # NoId =>
       VisitOf[i.peer].agent \in Agent /\ i.agent = nameId[VisitOf[i.peer].agent]
  /\ i.pc = "map" => i.id = peerId[i.peer] /\ i.id # NoId
  /\ i.pc = "visit" /\ HasNeighbors(i.peer) => i.peer \in DOMAIN neighborRows
  /\ i.pc \in {"lookup", "insert", "map"} => client = "postgres"
  /\ i.pc \in {"neighbors", "visit"} => client = "json"

WorkInv ==
  /\ work \in [Writer -> Item]
  /\ \A w \in Writer : ItemOK(work[w])
  /\ ~Running => AllIdle

\* The transaction only adds to the table, and an aborted one has a cause.
Transaction == [pc : {"open"}, ok : BOOLEAN, left : SUBSET Name, rows : SUBSET Name,
                ids : [Name -> 0..Cardinality(Name)]]
TxnInv ==
  cmd = "properties" =>
    /\ client = "postgres" /\ txn \in Transaction
    /\ Distinct(txn.ids) /\ \A n \in Name : nameId[n] # NoId => txn.ids[n] = nameId[n]
    /\ txn.ok => txn.left \cup txn.rows = Counted
    /\ ~txn.ok => failures > 0 \/ cleanupDone

ReportTypes ==
  /\ crawlRow \in States \cup {Torn} /\ crawl \in States /\ client \in Client
  /\ propertyRows \subseteq Name /\ fileErr \subseteq {"neighbors", "visits"}
  /\ cmd \in Phases /\ exit \in {"none", "ok", "error"} /\ runErr \in {"none", "canceled"}
  /\ failures \in 0..MaxFailures

ReportInv ==
  /\ cmd \in {"connect", "init", "run", "stuck", "seal", "begin", "properties"} => propertyRows = {}
  /\ client = "postgres" => propertyRows \in {{}, Counted}
  /\ cmd = "flush" \/ exit = "ok" => propertyRows = Counted
  /\ cmd \in {"begin", "properties", "flush"} \/ exit = "ok" =>
       crawlRow = SealedState /\ crawl = crawlRow
  /\ exit # "none" <=> cmd \in {"close", "done"}
  /\ cmd \in {"connect", "init"} => crawl = NoCrawl
  /\ exit = "error" => crawl = NoCrawl \/ failures > 0 \/ cleanupDone

DataInv == IdInv /\ CacheInv /\ SetInv /\ MapInv /\ RowInv /\ TableInv /\ NbrInv /\ WorkInv
StoreInv == DataInv /\ ReportTypes /\ ReportInv /\ TxnInv

-----------------------------------------------------------------------------
\* Upserts.

\* An ID of its own for each new row, which no row has.
Fresh(D, ids, new, g) ==
  /\ g \in [new -> 1..Cardinality(D)]
  /\ \A x \in new : g[x] \notin {ids[y] : y \in D}
  /\ \A x, y \in new : g[x] = g[y] => x = y

\* There are as many IDs as rows can be, so enough of them are free.
LEMMA FreeIds ==
  ASSUME NEW D, IsFiniteSet(D), NEW ids \in [D -> 0..Cardinality(D)], Distinct(ids),
         NEW new \in SUBSET D, \A x \in new : ids[x] = NoId
  PROVE  \E g : Fresh(D, ids, new, g)
<1> DEFINE old == {x \in D : ids[x] # NoId}
           used == {ids[x] : x \in old}
           free == (1..Cardinality(D)) \ used
<1>1. IsFiniteSet(old) /\ IsFiniteSet(new) /\ old \cap new = {} /\ Cardinality(D) \in Nat
  BY FS_Subset, FS_CardinalityType
<1>2. Cardinality(old) + Cardinality(new) <= Cardinality(D)
  <2>1. IsFiniteSet(old \cup new) /\ old \cup new \in SUBSET D
    BY <1>1, FS_Union
  <2>2. Cardinality(old \cup new) = Cardinality(old) + Cardinality(new) - Cardinality(old \cap new)
    BY <1>1, FS_Union
  <2>3. Cardinality(old \cap new) = 0
    BY <1>1, FS_EmptySet
  <2>4. Cardinality(old \cup new) <= Cardinality(D)
    BY <2>1, FS_Subset
  <2>5. Cardinality(old) \in Nat /\ Cardinality(new) \in Nat
    BY <1>1, FS_CardinalityType
  <2> QED
    BY <2>2, <2>3, <2>4, <2>5
<1>3. used \subseteq 1..Cardinality(D) /\ IsFiniteSet(used) /\ Cardinality(used) = Cardinality(old)
  <2> DEFINE f == [x \in old |-> ids[x]]
  <2>1. f \in Bijection(old, used)
    <3>1. f \in [old -> used]
      OBVIOUS
    <3>2. \A x, y \in old : f[x] = f[y] => x = y
      BY DEF Distinct
    <3>3. \A u \in used : \E x \in old : f[x] = u
      OBVIOUS
    <3> HIDE DEF f, used, old
    <3> QED
      BY <3>1, <3>2, <3>3 DEF Bijection, Injection, Surjection, IsInjective
  <2>2. used \subseteq 1..Cardinality(D)
    BY <1>1 DEF NoId
  <2> HIDE DEF f, used, old
  <2> QED
    BY <1>1, <2>1, <2>2, FS_Bijection DEF ExistsBijection
<1>4. IsFiniteSet(free) /\ Cardinality(free) = Cardinality(D) - Cardinality(used)
  <2>1. IsFiniteSet(1..Cardinality(D)) /\ Cardinality(1..Cardinality(D)) = Cardinality(D)
    BY <1>1, FS_Interval
  <2>2. (1..Cardinality(D)) \cap used = used
    BY <1>3
  <2>3. IsFiniteSet((1..Cardinality(D)) \ used)
        /\ Cardinality((1..Cardinality(D)) \ used)
             = Cardinality(1..Cardinality(D)) - Cardinality((1..Cardinality(D)) \cap used)
    <3> HIDE DEF used
    <3> QED
      BY <2>1, FS_Difference
  <2> QED
    BY <2>1, <2>2, <2>3
<1>5. Cardinality(new) <= Cardinality(free) /\ Cardinality(new) \in Nat /\ Cardinality(free) \in Nat
  BY <1>1, <1>2, <1>3, <1>4, FS_CardinalityType
<1>6. \E g \in [new -> free] : \A x, y \in new : g[x] = g[y] => x = y
  <2> HIDE DEF free
  <2>1. PICK a \in [1..Cardinality(new) -> new] :
          (\A i, j \in 1..Cardinality(new) : a[i] = a[j] => i = j)
          /\ \A x \in new : \E i \in 1..Cardinality(new) : a[i] = x
    <3>1. PICK a : a \in Bijection(1..Cardinality(new), new)
      BY <1>1, FS_CardinalityType DEF ExistsBijection
    <3> QED
      BY <3>1 DEF Bijection, Injection, Surjection, IsInjective
  <2>2. PICK b \in [1..Cardinality(free) -> free] :
          \A i, j \in 1..Cardinality(free) : b[i] = b[j] => i = j
    <3>1. PICK b : b \in Bijection(1..Cardinality(free), free)
      BY <1>4, FS_CardinalityType DEF ExistsBijection
    <3> QED
      BY <3>1 DEF Bijection, Injection, Surjection, IsInjective
  <2> DEFINE at(x) == CHOOSE i \in 1..Cardinality(new) : a[i] = x
             g == [x \in new |-> b[at(x)]]
  <2>3. \A x \in new : at(x) \in 1..Cardinality(new) /\ a[at(x)] = x
    BY <2>1
  <2> HIDE DEF at
  <2>4. \A x \in new : at(x) \in 1..Cardinality(free)
    BY <1>5, <2>3
  <2>5. g \in [new -> free]
    BY <2>2, <2>4
  <2>6. ASSUME NEW x \in new, NEW y \in new, g[x] = g[y] PROVE x = y
    <3>1. b[at(x)] = b[at(y)]
      BY <2>6
    <3>2. at(x) = at(y)
      BY <2>2, <2>4, <3>1
    <3> QED
      BY <2>3, <3>2
  <2> HIDE DEF g
  <2> QED
    BY <2>5, <2>6
<1>7. PICK g \in [new -> free] : \A x, y \in new : g[x] = g[y] => x = y
  BY <1>6
<1>8. \A x \in new : g[x] \in 1..Cardinality(D) /\ g[x] \notin {ids[y] : y \in D}
  BY <1>7 DEF NoId
<1>9. g \in [new -> 1..Cardinality(D)]
  BY <1>7
<1> QED
  BY <1>7, <1>8, <1>9 DEF Fresh

\* What an upsert does: the rows asked for are there, and those that were there
\* before have kept their IDs.
Grows(old, new, D) ==
  /\ new \in [D -> 0..Cardinality(D)] /\ Distinct(new)
  /\ \A x \in D : old[x] # NoId => new[x] = old[x]

LEMMA UpsertWorks ==
  ASSUME NEW D, IsFiniteSet(D), NEW ids \in [D -> 0..Cardinality(D)], Distinct(ids),
         NEW S \in SUBSET D
  PROVE  Grows(ids, Upserted(ids, S), D) /\ \A x \in S : Upserted(ids, S)[x] # NoId
<1> DEFINE new == {x \in S : ids[x] = NoId}
           free == (1..Cardinality(DOMAIN ids)) \ {ids[x] : x \in DOMAIN ids}
           OneToOne(g) == \A x, y \in new : g[x] = g[y] => x = y
           g == CHOOSE g \in [new -> free] : OneToOne(g)
           f == Upserted(ids, S)
<1>0. DOMAIN ids = D /\ Cardinality(D) \in Nat
  BY FS_CardinalityType
<1>1. PICK h : Fresh(D, ids, new, h)
  <2>1. new \in SUBSET D /\ \A x \in new : ids[x] = NoId
    OBVIOUS
  <2> HIDE DEF new
  <2> QED
    BY <2>1, FreeIds
<1>2. h \in [new -> free] /\ OneToOne(h)
  BY <1>0, <1>1 DEF Fresh
<1>3. g \in [new -> free] /\ OneToOne(g)
  <2> HIDE DEF new, free, OneToOne
  <2> QED
    BY <1>2, Zenon
<1>4. f = [x \in DOMAIN ids |-> IF x \in new THEN g[x] ELSE ids[x]]
  BY DEF Upserted
<1> HIDE DEF g, f
<1>5. \A x \in new : f[x] = g[x] /\ f[x] \in 1..Cardinality(D) /\ \A y \in D : f[x] # ids[y]
  BY <1>0, <1>3, <1>4
<1>6. \A x \in D : x \notin new => f[x] = ids[x]
  BY <1>0, <1>4
<1>7. f \in [D -> 0..Cardinality(D)]
  <2> HIDE DEF new
  <2> QED
    BY <1>0, <1>4, <1>5, <1>6
<1>8. Distinct(f)
  <2> SUFFICES ASSUME NEW x \in D, NEW y \in D, f[x] = f[y], x # y PROVE f[x] = NoId
    BY <1>7 DEF Distinct
  <2> HIDE DEF new
  <2>1. CASE x \in new /\ y \in new
    BY <1>3, <1>5, <2>1
  <2>2. CASE (x \in new /\ y \notin new) \/ (x \notin new /\ y \in new)
    BY <1>5, <1>6, <2>2
  <2>3. CASE x \notin new /\ y \notin new
    BY <1>0, <1>6, <2>3 DEF Distinct
  <2> QED
    BY <2>1, <2>2, <2>3
<1>9. \A x \in D : ids[x] # NoId => f[x] = ids[x]
  BY <1>6
<1>10. \A x \in S : f[x] # NoId
  <2> TAKE x \in S
  <2>1. CASE ids[x] = NoId
    BY <1>0, <1>5, <2>1 DEF NoId
  <2>2. CASE ids[x] # NoId
    BY <1>9, <2>2
  <2> QED
    BY <2>1, <2>2
<1> QED
  BY <1>7, <1>8, <1>9, <1>10 DEF Grows, f

\* Nothing asked for, nothing changed.
LEMMA GrowsSame ==
  ASSUME NEW D, NEW ids \in [D -> 0..Cardinality(D)], Distinct(ids)
  PROVE  Grows(ids, ids, D)
BY DEF Grows

LEMMA FiniteTables ==
  /\ IsFiniteSet(Name) /\ Cardinality(Name) \in Nat
  /\ IsFiniteSet(Peer) /\ Cardinality(Peer) \in Nat
<1>1. IsFiniteSet(Name)
  BY StoreConstants, FS_Union DEF Name
<1> QED
  BY <1>1, StoreConstants, FS_CardinalityType

LEMMA UpsertNames ==
  ASSUME IdInv, NEW S \in SUBSET Name
  PROVE  Grows(nameId, Upserted(nameId, S), Name) /\ \A n \in S : Upserted(nameId, S)[n] # NoId
BY FiniteTables, UpsertWorks DEF IdInv

LEMMA UpsertPeers ==
  ASSUME IdInv, NEW S \in SUBSET Peer
  PROVE  Grows(peerId, Upserted(peerId, S), Peer) /\ \A p \in S : Upserted(peerId, S)[p] # NoId
BY StoreConstants, UpsertWorks DEF IdInv

LEMMA VisitType ==
  ASSUME NEW p \in Peer
  PROVE  /\ VisitOf[p].neighbors \subseteq Peer
         /\ VisitOf[p].agent \in Agent \cup {Empty} /\ VisitOf[p].protocols \subseteq Protocol \cup {Empty}
         /\ NamesOf(p) \subseteq Name /\ Agent \cap Protocol = {} /\ Empty \notin Name
BY StoreConstants DEF NamesOf, Name

LEMMA ExtendedIs ==
  ASSUME NEW f, NEW x, NEW v
  PROVE  /\ DOMAIN Extended(f, x, v) = DOMAIN f \cup {x}
         /\ Extended(f, x, v)[x] = v
         /\ \A y \in DOMAIN f : y # x => Extended(f, x, v)[y] = f[y]
BY DEF Extended

LEMMA ExtendedMap ==
  ASSUME NEW f \in NameMap, NEW n \in Name, NEW v \in Nat
  PROVE  Extended(f, n, v) \in NameMap
<1>1. PICK D \in SUBSET Name : f \in [D -> Nat]
  BY DEF NameMap
<1>2. Extended(f, n, v) \in [D \cup {n} -> Nat]
  BY <1>1 DEF Extended
<1> QED
  BY <1>2 DEF NameMap

\* A cache stays within its size, for the keys of each kind, and what it holds
\* besides the key that is added it held before.
LEMMA CacheAddedIs ==
  ASSUME NEW c, NEW kind, IsFiniteSet(kind), Cardinality(DOMAIN c \cap kind) <= CacheSize,
         NEW n \in kind, NEW id, NEW d \in CacheAdded(c, n, id, kind)
  PROVE  /\ Cardinality(DOMAIN d \cap kind) <= CacheSize
         /\ \A m \in DOMAIN d : (m = n /\ d[m] = id) \/ (m \in DOMAIN c /\ d[m] = c[m])
<1> DEFINE keys == DOMAIN c \cap kind
<1>1. IsFiniteSet(keys) /\ Cardinality(keys) \in Nat /\ CacheSize \in Nat
  BY StoreConstants, FS_Subset, FS_CardinalityType
<1>2. CASE n \in DOMAIN c \/ Cardinality(keys) < CacheSize
  <2>1. d = Extended(c, n, id)
    BY <1>2 DEF CacheAdded
  <2>2. DOMAIN d = DOMAIN c \cup {n}
    BY <2>1, ExtendedIs
  <2>3. Cardinality(DOMAIN d \cap kind) <= CacheSize
    <3>1. Cardinality(keys \cup {n})
            = (IF n \in keys THEN Cardinality(keys) ELSE Cardinality(keys) + 1)
      BY <1>1, FS_AddElement
    <3>2. DOMAIN d \cap kind = keys \cup {n} /\ (n \in DOMAIN c <=> n \in keys)
      BY <2>2
    <3> QED
      BY <1>1, <1>2, <3>1, <3>2
  <2>4. d[n] = id /\ \A m \in DOMAIN c : m # n => d[m] = c[m]
    BY <2>1 DEF Extended
  <2> QED
    BY <2>2, <2>3, <2>4
<1>3. CASE ~(n \in DOMAIN c \/ Cardinality(keys) < CacheSize)
  <2>1. PICK old \in keys : d = Extended([m \in DOMAIN c \ {old} |-> c[m]], n, id)
    BY <1>3 DEF CacheAdded
  <2> DEFINE rest == [m \in DOMAIN c \ {old} |-> c[m]]
  <2>2. DOMAIN rest = DOMAIN c \ {old} /\ \A m \in DOMAIN rest : rest[m] = c[m]
    OBVIOUS
  <2> HIDE DEF rest
  <2>3. d = Extended(rest, n, id)
    BY <2>1 DEF rest
  <2>4. DOMAIN d = (DOMAIN c \ {old}) \cup {n}
    BY <2>2, <2>3, ExtendedIs
  <2>5. Cardinality(DOMAIN d \cap kind) <= CacheSize
    <3> HIDE DEF rest
    <3>1. IsFiniteSet(keys \ {old}) /\ Cardinality(keys \ {old}) = Cardinality(keys) - 1
      BY <1>1, FS_RemoveElement
    <3>2. Cardinality((keys \ {old}) \cup {n}) = Cardinality(keys \ {old}) + 1
      BY <1>3, <3>1, FS_AddElement
    <3>3. DOMAIN d \cap kind = (keys \ {old}) \cup {n} /\ Cardinality(keys) <= CacheSize
      BY <2>4
    <3> HIDE DEF keys
    <3>4. Cardinality(DOMAIN d \cap kind) = Cardinality(keys \ {old}) + 1
      BY <3>2, <3>3, Zenon
    <3>5. Cardinality(keys) - 1 + 1 <= CacheSize
      BY <1>1, <3>3
    <3> QED
      BY <1>1, <3>1, <3>4, <3>5
  <2>6. \A m \in DOMAIN d : (m = n /\ d[m] = id) \/ (m \in DOMAIN c /\ d[m] = c[m])
    <3>1. d[n] = id /\ \A m \in DOMAIN rest : m # n => d[m] = rest[m]
      BY <2>3 DEF Extended
    <3> QED
      BY <2>2, <2>4, <3>1
  <2> QED
    BY <2>5, <2>6
<1> QED
  BY <1>2, <1>3

\* Kinds do not disturb each other.
LEMMA NameCacheAdded ==
  ASSUME DOMAIN cache \subseteq Name,
         \A K \in {Agent, Protocol} : Cardinality(DOMAIN cache \cap K) <= CacheSize,
         NEW n \in Name, NEW id, NEW d \in CacheAdded(cache, n, id, Kind(n))
  PROVE  /\ DOMAIN d \subseteq Name
         /\ \A K \in {Agent, Protocol} : Cardinality(DOMAIN d \cap K) <= CacheSize
         /\ \A m \in DOMAIN d : (m = n /\ d[m] = id) \/ (m \in DOMAIN cache /\ d[m] = cache[m])
<1>0. PICK kind : kind = Kind(n)
  OBVIOUS
<1>1. n \in kind /\ kind \in {Agent, Protocol} /\ IsFiniteSet(kind)
  BY <1>0, StoreConstants DEF Kind, Name
<1>2. /\ Cardinality(DOMAIN d \cap kind) <= CacheSize
      /\ \A m \in DOMAIN d : (m = n /\ d[m] = id) \/ (m \in DOMAIN cache /\ d[m] = cache[m])
  BY <1>0, <1>1, CacheAddedIs
<1>3. DOMAIN d \subseteq Name
  BY <1>2
<1>4. ASSUME NEW K \in {Agent, Protocol}, K # kind
      PROVE  Cardinality(DOMAIN d \cap K) <= CacheSize
  <2>1. n \notin K
    BY <1>1, <1>4, StoreConstants
  <2>2. DOMAIN d \cap K \subseteq DOMAIN cache \cap K
    BY <1>2, <2>1
  <2>3. IsFiniteSet(DOMAIN cache \cap K) /\ IsFiniteSet(K)
    BY StoreConstants, FS_Subset
  <2>4. /\ Cardinality(DOMAIN d \cap K) <= Cardinality(DOMAIN cache \cap K)
        /\ Cardinality(DOMAIN d \cap K) \in Nat /\ Cardinality(DOMAIN cache \cap K) \in Nat
    BY <2>2, <2>3, FS_Subset, FS_CardinalityType
  <2>5. Cardinality(DOMAIN cache \cap K) <= CacheSize /\ CacheSize \in Nat
    BY StoreConstants
  <2> QED
    BY <2>4, <2>5
<1> QED
  BY <1>1, <1>2, <1>3, <1>4

-----------------------------------------------------------------------------
\* What the parts of the invariant depend on.  Tables only grow, so that a step
\* can harm a part only where it changes what the part is about.

SetsGrow == DOMAIN setId \subseteq DOMAIN setId' /\ \A s \in DOMAIN setId : setId'[s] = setId[s]

Grow ==
  /\ Grows(nameId, nameId', Name) /\ Grows(peerId, peerId', Peer) /\ SetsGrow
  /\ client' = client /\ taken \subseteq taken'
  /\ DOMAIN neighborRows \subseteq DOMAIN neighborRows'

LEMMA IdsSame ==
  ASSUME IdInv
  PROVE  /\ nameId' = nameId => Grows(nameId, nameId', Name)
         /\ peerId' = peerId => Grows(peerId, peerId', Peer)
         /\ setId' = setId => SetsGrow
BY DEF IdInv, Grows, SetsGrow

LEMMA IdGrown ==
  ASSUME Grow
  PROVE  IdInv'
BY DEF Grow, Grows, IdInv

LEMMA CacheKept ==
  ASSUME CacheInv, Grow, UNCHANGED cache, Crawling' => Crawling
  PROVE  CacheInv'
BY DEF CacheInv, Grow, Grows

\* A set a visit refers to stays what it is while the tables grow.
LEMMA RefersKept ==
  ASSUME Grow, NEW p \in Peer, NEW id, RefersToSet(p, id)
  PROVE  RefersToSet(p, id)'
<1>1. VisitOf[p].protocols \ {Empty} \subseteq Name
  BY VisitType DEF Name
<1>2. \A n \in VisitOf[p].protocols \ {Empty} : nameId'[n] = nameId[n] /\ nameId'[n] # NoId
  BY <1>1 DEF RefersToSet, HasIds, Grow, Grows
<1>3. ProtocolIDs(p, nameId') = ProtocolIDs(p, nameId)
  BY <1>2 DEF ProtocolIDs
<1> QED
  BY <1>2, <1>3 DEF RefersToSet, HasIds, Grow, SetsGrow

\* An ID of a protocol is one after the step.
LEMMA MembersKept ==
  ASSUME Grow, NEW S, S \subseteq {NoId} \union {nameId[n] : n \in Protocol}
  PROVE  S \subseteq {NoId} \union {nameId'[n] : n \in Protocol}
<1> SUFFICES ASSUME NEW id \in S, id # NoId
             PROVE  \E n \in Protocol : id = nameId'[n]
  OBVIOUS
<1>1. PICK n \in Protocol : id = nameId[n]
  OBVIOUS
<1>2. n \in Name
  BY DEF Name
<1> QED
  BY <1>1, <1>2 DEF Grow, Grows

LEMMA SetKept ==
  ASSUME SetInv, Grow, UNCHANGED <<setId, setCache>>
  PROVE  SetInv'
<1>1. \A s \in DOMAIN setId : s \subseteq {NoId} \union {nameId'[n] : n \in Protocol}
  BY MembersKept DEF SetInv
<1> QED
  BY <1>1 DEF SetInv

LEMMA SetsFinite ==
  ASSUME SetInv
  PROVE  IsFiniteSet(Sets) /\ IsFiniteSet(DOMAIN setId) /\ Cardinality(DOMAIN setId) \in Nat
<1>1. IsFiniteSet(0..Cardinality(Name))
  BY FiniteTables, FS_Interval
<1>2. IsFiniteSet(Sets)
  BY <1>1, FS_SUBSET DEF Sets
<1> QED
  BY <1>2, FS_Subset, FS_CardinalityType DEF SetInv

\* The row of a set: one of its own, and the others keep theirs.
LEMMA InsertedIs ==
  ASSUME SetInv, NEW s \in Sets, s \subseteq {NoId} \union {nameId[n] : n \in Protocol},
         nameId' = nameId, setCache' = setCache, setId' \in {setId, Inserted(setId, s)}
  PROVE  /\ SetInv' /\ SetsGrow
         /\ setId' = Inserted(setId, s) => s \in DOMAIN setId' /\ setId'[s] \in Nat \ {NoId}
<1> DEFINE k == Cardinality(DOMAIN setId)
<1>1. k \in Nat /\ IsFiniteSet(DOMAIN setId)
  BY SetsFinite
<1>2. CASE setId' = setId
  <2>1. SetInv' /\ SetsGrow
    BY <1>2 DEF SetInv, SetsGrow
  <2>2. setId = Inserted(setId, s) => s \in DOMAIN setId
    <3> SUFFICES ASSUME s \notin DOMAIN setId PROVE setId # Extended(setId, s, k + 1)
      BY DEF Inserted
    <3>1. s \in DOMAIN Extended(setId, s, k + 1)
      BY DEF Extended
    <3> QED
      BY <3>1
  <2>3. s \in DOMAIN setId => setId[s] \in Nat \ {NoId}
    BY <1>1 DEF SetInv, NoId
  <2> QED
    BY <1>2, <2>1, <2>2, <2>3
<1>3. CASE setId' # setId
  <2>1. s \notin DOMAIN setId /\ setId' = Extended(setId, s, k + 1)
    BY <1>3 DEF Inserted
  <2>2. DOMAIN setId' = DOMAIN setId \cup {s} /\ setId'[s] = k + 1
        /\ \A t \in DOMAIN setId : setId'[t] = setId[t]
    BY <2>1 DEF Extended
  <2>3. Cardinality(DOMAIN setId') = k + 1
    BY <1>1, <2>1, <2>2, FS_AddElement
  <2>4. \A t \in DOMAIN setId : setId'[t] \in 1..k
    BY <2>2 DEF SetInv
  <2>5. \A t \in DOMAIN setId' : setId'[t] \in 1..(k + 1)
    BY <1>1, <2>2, <2>4
  <2>6. ASSUME NEW t \in DOMAIN setId', NEW u \in DOMAIN setId', setId'[t] = setId'[u]
        PROVE  t = u
    <3>1. CASE t \in DOMAIN setId /\ u \in DOMAIN setId
      BY <2>2, <2>6, <3>1 DEF SetInv
    <3>2. CASE t = s \/ u = s
      <4>1. k + 1 \notin 1..k
        BY <1>1
      <4> QED
        BY <2>2, <2>4, <2>6, <3>2, <4>1
    <3> QED
      BY <2>2, <3>1, <3>2
  <2>7. \A t \in DOMAIN setId' : t \in Sets /\ t \subseteq {NoId} \union {nameId'[n] : n \in Protocol}
    BY <2>2 DEF SetInv
  <2>8. DOMAIN setCache' \subseteq DOMAIN setId' /\ Cardinality(DOMAIN setCache') <= CacheSize
        /\ \A t \in DOMAIN setCache' : setCache'[t] = setId'[t]
    BY <2>2 DEF SetInv
  <2>9. SetInv'
    BY <2>3, <2>5, <2>6, <2>7, <2>8 DEF SetInv
  <2>10. SetsGrow /\ s \in DOMAIN setId' /\ setId'[s] \in Nat \ {NoId}
    BY <1>1, <2>2 DEF SetsGrow, NoId
  <2> QED
    BY <2>9, <2>10
<1> QED
  BY <1>2, <1>3

LEMMA MapKept ==
  ASSUME MapInv, Grow, UNCHANGED peerMappings
  PROVE  MapInv'
BY DEF MapInv, Grow, Grows

LEMMA RowKept ==
  ASSUME RowInv, Grow, UNCHANGED visitRows
  PROVE  RowInv'
<1> SUFFICES ASSUME NEW v \in visitRows
             PROVE  /\ v.peer \in Peer
                    /\ v.agent # NoId => /\ VisitOf[v.peer].agent \in Agent
                                        /\ v.agent = nameId'[VisitOf[v.peer].agent]
                    /\ v.set # NoId => RefersToSet(v.peer, v.set)'
  BY DEF RowInv
<1>1. v.peer \in Peer
  BY DEF RowInv
<1>2. \A n \in Agent : nameId[n] # NoId => nameId'[n] = nameId[n]
  BY DEF Grow, Grows, Name
<1> QED
  BY <1>1, <1>2, RefersKept DEF RowInv

LEMMA TableKept ==
  ASSUME TableInv, Grow, UNCHANGED <<routingTables, taken, flushed>>,
         cmd' # "killed" => cmd # "killed",
         \A w \in Writer : cmd' # "killed" /\ work[w].pc = "lookup" =>
            work'[w].pc = "lookup" /\ work'[w].peer = work[w].peer
  PROVE  TableInv'
BY DEF TableInv, Grow

\* A stored routing table stays right while the table of peers grows.
LEMMA NbrRowKept ==
  ASSUME NbrInv, client \in Client, Grow, NEW p \in DOMAIN neighborRows
  PROVE  /\ p \in Peer /\ neighborRows[p] = Lines(p)'
         /\ client = "postgres" => /\ peerId'[p] # NoId
                                   /\ \A q \in VisitOf[p].neighbors : peerId'[q] # NoId
<1>1. p \in Peer /\ neighborRows[p] = Lines(p) /\ VisitOf[p].neighbors \subseteq Peer
  BY VisitType DEF NbrInv
<1>2. CASE client = "postgres"
  <2>1. peerId[p] # NoId /\ \A q \in VisitOf[p].neighbors : peerId[q] # NoId
    BY <1>2 DEF NbrInv
  <2>2. peerId'[p] = peerId[p] /\ \A q \in VisitOf[p].neighbors : peerId'[q] = peerId[q]
    BY <1>1, <2>1 DEF Grow, Grows
  <2>3. Lines(p)' = Lines(p)
    BY <1>2, <2>2 DEF Lines, Grow
  <2> QED
    BY <1>1, <2>1, <2>2, <2>3
<1>3. CASE client # "postgres"
  <2>1. client = "json"
    BY <1>3, StoreConstants
  <2>2. Lines(p)' = VisitOf[p].neighbors /\ Lines(p) = VisitOf[p].neighbors
    BY <2>1 DEF Lines, Grow
  <2> QED
    BY <1>1, <1>3, <2>2
<1> QED
  BY <1>2, <1>3

LEMMA NbrKept ==
  ASSUME NbrInv, client \in Client, Grow, UNCHANGED neighborRows,
         visitRows' = visitRows \/ client = "postgres"
  PROVE  NbrInv'
<1>1. client' = "json" => \A v \in visitRows' : HasNeighbors(v.peer) => v.peer \in DOMAIN neighborRows
  BY DEF NbrInv, Grow
<1> QED
  BY <1>1, NbrRowKept DEF NbrInv, Grow

LEMMA ItemShape ==
  ASSUME NEW i \in Item
  PROVE  /\ i.pc = "lookup" => i \in LookupItem
         /\ i.pc = "insert" => i \in InsertItem
         /\ i.pc = "map" => i \in MapItem
         /\ i.pc \in {"neighbors", "visit"} => i \in FileItem
         /\ i # Idle => i.peer \in Peer /\ i.pc # "idle"
         /\ i = Idle => i.pc = "idle"
<1>1. Idle.pc = "idle"
  BY DEF Idle
<1> QED
  BY <1>1 DEF Item, LookupItem, InsertItem, MapItem, FileItem

LEMMA ItemKept ==
  ASSUME NEW i \in Item, ItemOK(i), Grow
  PROVE  ItemOK(i)'
<1>1. CASE i = Idle
  BY <1>1, ItemShape DEF ItemOK
<1>2. CASE i # Idle
  <2>1. i.peer \in Peer /\ NamesOf(i.peer) \subseteq Name
    BY <1>2, ItemShape, VisitType
  <2>2. \A n \in Name : nameId[n] # NoId => nameId'[n] = nameId[n]
    BY DEF Grow, Grows
  <2>3. i.pc = "lookup" =>
          /\ \A n \in DOMAIN i.ids :
               /\ n \in NamesOf(i.peer) /\ i.ids[n] \in {NoId, nameId'[n]}
               /\ n \in Protocol => i.ids[n] # NoId
          /\ \A n \in DOMAIN i.asked :
               n \in NamesOf(i.peer) /\ i.asked[n] = nameId'[n] /\ nameId'[n] # NoId
    BY <2>1, <2>2 DEF ItemOK
  <2>4. /\ i.pc = "lookup" /\ i.newSet # NoId => RefersToSet(i.peer, i.newSet)'
        /\ i.pc \in {"lookup", "insert"} /\ i.set \notin {NoId, Pending} => RefersToSet(i.peer, i.set)'
    BY <2>1, RefersKept DEF ItemOK
  <2>8. i.pc = "insert" /\ i.agent # NoId =>
          VisitOf[i.peer].agent \in Agent /\ i.agent = nameId'[VisitOf[i.peer].agent]
    BY <2>2 DEF ItemOK, Name
  <2>5. i.pc = "map" => i.id = peerId'[i.peer] /\ i.id # NoId
    BY <2>1 DEF ItemOK, Grow, Grows
  <2>6. i.peer \in taken' /\ client' = client
    BY <1>2 DEF ItemOK, Grow
  <2>7. i.pc = "visit" /\ HasNeighbors(i.peer) => i.peer \in DOMAIN neighborRows'
    BY DEF ItemOK, Grow
  <2> QED
    BY <2>3, <2>4, <2>5, <2>6, <2>7, <2>8 DEF ItemOK
<1> QED
  BY <1>1, <1>2

LEMMA WorkKept ==
  ASSUME WorkInv, Grow, UNCHANGED work, ~Running' => AllIdle
  PROVE  WorkInv'
<1>1. \A w \in Writer : work[w] \in Item /\ ItemOK(work[w])
  BY DEF WorkInv
<1>2. \A w \in Writer : work'[w] = work[w]
  OBVIOUS
<1>3. ASSUME NEW w \in Writer PROVE ItemOK(work[w])'
  <2>1. PICK i \in Item : i = work[w]
    BY <1>1
  <2>2. ItemOK(i)'
    BY <1>1, <2>1, ItemKept
  <2> QED
    BY <1>2, <2>1, <2>2 DEF ItemOK
<1> QED
  BY <1>3 DEF WorkInv, AllIdle

\* One writer goes on.
LEMMA WorkStep ==
  ASSUME WorkInv, Grow, Running', NEW w \in Writer, NEW i \in Item,
         work' = [work EXCEPT ![w] = i], ItemOK(i)'
  PROVE  WorkInv'
<1>1. \A v \in Writer : work[v] \in Item /\ ItemOK(work[v])
  BY DEF WorkInv
<1>2. work' \in [Writer -> Item]
  BY DEF WorkInv
<1>3. ASSUME NEW v \in Writer PROVE ItemOK(work[v])'
  <2>1. CASE v = w
    <3>1. work'[v] = i
      BY <2>1 DEF WorkInv
    <3> QED
      BY <3>1 DEF ItemOK
  <2>2. CASE v # w
    <3>1. PICK j \in Item : j = work[v]
      BY <1>1
    <3>2. ItemOK(j)'
      BY <1>1, <3>1, ItemKept
    <3>3. work'[v] = j
      BY <2>2, <3>1 DEF WorkInv
    <3> QED
      BY <3>2, <3>3 DEF ItemOK
  <2> QED
    BY <2>1, <2>2
<1> QED
  BY <1>2, <1>3 DEF WorkInv

LEMMA AtWork ==
  ASSUME WorkInv, NEW w \in Writer, work[w].pc # "idle"
  PROVE  /\ Running /\ work[w] # Idle /\ work[w] \in Item /\ ItemOK(work[w])
         /\ work[w].peer \in Peer /\ work[w].peer \in taken
<1>1. work[w] # Idle /\ work[w] \in Item
  BY DEF WorkInv, Idle
<1>2. Running
  BY <1>1 DEF WorkInv, AllIdle
<1>3. ItemOK(work[w])
  BY DEF WorkInv
<1> QED
  BY <1>1, <1>2, <1>3, ItemShape DEF ItemOK

\* A writer that is idle again is all right.
LEMMA IdleOK == Idle \in Item /\ ItemOK(Idle)'
<1>1. Idle.pc = "idle"
  BY DEF Idle
<1> QED
  BY <1>1 DEF Item, ItemOK

-----------------------------------------------------------------------------
\* The writers.

LEMMA NextTake ==
  ASSUME DataInv, client \in Client, NEW w \in Writer, NEW p \in Peer, TakeVisit(w, p)
  PROVE  DataInv'
<1> USE DEF DataInv
<1>0. PICK i : i = IF client = "json" THEN [pc |-> "neighbors", peer |-> p]
                   ELSE [pc |-> "lookup", peer |-> p, ids |-> NoMap, asked |-> NoMap,
                         set |-> IF VisitOf[p].protocols = {} THEN NoId ELSE Pending, newSet |-> NoId]
  OBVIOUS
<1>1. /\ cmd = "run" /\ work[w] = Idle /\ taken' = taken \union {p}
      /\ work' = [work EXCEPT ![w] = i]
      /\ UNCHANGED <<nameId, setId, peerId, visitRows, neighborRows, client, cache, setCache,
                     peerMappings, routingTables, cmd, flushed>>
  BY <1>0 DEF TakeVisit, dbVars, clientVars, cmdVars
<1>2. NoMap \in NameMap /\ DOMAIN NoMap = {}
  <2>1. NoMap \in [{} -> Nat] /\ {} \in SUBSET Name
    BY DEF NoMap
  <2> QED
    BY <2>1 DEF NameMap
<1>3. i \in Item
  BY <1>0, <1>2 DEF Item, LookupItem, FileItem, NoId
<1>4. /\ i.peer = p /\ (client = "json" => i.pc = "neighbors")
      /\ client # "json" => /\ i.pc = "lookup" /\ i.ids = NoMap /\ i.asked = NoMap
                            /\ i.set \in {NoId, Pending} /\ i.newSet = NoId
  BY <1>0
<1>5. client # "json" => client = "postgres"
  BY StoreConstants
<1>6. Grow
  BY <1>1, IdsSame DEF Grow
<1>7. ItemOK(i)'
  BY <1>1, <1>2, <1>4, <1>5 DEF ItemOK
<1>8. WorkInv'
  BY <1>1, <1>3, <1>6, <1>7, WorkStep DEF Running
<1>9. TableInv'
  <2>1. \A v \in Writer : work[v].pc = "lookup" => work'[v] = work[v]
    BY <1>1 DEF WorkInv, Idle
  <2>2. work'[w] = i
    BY <1>1 DEF WorkInv
  <2>3. client = "postgres" => work'[w].pc = "lookup" /\ work'[w].peer = p
    BY <1>4, <2>2
  <2>4. client = "postgres" =>
          \A q \in taken' : \/ \E v \in Writer : work'[v].pc = "lookup" /\ work'[v].peer = q
                            \/ HasNeighbors(q) => q \in DOMAIN routingTables
    BY <1>1, <2>1, <2>3 DEF TableInv
  <2> QED
    BY <1>1, <2>4 DEF TableInv
<1> QED
  BY <1>1, <1>6, <1>8, <1>9, IdGrown, CacheKept, SetKept, MapKept, RowKept, NbrKept
  DEF Running, Crawling

\* A lookup leaves the visits alone; it may have made a row.
LEMMA LookupStep ==
  ASSUME DataInv, client \in Client, NEW w \in Writer, work[w].pc = "lookup",
         NEW i \in Item, work' = [work EXCEPT ![w] = i], ItemOK(i)',
         i.pc = "lookup", i.peer = work[w].peer,
         Grows(nameId, nameId', Name), SetsGrow, CacheInv', SetInv',
         UNCHANGED <<peerId, visitRows, neighborRows, client, peerMappings, routingTables, cmd,
                     flushed, taken>>
  PROVE  DataInv'
<1> USE DEF DataInv
<1>1. Grow
  BY IdsSame DEF Grow
<1>2. Running'
  BY AtWork DEF Running
<1>3. WorkInv'
  BY <1>1, <1>2, WorkStep
<1>4. \A v \in Writer : work[v].pc = "lookup" =>
         work'[v].pc = "lookup" /\ work'[v].peer = work[v].peer
  BY DEF WorkInv
<1>5. TableInv'
  BY <1>1, <1>4, TableKept
<1> QED
  BY <1>1, <1>3, <1>5, IdGrown, MapKept, RowKept, NbrKept

\* What a writer at its lookups holds.
LEMMA AtLookup ==
  ASSUME DataInv, NEW w \in Writer, work[w].pc = "lookup"
  PROVE  /\ work[w] \in LookupItem /\ ItemOK(work[w]) /\ work \in [Writer -> Item]
         /\ Running /\ client = "postgres" /\ work[w].peer \in Peer /\ work[w].peer \in taken
<1>1. work[w] \in Item /\ ItemOK(work[w]) /\ Running /\ work[w].peer \in Peer
      /\ work[w].peer \in taken /\ work \in [Writer -> Item]
  BY AtWork DEF DataInv, WorkInv
<1> QED
  BY <1>1, ItemShape DEF ItemOK

\* The IDs a writer has got, with one more.
GotId(i, old, n, id) ==
  /\ i.pc = "lookup" /\ i.peer = old.peer /\ i.asked = old.asked
  /\ i.set = old.set /\ i.newSet = old.newSet
  /\ DOMAIN i.ids = DOMAIN old.ids \cup {n} /\ i.ids[n] = id
  /\ \A m \in DOMAIN old.ids : m # n => i.ids[m] = old.ids[m]

LEMMA LookedUp ==
  ASSUME DataInv, NEW w \in Writer, work[w].pc = "lookup", NEW n, NEW id \in Nat,
         n \in NamesOf(work[w].peer),
         work' = [work EXCEPT ![w].ids = Extended(@, n, id)]
  PROVE  \E i \in Item : work' = [work EXCEPT ![w] = i] /\ GotId(i, work[w], n, id)
<1> DEFINE old == work[w]
           i == [old EXCEPT !.ids = Extended(old.ids, n, id)]
<1>1. old \in LookupItem /\ work \in [Writer -> Item] /\ old.peer \in Peer
  BY AtLookup
<1>2. n \in Name
  BY <1>1, VisitType
<1>3. Extended(old.ids, n, id) \in NameMap
  BY <1>1, <1>2, ExtendedMap DEF LookupItem
<1>4. /\ i \in LookupItem /\ i.pc = "lookup" /\ i.peer = old.peer /\ i.asked = old.asked
      /\ i.set = old.set /\ i.newSet = old.newSet /\ i.ids = Extended(old.ids, n, id)
  BY <1>1, <1>3 DEF LookupItem
<1>5. work' = [work EXCEPT ![w] = i]
  BY <1>1
<1>6. DOMAIN i.ids = DOMAIN old.ids \cup {n} /\ i.ids[n] = id
      /\ \A m \in DOMAIN old.ids : m # n => i.ids[m] = old.ids[m]
  BY <1>4 DEF Extended
<1> HIDE DEF i
<1> QED
  BY <1>4, <1>5, <1>6 DEF Item, GotId

LEMMA NextLookedUp ==
  ASSUME DataInv, client \in Client, NEW w \in Writer, work[w].pc = "lookup", NEW n,
         NEW id \in Nat, n \in NamesOf(work[w].peer), id \in {NoId, nameId'[n]},
         n \in Protocol => id # NoId,
         work' = [work EXCEPT ![w].ids = Extended(@, n, id)],
         Grows(nameId, nameId', Name), CacheInv',
         UNCHANGED <<setId, peerId, visitRows, neighborRows, client, setCache, peerMappings,
                     routingTables, cmd, flushed, taken>>
  PROVE  DataInv'
<1>1. PICK i \in Item : work' = [work EXCEPT ![w] = i] /\ GotId(i, work[w], n, id)
  BY LookedUp, Zenon
<1>2. PICK old \in Item : old = work[w]
  BY AtWork DEF DataInv
<1>3. Grow
  BY IdsSame DEF Grow, DataInv
<1>4. ItemOK(old)' /\ old.pc = "lookup"
  BY <1>2, <1>3, AtWork, ItemKept DEF DataInv
<1>5. ItemOK(i)'
  <2>1. i.peer \in taken' /\ client' = "postgres" /\ i.pc = "lookup" /\ i # Idle
    BY <1>1, <1>2, <1>4, AtLookup DEF GotId, Idle
  <2>2. \A m \in DOMAIN i.ids : /\ m \in NamesOf(i.peer) /\ i.ids[m] \in {NoId, nameId'[m]}
                                /\ m \in Protocol => i.ids[m] # NoId
    BY <1>1, <1>2, <1>4 DEF ItemOK, GotId
  <2>3. \A m \in DOMAIN i.asked :
          m \in NamesOf(i.peer) /\ i.asked[m] = nameId'[m] /\ nameId'[m] # NoId
    BY <1>1, <1>2, <1>4 DEF ItemOK, GotId
  <2>4. /\ i.newSet # NoId => RefersToSet(i.peer, i.newSet)'
        /\ i.set \notin {NoId, Pending} => RefersToSet(i.peer, i.set)'
    BY <1>1, <1>2, <1>4 DEF ItemOK, GotId
  <2> QED
    BY <2>1, <2>2, <2>3, <2>4 DEF ItemOK
<1>6. work' = [work EXCEPT ![w] = i] /\ i.pc = "lookup" /\ i.peer = work[w].peer
  BY <1>1 DEF GotId
<1>7. SetInv' /\ SetsGrow
  BY <1>3, SetKept DEF DataInv, Grow
<1> QED
  BY <1>5, <1>6, <1>7, LookupStep

LEMMA NextCacheHits ==
  ASSUME DataInv, client \in Client, NEW w \in Writer, NEW n, CacheHits(w, n)
  PROVE  DataInv'
<1>1. /\ work[w].pc = "lookup" /\ n \in NamesOf(work[w].peer) /\ n \in DOMAIN cache
      /\ work' = [work EXCEPT ![w].ids = Extended(@, n, cache[n])]
      /\ UNCHANGED <<nameId, setId, peerId, visitRows, neighborRows, client, cache, setCache,
                     peerMappings, routingTables, cmd, flushed, taken>>
  BY DEF CacheHits, Missing, dbVars, clientVars, cmdVars
<1>2. Running
  BY <1>1, AtLookup
<1>3. cache[n] = nameId[n] /\ cache[n] \in Nat /\ cache[n] # NoId
  BY <1>1, <1>2, FiniteTables DEF DataInv, CacheInv, IdInv, Running, Crawling
<1>4. Grow
  BY <1>1, IdsSame DEF Grow, DataInv
<1>5. CacheInv'
  BY <1>1, <1>4, CacheKept DEF DataInv, Running, Crawling
<1> QED
  BY <1>1, <1>3, <1>4, <1>5, NextLookedUp DEF Grow

LEMMA NextCacheAnswer ==
  ASSUME DataInv, client \in Client, NEW w \in Writer, NEW n, CacheAnswer(w, n)
  PROVE  DataInv'
<1>1. /\ work[w].pc = "lookup" /\ n \in DOMAIN work[w].asked
      /\ cache' \in CacheAdded(cache, n, work[w].asked[n], Kind(n))
      /\ work' = [work EXCEPT ![w].ids = Extended(@, n, work[w].asked[n])]
      /\ UNCHANGED <<nameId, setId, peerId, visitRows, neighborRows, client, setCache,
                     peerMappings, routingTables, cmd, flushed, taken>>
  BY DEF CacheAnswer, dbVars, cmdVars
<1>2. /\ n \in NamesOf(work[w].peer) /\ work[w].asked[n] = nameId[n] /\ nameId[n] # NoId
      /\ Running /\ n \in Name
  BY <1>1, AtLookup, VisitType DEF ItemOK
<1>3. nameId[n] \in Nat
  BY <1>2, FiniteTables DEF DataInv, IdInv
<1>4. CacheInv'
  <2>1. /\ DOMAIN cache' \subseteq Name
        /\ \A K \in {Agent, Protocol} : Cardinality(DOMAIN cache' \cap K) <= CacheSize
        /\ \A m \in DOMAIN cache' : (m = n /\ cache'[m] = nameId[n])
                                    \/ (m \in DOMAIN cache /\ cache'[m] = cache[m])
    BY <1>1, <1>2, NameCacheAdded DEF DataInv, CacheInv
  <2> QED
    BY <1>1, <1>2, <2>1 DEF DataInv, CacheInv, Running, Crawling
<1>5. Grows(nameId, nameId', Name)
  BY <1>1, IdsSame DEF DataInv
<1> QED
  BY <1>1, <1>2, <1>3, <1>4, <1>5, NextLookedUp

LEMMA NextUpsertName ==
  ASSUME DataInv, client \in Client, NEW w \in Writer, NEW n, UpsertName(w, n)
  PROVE  DataInv'
<1> DEFINE id == nameId'[n]
<1>1. /\ work[w].pc = "lookup" /\ n \in NamesOf(work[w].peer)
      /\ nameId' = Upserted(nameId, {n})
      /\ work' = [work EXCEPT ![w].asked = Extended(@, n, id)]
      /\ UNCHANGED <<setId, peerId, visitRows, neighborRows, client, cache, setCache,
                     peerMappings, routingTables, cmd, flushed, taken>>
  BY DEF UpsertName, Missing, clientVars, cmdVars
<1>2. PICK old \in LookupItem : old = work[w]
  BY <1>1, AtLookup
<1>3. n \in Name /\ old.peer \in taken /\ client = "postgres" /\ work \in [Writer -> Item]
  BY <1>1, <1>2, AtLookup, VisitType
<1>4. Grows(nameId, nameId', Name) /\ id # NoId
  BY <1>1, <1>3, UpsertNames DEF DataInv
<1>5. id \in Nat
  BY <1>3, <1>4, FiniteTables DEF Grows
<1>6. Grow
  BY <1>1, <1>4, IdsSame DEF Grow, DataInv
<1>7. CacheInv' /\ SetInv' /\ SetsGrow
  BY <1>1, <1>6, CacheKept, SetKept DEF DataInv, Running, Grow, Crawling
<1>8. PICK i : i = [old EXCEPT !.asked = Extended(old.asked, n, id)]
  OBVIOUS
<1>9. /\ i \in LookupItem /\ i.pc = "lookup" /\ i.peer = old.peer /\ i.ids = old.ids
      /\ i.asked = Extended(old.asked, n, id) /\ i.set = old.set /\ i.newSet = old.newSet
  <2>1. Extended(old.asked, n, id) \in NameMap
    BY <1>3, <1>5, ExtendedMap DEF LookupItem
  <2> HIDE DEF id
  <2> QED
    BY <1>8, <2>1 DEF LookupItem
<1>10. work' = [work EXCEPT ![w] = i]
  BY <1>1, <1>2, <1>3, <1>8
<1>11. ItemOK(i)'
  <2>1. ItemOK(old)' /\ old.pc = "lookup"
    BY <1>1, <1>2, <1>6, AtLookup, ItemKept DEF Item
  <2>2. \A m \in DOMAIN i.asked :
          m \in NamesOf(i.peer) /\ i.asked[m] = nameId'[m] /\ nameId'[m] # NoId
    <3>1. DOMAIN i.asked = DOMAIN old.asked \cup {n} /\ i.asked[n] = id
          /\ \A m \in DOMAIN old.asked : m # n => i.asked[m] = old.asked[m]
      BY <1>9 DEF Extended
    <3>2. \A m \in DOMAIN old.asked :
            m \in NamesOf(old.peer) /\ old.asked[m] = nameId'[m] /\ nameId'[m] # NoId
      BY <2>1 DEF ItemOK
    <3> QED
      BY <1>1, <1>2, <1>4, <1>9, <3>1, <3>2
  <2>3. client' = "postgres" /\ i.peer \in taken'
    BY <1>1, <1>3, <1>9
  <2>4. /\ \A m \in DOMAIN i.ids : /\ m \in NamesOf(i.peer) /\ i.ids[m] \in {NoId, nameId'[m]}
                                   /\ m \in Protocol => i.ids[m] # NoId
        /\ i.newSet # NoId => RefersToSet(i.peer, i.newSet)'
        /\ i.set \notin {NoId, Pending} => RefersToSet(i.peer, i.set)'
    BY <1>9, <2>1 DEF ItemOK
  <2> QED
    BY <1>9, <2>2, <2>3, <2>4 DEF ItemOK
<1> QED
  BY <1>1, <1>2, <1>4, <1>7, <1>9, <1>10, <1>11, LookupStep DEF Item

\* A writer that has an answer about its set, or none.
LEMMA NextSetKnown ==
  ASSUME DataInv, client \in Client, NEW w \in Writer, work[w].pc = "lookup",
         NEW p, p = work[w].peer, NEW set \in {Pending} \cup Nat, NEW newSet \in Nat,
         work' = [work EXCEPT ![w] = [@ EXCEPT !.set = set, !.newSet = newSet]],
         Grows(nameId, nameId', Name), SetsGrow, SetInv', CacheInv',
         newSet \notin {NoId, work[w].newSet} => RefersToSet(p, newSet)',
         set \notin {NoId, Pending} => RefersToSet(p, set)',
         UNCHANGED <<peerId, visitRows, neighborRows, client, peerMappings, routingTables, cmd,
                     flushed, taken>>
  PROVE  DataInv'
<1>1. PICK old \in LookupItem : old = work[w]
  BY AtLookup
<1>2. PICK i : i = [old EXCEPT !.set = set, !.newSet = newSet]
  OBVIOUS
<1>3. /\ i \in LookupItem /\ i.pc = "lookup" /\ i.peer = old.peer /\ i.ids = old.ids
      /\ i.asked = old.asked /\ i.set = set /\ i.newSet = newSet
  BY <1>1, <1>2 DEF LookupItem
<1>4. work' = [work EXCEPT ![w] = i]
  BY <1>1, <1>2
<1>5. Grow
  BY IdsSame DEF Grow, DataInv
<1>6. ItemOK(old)' /\ old.pc = "lookup"
  BY <1>1, <1>5, AtLookup, ItemKept DEF Item
<1>7. newSet # NoId => RefersToSet(old.peer, newSet)'
  BY <1>1, <1>6 DEF ItemOK
<1>8. ItemOK(i)'
  <2>1. i.peer \in taken' /\ client' = "postgres"
    BY <1>1, <1>3, AtLookup
  <2> QED
    BY <1>1, <1>3, <1>6, <1>7, <2>1 DEF ItemOK
<1> QED
  BY <1>1, <1>3, <1>4, <1>8, LookupStep DEF Item

LEMMA NextLookupFails ==
  ASSUME DataInv, client \in Client, NEW w \in Writer, NEW n, LookupFails(w, n)
  PROVE  DataInv'
<1>1. /\ work[w].pc = "lookup" /\ n \in NamesOf(work[w].peer)
      /\ \/ n \in Agent /\ work' = [work EXCEPT ![w].ids = Extended(@, n, NoId)]
         \/ n \in Protocol /\ work' = [work EXCEPT ![w].set = NoId]
      /\ nameId' \in {nameId, Upserted(nameId, {n})}
      /\ UNCHANGED <<setId, peerId, visitRows, neighborRows, client, cache, setCache,
                     peerMappings, routingTables, cmd, flushed, taken>>
  BY DEF LookupFails, Missing, clientVars, cmdVars
<1>2. n \in Name /\ work[w] \in LookupItem /\ work \in [Writer -> Item]
  BY <1>1, AtLookup, VisitType
<1>3. Grows(nameId, nameId', Name)
  BY <1>1, <1>2, IdsSame, UpsertNames DEF DataInv
<1>4. Grow
  BY <1>1, <1>3, IdsSame DEF Grow, DataInv
<1>5. CacheInv' /\ SetInv' /\ SetsGrow
  BY <1>1, <1>4, CacheKept, SetKept DEF DataInv, Running, Grow, Crawling
<1>6. NoId \in Nat
  BY DEF NoId
<1>7. CASE n \in Agent /\ work' = [work EXCEPT ![w].ids = Extended(@, n, NoId)]
  <2>1. n \notin Protocol
    BY <1>7, StoreConstants
  <2> QED
    BY <1>1, <1>3, <1>5, <1>6, <1>7, <2>1, NextLookedUp
<1>8. CASE n \in Protocol /\ work' = [work EXCEPT ![w].set = NoId]
  <2>1. work[w].newSet \in Nat
        /\ work' = [work EXCEPT ![w] = [@ EXCEPT !.set = NoId, !.newSet = work[w].newSet]]
    <3>1. [work[w] EXCEPT !.set = NoId] = [work[w] EXCEPT !.set = NoId, !.newSet = work[w].newSet]
      BY <1>2 DEF LookupItem
    <3> QED
      BY <1>2, <1>8, <3>1 DEF LookupItem
  <2> QED
    BY <1>1, <1>3, <1>5, <1>6, <2>1, NextSetKnown
<1> QED
  BY <1>1, <1>7, <1>8

\* Once all protocols are found the key is the set as the tables have it.
LEMMA KeyIs ==
  ASSUME DataInv, NEW w \in Writer, AllFound(w)
  PROVE  /\ work[w].pc = "lookup" /\ HasIds(work[w].peer)
         /\ Key(w) = ProtocolIDs(work[w].peer, nameId)
         /\ Key(w) \in Sets /\ Key(w) \subseteq {NoId} \union {nameId[n] : n \in Protocol}
<1> DEFINE p == work[w].peer
<1>1. work[w].pc = "lookup" /\ ItemOK(work[w]) /\ p \in Peer
      /\ VisitOf[p].protocols \ {Empty} \subseteq DOMAIN work[w].ids
  BY AtLookup DEF AllFound
<1>2. VisitOf[p].protocols \subseteq Protocol \cup {Empty} /\ Protocol \subseteq Name
  BY <1>1, VisitType DEF Name
<1>3. \A n \in VisitOf[p].protocols \ {Empty} :
         n \in Protocol /\ work[w].ids[n] = nameId[n] /\ nameId[n] # NoId
  BY <1>1, <1>2 DEF ItemOK
<1>4. Key(w) = ProtocolIDs(p, nameId)
  BY <1>3 DEF Key, ProtocolIDs
<1>5. Key(w) \subseteq {NoId} \union {nameId[n] : n \in Protocol}
  BY <1>3, <1>4 DEF ProtocolIDs
<1>6. {NoId} \union {nameId[n] : n \in Protocol} \subseteq 0..Cardinality(Name)
  BY <1>2, FiniteTables DEF DataInv, IdInv, NoId
<1> QED
  BY <1>1, <1>3, <1>4, <1>5, <1>6 DEF HasIds, Sets

LEMMA NextSetCacheHits ==
  ASSUME DataInv, client \in Client, NEW w \in Writer, SetCacheHits(w)
  PROVE  DataInv'
<1> DEFINE id == setCache[Key(w)]
<1>1. /\ AllFound(w) /\ Key(w) \in DOMAIN setCache
      /\ work' = [work EXCEPT ![w].set = id]
      /\ UNCHANGED <<nameId, setId, peerId, visitRows, neighborRows, client, cache, setCache,
                     peerMappings, routingTables, cmd, flushed, taken>>
  BY DEF SetCacheHits, dbVars, clientVars, cmdVars
<1>2. /\ work[w].pc = "lookup" /\ HasIds(work[w].peer)
      /\ Key(w) = ProtocolIDs(work[w].peer, nameId)
  BY <1>1, KeyIs
<1>3. work[w] \in LookupItem /\ work[w].peer \in Peer
  BY <1>2, AtLookup
<1>4. Key(w) \in DOMAIN setId /\ id = setId[Key(w)] /\ id \in Nat
  <2>1. Cardinality(DOMAIN setId) \in Nat
    BY SetsFinite DEF DataInv
  <2> QED
    BY <1>1, <2>1 DEF DataInv, SetInv
<1>5. Grow
  BY <1>1, IdsSame DEF Grow, DataInv
<1>6. CacheInv' /\ SetInv' /\ SetsGrow /\ Grows(nameId, nameId', Name)
  BY <1>1, <1>5, CacheKept, SetKept DEF DataInv, Running, Grow, Crawling
<1>7. RefersToSet(work[w].peer, id)
  BY <1>2, <1>4 DEF RefersToSet
<1>8. PICK p \in Peer : p = work[w].peer
  BY <1>3
<1>9. PICK s \in Nat : s = id
  BY <1>4
<1>10. RefersToSet(p, s)'
  BY <1>5, <1>7, <1>8, <1>9, RefersKept
<1>11. work' = [work EXCEPT ![w] = [@ EXCEPT !.set = s, !.newSet = work[w].newSet]]
       /\ work[w].newSet \in Nat
  <2>1. [work[w] EXCEPT !.set = s] = [work[w] EXCEPT !.set = s, !.newSet = work[w].newSet]
    BY <1>3 DEF LookupItem
  <2> QED
    BY <1>1, <1>3, <1>9, <2>1 DEF LookupItem
<1> HIDE DEF id
<1> QED
  BY <1>1, <1>2, <1>6, <1>8, <1>10, <1>11, NextSetKnown

LEMMA NextUpsertSet ==
  ASSUME DataInv, client \in Client, NEW w \in Writer, UpsertSet(w)
  PROVE  DataInv'
<1>0. PICK k : k = Key(w)
  OBVIOUS
<1>1. /\ AllFound(w)
      /\ setId' = Inserted(setId, k)
      /\ work' = [work EXCEPT ![w].newSet = setId'[k]]
      /\ UNCHANGED <<nameId, peerId, visitRows, neighborRows, client, cache, setCache,
                     peerMappings, routingTables, cmd, flushed, taken>>
  BY <1>0 DEF UpsertSet, clientVars, cmdVars
<1>2. /\ work[w].pc = "lookup" /\ HasIds(work[w].peer) /\ work[w].set = Pending
      /\ k = ProtocolIDs(work[w].peer, nameId) /\ k \in Sets
      /\ k \subseteq {NoId} \union {nameId[n] : n \in Protocol}
  BY <1>0, <1>1, KeyIs DEF AllFound
<1>3. work[w] \in LookupItem /\ work[w].peer \in Peer
  BY <1>2, AtLookup
<1>4. SetInv' /\ SetsGrow /\ k \in DOMAIN setId' /\ setId'[k] \in Nat \ {NoId}
  BY <1>1, <1>2, InsertedIs DEF DataInv
<1>5. Grow /\ Grows(nameId, nameId', Name)
  BY <1>1, <1>4, IdsSame DEF Grow, DataInv
<1>6. CacheInv'
  BY <1>1, <1>5, CacheKept DEF DataInv, Running, Crawling
<1>7. PICK s \in Nat : s = setId'[k]
  BY <1>4
<1>10. PICK p : p = work[w].peer
  OBVIOUS
<1>8. RefersToSet(p, s)'
  BY <1>1, <1>2, <1>4, <1>7, <1>10 DEF RefersToSet, HasIds
<1>9. work' = [work EXCEPT ![w] = [@ EXCEPT !.set = Pending, !.newSet = s]]
  <2>1. [work[w] EXCEPT !.newSet = s] = [work[w] EXCEPT !.set = Pending, !.newSet = s]
    BY <1>2, <1>3 DEF LookupItem
  <2> QED
    BY <1>1, <1>7, <2>1
<1> QED
  BY <1>1, <1>2, <1>4, <1>5, <1>6, <1>8, <1>9, <1>10, NextSetKnown

LEMMA NextCacheSet ==
  ASSUME DataInv, client \in Client, NEW w \in Writer, CacheSet(w)
  PROVE  DataInv'
<1>0. PICK k : k = Key(w)
  OBVIOUS
<1>1. /\ AllFound(w) /\ work[w].newSet # NoId
      /\ setCache' \in CacheAdded(setCache, k, work[w].newSet, Sets)
      /\ work' = [work EXCEPT ![w].set = work[w].newSet]
      /\ UNCHANGED <<nameId, setId, peerId, visitRows, neighborRows, client, cache,
                     peerMappings, routingTables, cmd, flushed, taken>>
  BY <1>0 DEF CacheSet, dbVars, cmdVars
<1>2. work[w].pc = "lookup" /\ k = ProtocolIDs(work[w].peer, nameId) /\ k \in Sets
  BY <1>0, <1>1, KeyIs
<1>3. work[w] \in LookupItem /\ work[w].peer \in Peer /\ ItemOK(work[w])
  BY <1>2, AtLookup
<1>4. RefersToSet(work[w].peer, work[w].newSet)
  BY <1>1, <1>2, <1>3 DEF ItemOK
<1>5. Grow /\ Grows(nameId, nameId', Name) /\ SetsGrow
  BY <1>1, IdsSame DEF Grow, DataInv
<1>6. CacheInv'
  BY <1>1, <1>5, CacheKept DEF DataInv, Running, Crawling
<1>7. SetInv'
  <2>1. k \in DOMAIN setId /\ setId[k] = work[w].newSet
    BY <1>2, <1>4 DEF RefersToSet
  <2>2. DOMAIN setCache \cap Sets = DOMAIN setCache
    BY DEF DataInv, SetInv
  <2>3. /\ Cardinality(DOMAIN setCache' \cap Sets) <= CacheSize
        /\ \A m \in DOMAIN setCache' : (m = k /\ setCache'[m] = work[w].newSet)
                                       \/ (m \in DOMAIN setCache /\ setCache'[m] = setCache[m])
    BY <1>1, <1>2, <2>2, SetsFinite, CacheAddedIs DEF DataInv, SetInv
  <2>4. DOMAIN setCache' \subseteq DOMAIN setId /\ \A m \in DOMAIN setCache' : setCache'[m] = setId[m]
    BY <2>1, <2>3 DEF DataInv, SetInv
  <2>5. DOMAIN setCache' \cap Sets = DOMAIN setCache'
    BY <2>4 DEF DataInv, SetInv
  <2> QED
    BY <1>1, <2>3, <2>4, <2>5 DEF DataInv, SetInv
<1>8. PICK s \in Nat : s = work[w].newSet
  BY <1>3 DEF LookupItem
<1>11. PICK p \in Peer : p = work[w].peer
  BY <1>3
<1>9. RefersToSet(p, s)'
  BY <1>4, <1>5, <1>8, <1>11, RefersKept
<1>10. work' = [work EXCEPT ![w] = [@ EXCEPT !.set = s, !.newSet = s]]
  <2>1. [work[w] EXCEPT !.set = s] = [work[w] EXCEPT !.set = s, !.newSet = s]
    BY <1>3, <1>8 DEF LookupItem
  <2> QED
    BY <1>1, <1>8, <2>1
<1> QED
  BY <1>1, <1>2, <1>5, <1>6, <1>7, <1>8, <1>9, <1>10, <1>11, NextSetKnown

LEMMA NextUpsertSetFails ==
  ASSUME DataInv, client \in Client, NEW w \in Writer, UpsertSetFails(w)
  PROVE  DataInv'
<1>0. PICK k : k = Key(w)
  OBVIOUS
<1>1. /\ AllFound(w) /\ work[w].newSet = NoId
      /\ setId' \in {setId, Inserted(setId, k)}
      /\ work' = [work EXCEPT ![w].set = NoId]
      /\ UNCHANGED <<nameId, peerId, visitRows, neighborRows, client, cache, setCache,
                     peerMappings, routingTables, cmd, flushed, taken>>
  BY <1>0 DEF UpsertSetFails, clientVars, cmdVars
<1>2. /\ work[w].pc = "lookup" /\ k \in Sets
      /\ k \subseteq {NoId} \union {nameId[n] : n \in Protocol}
  BY <1>0, <1>1, KeyIs
<1>3. work[w] \in LookupItem
  BY <1>2, AtLookup
<1>4. SetInv' /\ SetsGrow
  BY <1>1, <1>2, InsertedIs DEF DataInv
<1>5. Grow /\ Grows(nameId, nameId', Name)
  BY <1>1, <1>4, IdsSame DEF Grow, DataInv
<1>6. CacheInv'
  BY <1>1, <1>5, CacheKept DEF DataInv, Running, Crawling
<1>7. work' = [work EXCEPT ![w] = [@ EXCEPT !.set = NoId, !.newSet = NoId]]
  <2>1. [work[w] EXCEPT !.set = NoId] = [work[w] EXCEPT !.set = NoId, !.newSet = NoId]
    BY <1>1, <1>3 DEF LookupItem
  <2> QED
    BY <1>1, <2>1
<1>8. NoId \in Nat
  BY DEF NoId
<1> QED
  BY <1>1, <1>2, <1>4, <1>5, <1>6, <1>7, <1>8, NextSetKnown

LEMMA NextKeepNeighbors ==
  ASSUME DataInv, client \in Client, NEW w \in Writer, KeepNeighbors(w)
  PROVE  DataInv'
<1>1. PICK old \in LookupItem : old = work[w]
  BY AtLookup DEF KeepNeighbors
<1>3. PICK p : p = old.peer
  OBVIOUS
<1> DEFINE agent == VisitOf[p].agent
<1>2. PICK i : i = [pc |-> "insert", peer |-> p, set |-> old.set,
                    agent |-> IF agent = Empty THEN NoId ELSE old.ids[agent]]
  OBVIOUS
<1>4. /\ work[w].pc = "lookup" /\ old.set # Pending /\ (agent = Empty \/ agent \in DOMAIN old.ids)
      /\ work' = [work EXCEPT ![w] = i]
      /\ routingTables' = IF HasNeighbors(p) THEN Extended(routingTables, p, VisitOf[p].neighbors)
                          ELSE routingTables
      /\ UNCHANGED <<nameId, setId, peerId, visitRows, neighborRows, client, cache, setCache,
                     peerMappings, cmd, flushed, taken>>
  BY <1>1, <1>2, <1>3 DEF KeepNeighbors, dbVars, cmdVars
<1>5. Running /\ Running' /\ ItemOK(old) /\ client = "postgres" /\ p \in taken /\ p \in Peer
      /\ old.pc = "lookup"
  BY <1>1, <1>3, <1>4, AtLookup DEF Running
<1>6. /\ i.pc = "insert" /\ i.peer = p /\ i.set = old.set
      /\ i.agent = IF agent = Empty THEN NoId ELSE old.ids[agent]
  BY <1>2
<1>7. Grow
  BY <1>4, IdsSame DEF Grow, DataInv
<1>8. /\ i.agent # NoId => agent \in Agent /\ i.agent = nameId[agent]
      /\ i \in InsertItem
  <2>1. agent \in Agent \cup {Empty}
    BY <1>5, VisitType
  <2>2. agent # Empty => old.ids[agent] \in {NoId, nameId[agent]}
    BY <1>4, <1>5 DEF ItemOK
  <2>3. \A n \in Name : nameId[n] \in Nat
    BY FiniteTables DEF DataInv, IdInv
  <2>4. i.agent \in Nat
    BY <1>6, <2>1, <2>2, <2>3 DEF NoId, Name
  <2>5. i.set \in Nat
    BY <1>1, <1>4, <1>6 DEF LookupItem
  <2>6. i \in InsertItem
    <3> HIDE DEF agent
    <3> QED
      BY <1>2, <1>5, <2>4, <2>5 DEF InsertItem
  <2> QED
    BY <1>6, <2>1, <2>2, <2>6
<1>9. ItemOK(i)'
  <2>1. i.set \notin {NoId, Pending} => RefersToSet(p, i.set)
    BY <1>3, <1>5, <1>6 DEF ItemOK
  <2>2. ItemOK(i)
    BY <1>5, <1>6, <1>8, <2>1 DEF ItemOK, Idle
  <2> QED
    BY <1>7, <1>8, <2>2, ItemKept DEF Item
<1>10. WorkInv'
  BY <1>4, <1>5, <1>7, <1>8, <1>9, WorkStep DEF DataInv, Item
<1>11. TableInv'
  <2>1. DOMAIN routingTables' = IF HasNeighbors(p) THEN DOMAIN routingTables \cup {p}
                                ELSE DOMAIN routingTables
    BY <1>4 DEF Extended
  <2>2. \A q \in DOMAIN routingTables' : routingTables'[q] = VisitOf[q].neighbors
    BY <1>4 DEF Extended, DataInv, TableInv
  <2>3. \A v \in Writer : v # w => work'[v] = work[v]
    BY <1>4 DEF DataInv, WorkInv
  <2>4. \A q \in taken : \/ \E v \in Writer : work'[v].pc = "lookup" /\ work'[v].peer = q
                         \/ HasNeighbors(q) => q \in DOMAIN routingTables'
    <3> SUFFICES ASSUME NEW q \in taken, HasNeighbors(q), q \notin DOMAIN routingTables'
                 PROVE  \E v \in Writer : work'[v].pc = "lookup" /\ work'[v].peer = q
      OBVIOUS
    <3>1. q # p /\ q \notin DOMAIN routingTables
      BY <2>1
    <3>2. PICK v \in Writer : work[v].pc = "lookup" /\ work[v].peer = q
      BY <1>5, <3>1 DEF DataInv, TableInv, Running
    <3>3. v # w
      BY <1>1, <1>3, <3>1, <3>2
    <3> QED
      BY <2>3, <3>2, <3>3
  <2> QED
    BY <1>4, <1>5, <2>1, <2>2, <2>4 DEF DataInv, TableInv
<1> QED
  BY <1>4, <1>7, <1>10, <1>11, IdGrown, CacheKept, SetKept, MapKept, RowKept, NbrKept
  DEF DataInv, Running, Crawling

\* The row of a visit refers only to what is there.
LEMMA RowStep ==
  ASSUME DataInv, Grow, NEW w \in Writer, work[w].pc = "insert",
         visitRows' = visitRows \/ visitRows' = visitRows \cup {VisitRow(w)}
  PROVE  RowInv'
<1>1. CASE visitRows' = visitRows
  BY <1>1, RowKept DEF DataInv
<1>2. CASE visitRows' = visitRows \cup {VisitRow(w)}
  <2> DEFINE OK(v) == /\ v.peer \in Peer
                      /\ v.agent # NoId => /\ VisitOf[v.peer].agent \in Agent
                                           /\ v.agent = nameId[VisitOf[v.peer].agent]
                      /\ v.set # NoId => RefersToSet(v.peer, v.set)
  <2>1. work[w].peer \in Peer /\ ItemOK(work[w]) /\ work[w] \in InsertItem
    BY AtWork, ItemShape DEF DataInv
  <2>2. work[w].set # Pending
    BY <2>1 DEF InsertItem, Pending
  <2>3. OK(VisitRow(w))
    BY <2>1, <2>2 DEF VisitRow, ItemOK
  <2>4. \A v \in visitRows' : OK(v)
    BY <1>2, <2>3 DEF DataInv, RowInv
  <2>5. \A n \in Agent : nameId[n] # NoId => nameId'[n] = nameId[n]
    BY DEF Grow, Grows, Name
  <2>6. ASSUME NEW v \in visitRows'
        PROVE  /\ v.peer \in Peer
               /\ v.agent # NoId => /\ VisitOf[v.peer].agent \in Agent
                                    /\ v.agent = nameId'[VisitOf[v.peer].agent]
               /\ v.set # NoId => RefersToSet(v.peer, v.set)'
    <3>1. PICK u : u = v
      OBVIOUS
    <3>2. u.peer \in Peer /\ (u.set # NoId => RefersToSet(u.peer, u.set)')
      BY <2>4, <3>1, RefersKept
    <3>3. u.agent # NoId => /\ VisitOf[u.peer].agent \in Agent
                            /\ u.agent = nameId'[VisitOf[u.peer].agent]
      BY <2>4, <2>5, <3>1
    <3> QED
      BY <3>1, <3>2, <3>3 DEF RefersToSet
  <2> QED
    BY <2>6 DEF RowInv
<1> QED
  BY <1>1, <1>2

\* A writer that has stored its visit, or has failed to.
LEMMA InsertStep ==
  ASSUME DataInv, client \in Client, NEW w \in Writer, work[w].pc = "insert",
         NEW i \in Item, work' = [work EXCEPT ![w] = i], ItemOK(i)',
         Grows(peerId, peerId', Peer),
         visitRows' = visitRows \/ visitRows' = visitRows \cup {VisitRow(w)},
         UNCHANGED <<nameId, setId, neighborRows, client, cache, setCache, peerMappings,
                     routingTables, cmd, flushed, taken>>
  PROVE  DataInv'
<1>1. Grow
  BY IdsSame DEF Grow, DataInv
<1>2. Running /\ Running' /\ client = "postgres"
  BY AtWork DEF ItemOK, DataInv, Running
<1>3. WorkInv'
  BY <1>1, <1>2, WorkStep DEF DataInv
<1>4. \A v \in Writer : work[v].pc = "lookup" =>
         work'[v].pc = "lookup" /\ work'[v].peer = work[v].peer
  BY DEF DataInv, WorkInv
<1>5. TableInv'
  BY <1>1, <1>4, TableKept DEF DataInv
<1>6. RowInv'
  BY <1>1, RowStep
<1> QED
  BY <1>1, <1>2, <1>3, <1>5, <1>6, IdGrown, CacheKept, SetKept, MapKept, NbrKept
  DEF DataInv, Running, Crawling

LEMMA NextStoreVisit ==
  ASSUME DataInv, client \in Client, NEW w \in Writer, StoreVisit(w)
  PROVE  DataInv'
<1>1. PICK p : p = work[w].peer
  OBVIOUS
<1>2. PICK i : i = [pc |-> "map", peer |-> p, id |-> peerId'[p]]
  OBVIOUS
<1>3. /\ work[w].pc = "insert" /\ work' = [work EXCEPT ![w] = i]
      /\ visitRows' = visitRows \cup {VisitRow(w)} /\ peerId' = Upserted(peerId, {p})
      /\ UNCHANGED <<nameId, setId, neighborRows, client, cache, setCache, peerMappings,
                     routingTables, cmd, flushed, taken>>
  BY <1>1, <1>2 DEF StoreVisit, clientVars, cmdVars
<1>4. p \in Peer /\ p \in taken /\ client = "postgres"
  BY <1>1, <1>3, AtWork DEF DataInv, ItemOK
<1>5. Grows(peerId, peerId', Peer) /\ peerId'[p] # NoId
  BY <1>3, <1>4, UpsertPeers DEF DataInv
<1>6. peerId'[p] \in Nat
  BY <1>4, <1>5, StoreConstants, FS_CardinalityType DEF Grows
<1>7. i \in Item /\ i.pc = "map" /\ i.peer = p /\ i.id = peerId'[p]
  BY <1>2, <1>4, <1>6 DEF Item, MapItem
<1>8. ItemOK(i)'
  BY <1>3, <1>4, <1>5, <1>7 DEF ItemOK
<1> QED
  BY <1>3, <1>5, <1>7, <1>8, InsertStep

LEMMA NextFailVisit ==
  ASSUME DataInv, client \in Client, NEW w \in Writer, FailVisit(w)
  PROVE  DataInv'
<1>1. PICK p : p = work[w].peer
  OBVIOUS
<1>2. /\ work[w].pc = "insert" /\ work' = [work EXCEPT ![w] = Idle]
      /\ \/ visitRows' = visitRows /\ peerId' = peerId
         \/ visitRows' = visitRows \cup {VisitRow(w)} /\ peerId' = Upserted(peerId, {p})
      /\ UNCHANGED <<nameId, setId, neighborRows, client, cache, setCache, peerMappings,
                     routingTables, cmd, flushed, taken>>
  BY <1>1 DEF FailVisit, clientVars, cmdVars
<1>3. p \in Peer
  BY <1>1, <1>2, AtWork DEF DataInv
<1>4. Grows(peerId, peerId', Peer)
  BY <1>2, <1>3, UpsertPeers, IdsSame DEF DataInv
<1> QED
  BY <1>2, <1>4, IdleOK, InsertStep

LEMMA NextMapPeer ==
  ASSUME DataInv, client \in Client, NEW w \in Writer, MapPeer(w)
  PROVE  DataInv'
<1>1. PICK p : p = work[w].peer
  OBVIOUS
<1>2. /\ work[w].pc = "map" /\ work' = [work EXCEPT ![w] = Idle]
      /\ peerMappings' = Extended(peerMappings, p, work[w].id)
      /\ UNCHANGED <<nameId, setId, peerId, visitRows, neighborRows, client, cache, setCache,
                     routingTables, cmd, flushed, taken>>
  BY <1>1 DEF MapPeer, dbVars, cmdVars
<1>3. p \in Peer /\ work[w].id = peerId[p] /\ peerId[p] # NoId /\ Running /\ Running'
  BY <1>1, <1>2, AtWork DEF DataInv, ItemOK, Running
<1>4. Grow
  BY <1>2, IdsSame DEF Grow, DataInv
<1>5. MapInv'
  <2>1. ASSUME NEW q \in DOMAIN peerMappings'
        PROVE  q \in Peer /\ peerMappings'[q] = peerId[q] /\ peerId[q] # NoId
    <3>1. CASE q = p
      BY <1>2, <1>3, <3>1 DEF Extended
    <3>2. CASE q # p
      <4>1. q \in DOMAIN peerMappings /\ peerMappings'[q] = peerMappings[q]
        BY <1>2, <3>2 DEF Extended
      <4> QED
        BY <4>1 DEF DataInv, MapInv
    <3> QED
      BY <3>1, <3>2
  <2> QED
    BY <1>2, <2>1 DEF MapInv
<1>6. WorkInv'
  BY <1>2, <1>3, <1>4, IdleOK, WorkStep DEF DataInv
<1>7. \A v \in Writer : work[v].pc = "lookup" => work'[v] = work[v]
  BY <1>2 DEF DataInv, WorkInv
<1>8. TableInv'
  BY <1>2, <1>4, <1>7, TableKept DEF DataInv
<1> QED
  BY <1>2, <1>4, <1>5, <1>6, <1>8, IdGrown, CacheKept, SetKept, RowKept, NbrKept
  DEF DataInv, Running, Crawling

LEMMA NextWriteNeighbors ==
  ASSUME DataInv, client \in Client, NEW w \in Writer, WriteNeighbors(w)
  PROVE  DataInv'
<1>1. PICK p : p = work[w].peer
  OBVIOUS
<1>2. PICK i : i = [pc |-> "visit", peer |-> p]
  OBVIOUS
<1>3. /\ work[w].pc = "neighbors" /\ work' = [work EXCEPT ![w] = i]
      /\ neighborRows' = IF HasNeighbors(p) THEN Extended(neighborRows, p, VisitOf[p].neighbors)
                         ELSE neighborRows
      /\ UNCHANGED <<nameId, setId, peerId, visitRows, client, cache, setCache, peerMappings,
                     routingTables, cmd, flushed, taken>>
  BY <1>1, <1>2 DEF WriteNeighbors, clientVars, cmdVars
<1>4. p \in Peer /\ p \in taken /\ Running /\ Running' /\ client = "json"
  BY <1>1, <1>3, AtWork DEF DataInv, ItemOK, Running
<1>5. /\ DOMAIN neighborRows' = IF HasNeighbors(p) THEN DOMAIN neighborRows \cup {p}
                                ELSE DOMAIN neighborRows
      /\ \A q \in DOMAIN neighborRows' :
           neighborRows'[q] = VisitOf[q].neighbors \/ (q \in DOMAIN neighborRows
                                                       /\ neighborRows'[q] = neighborRows[q])
  BY <1>3 DEF Extended
<1>6. Grow
  BY <1>3, <1>5, IdsSame DEF Grow, DataInv
<1>7. i \in Item /\ i.pc = "visit" /\ i.peer = p
  BY <1>2, <1>4 DEF Item, FileItem
<1>8. ItemOK(i)'
  BY <1>3, <1>4, <1>5, <1>7 DEF ItemOK
<1>9. WorkInv'
  BY <1>3, <1>4, <1>6, <1>7, <1>8, WorkStep DEF DataInv
<1>10. \A v \in Writer : work[v].pc = "lookup" => work'[v] = work[v]
  BY <1>3 DEF DataInv, WorkInv
<1>11. TableInv'
  BY <1>3, <1>6, <1>10, TableKept DEF DataInv
<1>12. NbrInv'
  <2>1. \A q \in Peer : Lines(q) = VisitOf[q].neighbors /\ Lines(q)' = VisitOf[q].neighbors
    BY <1>3, <1>4 DEF Lines
  <2>2. \A q \in DOMAIN neighborRows' : q \in Peer /\ neighborRows'[q] = VisitOf[q].neighbors
    BY <1>4, <1>5, <2>1 DEF DataInv, NbrInv
  <2>3. \A q \in DOMAIN neighborRows' : q \in Peer /\ neighborRows'[q] = Lines(q)'
    BY <2>1, <2>2
  <2> QED
    BY <1>3, <1>4, <1>5, <2>3 DEF DataInv, NbrInv
<1> QED
  BY <1>3, <1>6, <1>9, <1>11, <1>12, IdGrown, CacheKept, SetKept, MapKept, RowKept
  DEF DataInv, Running, Crawling

LEMMA NextWriteVisit ==
  ASSUME DataInv, client \in Client, NEW w \in Writer, WriteVisit(w)
  PROVE  DataInv'
<1>1. PICK p : p = work[w].peer
  OBVIOUS
<1>2. /\ work[w].pc = "visit" /\ work' = [work EXCEPT ![w] = Idle]
      /\ visitRows' = visitRows \cup {[peer |-> p, agent |-> NoId, set |-> NoId]}
      /\ UNCHANGED <<nameId, setId, peerId, neighborRows, client, cache, setCache, peerMappings,
                     routingTables, cmd, flushed, taken>>
  BY <1>1 DEF WriteVisit, clientVars, cmdVars
<1>3. p \in Peer /\ Running /\ Running' /\ client = "json"
      /\ (HasNeighbors(p) => p \in DOMAIN neighborRows)
  BY <1>1, <1>2, AtWork DEF DataInv, ItemOK, Running
<1>4. Grow
  BY <1>2, IdsSame DEF Grow, DataInv
<1>5. WorkInv'
  BY <1>2, <1>3, <1>4, IdleOK, WorkStep DEF DataInv
<1>6. \A v \in Writer : work[v].pc = "lookup" => work'[v] = work[v]
  BY <1>2 DEF DataInv, WorkInv
<1>7. TableInv'
  BY <1>2, <1>4, <1>6, TableKept DEF DataInv
<1>8. RowInv'
  <2> DEFINE row == [peer |-> p, agent |-> NoId, set |-> NoId]
  <2>1. \A n \in Agent : nameId'[n] = nameId[n]
    BY <1>2
  <2>2. \A v \in visitRows : v.peer \in Peer /\ (v.set # NoId => RefersToSet(v.peer, v.set)')
    BY <1>4, RefersKept DEF DataInv, RowInv
  <2>3. row.peer = p /\ row.agent = NoId /\ row.set = NoId
    OBVIOUS
  <2> HIDE DEF row
  <2>4. \A v \in visitRows' : v = row \/ v \in visitRows
    BY <1>2 DEF row
  <2>5. ASSUME NEW v \in visitRows'
        PROVE  /\ v.peer \in Peer /\ (v.set # NoId => RefersToSet(v.peer, v.set)')
               /\ v.agent # NoId => /\ VisitOf[v.peer].agent \in Agent
                                    /\ v.agent = nameId'[VisitOf[v.peer].agent]
    BY <1>3, <2>1, <2>2, <2>3, <2>4 DEF DataInv, RowInv
  <2> QED
    BY <2>5 DEF RowInv
<1>9. NbrInv'
  <2>1. \A q \in Peer : Lines(q)' = Lines(q)
    BY <1>2 DEF Lines
  <2>2. \A v \in visitRows' : HasNeighbors(v.peer) => v.peer \in DOMAIN neighborRows
    BY <1>2, <1>3 DEF DataInv, NbrInv
  <2> QED
    BY <1>2, <1>3, <2>1, <2>2 DEF DataInv, NbrInv
<1> QED
  BY <1>2, <1>4, <1>5, <1>7, <1>8, <1>9, IdGrown, CacheKept, SetKept, MapKept
  DEF DataInv, Running, Crawling

LEMMA NextWriteFails ==
  ASSUME DataInv, client \in Client, NEW w \in Writer, NEW file, WriteFails(w, file)
  PROVE  DataInv'
<1>1. /\ work[w].pc \in {"neighbors", "visit"} /\ work' = [work EXCEPT ![w] = Idle]
      /\ UNCHANGED <<nameId, setId, peerId, visitRows, neighborRows, client, cache, setCache,
                     peerMappings, routingTables, cmd, flushed, taken>>
  BY DEF WriteFails, clientVars, cmdVars
<1>2. Running /\ Running'
  BY <1>1, AtWork DEF DataInv, Running
<1>3. Grow
  BY <1>1, IdsSame DEF Grow, DataInv
<1>4. WorkInv'
  BY <1>1, <1>2, <1>3, IdleOK, WorkStep DEF DataInv
<1>5. \A v \in Writer : work[v].pc = "lookup" => work'[v] = work[v]
  BY <1>1 DEF DataInv, WorkInv
<1>6. TableInv'
  BY <1>1, <1>3, <1>5, TableKept DEF DataInv
<1> QED
  BY <1>1, <1>3, <1>4, <1>6, IdGrown, CacheKept, SetKept, MapKept, RowKept, NbrKept
  DEF DataInv, Running, Crawling

LEMMA WriterData ==
  ASSUME DataInv, client \in Client, NEW w \in Writer, WriterStep(w)
  PROVE  DataInv'
<1>1. CASE \E p \in Peer : TakeVisit(w, p)
  BY <1>1, NextTake
<1>2. CASE Lookup(w)
  BY <1>2, NextCacheHits, NextUpsertName, NextCacheAnswer, NextLookupFails, NextSetCacheHits,
     NextUpsertSet, NextCacheSet, NextUpsertSetFails DEF Lookup
<1>3. CASE KeepNeighbors(w) \/ StoreVisit(w) \/ FailVisit(w) \/ MapPeer(w)
  BY <1>3, NextKeepNeighbors, NextStoreVisit, NextFailVisit, NextMapPeer
<1>4. CASE WriteNeighbors(w) \/ WriteVisit(w) \/ \E f \in {"neighbors", "visits"} : WriteFails(w, f)
  BY <1>4, NextWriteNeighbors, NextWriteVisit, NextWriteFails
<1> QED
  BY <1>1, <1>2, <1>3, <1>4 DEF WriterStep

\* What writers leave alone, and that they work only during the run.
LEMMA WriterFrame ==
  ASSUME DataInv, NEW w \in Writer, WriterStep(w)
  PROVE  /\ Running /\ UNCHANGED <<crawlRow, crawl, client, propertyRows, cmdVars, sigVars>>
         /\ failures' = failures \/ (failures < MaxFailures /\ failures' = failures + 1)
         /\ fileErr' = fileErr \/ \E f \in {"neighbors", "visits"} : fileErr' = fileErr \cup {f}
<1>1. /\ UNCHANGED <<crawlRow, crawl, client, propertyRows, cmdVars, sigVars>>
      /\ failures' = failures \/ (failures < MaxFailures /\ failures' = failures + 1)
      /\ fileErr' = fileErr \/ \E f \in {"neighbors", "visits"} : fileErr' = fileErr \cup {f}
  <2> USE DEF dbVars, clientVars, cmdVars, sigVars, CallFails, CallReturns
  <2>1. CASE \E p \in Peer : TakeVisit(w, p)
    BY <2>1 DEF TakeVisit
  <2>2. CASE Lookup(w)
    BY <2>2 DEF Lookup, CacheHits, UpsertName, CacheAnswer, LookupFails, SetCacheHits, UpsertSet,
                CacheSet, UpsertSetFails
  <2>3. CASE KeepNeighbors(w) \/ StoreVisit(w) \/ FailVisit(w) \/ MapPeer(w)
    BY <2>3 DEF KeepNeighbors, StoreVisit, FailVisit, MapPeer
  <2>4. CASE WriteNeighbors(w) \/ WriteVisit(w)
    BY <2>4 DEF WriteNeighbors, WriteVisit
  <2>5. CASE \E f \in {"neighbors", "visits"} : WriteFails(w, f)
    BY <2>5 DEF WriteFails
  <2> QED
    BY <2>1, <2>2, <2>3, <2>4, <2>5 DEF WriterStep
<1>2. cmd = "run" \/ work[w].pc # "idle"
  BY DEF WriterStep, TakeVisit, Lookup, CacheHits, UpsertName, CacheAnswer, LookupFails, Missing,
         SetCacheHits, UpsertSet, CacheSet, UpsertSetFails, AllFound,
         KeepNeighbors, StoreVisit, FailVisit, MapPeer, WriteNeighbors, WriteVisit, WriteFails
<1>3. Running
  BY <1>2, AtWork DEF DataInv, Running
<1> QED
  BY <1>1, <1>3

LEMMA NextWriter ==
  ASSUME StoreInv, NEW w \in Writer, WriterStep(w)
  PROVE  StoreInv'
<1> USE DEF StoreInv
<1>1. /\ Running /\ UNCHANGED <<crawlRow, crawl, client, propertyRows, cmdVars, sigVars>>
      /\ failures' = failures \/ (failures < MaxFailures /\ failures' = failures + 1)
      /\ fileErr' = fileErr \/ \E f \in {"neighbors", "visits"} : fileErr' = fileErr \cup {f}
  BY WriterFrame
<1>2. DataInv'
  BY WriterData DEF ReportTypes
<1>3. ReportTypes'
  <2>1. failures' \in 0..MaxFailures
    BY <1>1, StoreConstants DEF ReportTypes
  <2>2. fileErr' \subseteq {"neighbors", "visits"}
    BY <1>1 DEF ReportTypes
  <2> QED
    BY <1>1, <2>1, <2>2 DEF ReportTypes, cmdVars
<1>4. ReportInv'
  <2>1. cmd' = cmd /\ cmd \in {"run", "stuck"} /\ exit' = exit /\ exit = "none" /\ propertyRows' = {}
    BY <1>1 DEF ReportInv, cmdVars, Running
  <2> QED
    BY <2>1 DEF ReportInv
<1>5. TxnInv'
  BY <1>1 DEF TxnInv, cmdVars, Running
<1> QED
  BY <1>2, <1>3, <1>4, <1>5

-----------------------------------------------------------------------------
\* The command and the signals: the data of the visits.

\* A step that lets the tables grow and does not touch what the visits left.
LEMMA DataFrame ==
  ASSUME DataInv, client \in Client, Grows(nameId, nameId', Name), Grows(peerId, peerId', Peer),
         SetsGrow, SetInv', CacheInv',
         UNCHANGED <<visitRows, neighborRows, client, peerMappings, routingTables, work, flushed,
                     taken>>,
         cmd # "killed", ~Running' => AllIdle
  PROVE  DataInv'
<1> USE DEF DataInv
<1>1. Grow
  BY DEF Grow
<1>2. WorkInv'
  BY <1>1, WorkKept
<1>3. TableInv'
  BY <1>1, TableKept
<1> QED
  BY <1>1, <1>2, <1>3, IdGrown, MapKept, RowKept, NbrKept

LEMMA DataSame ==
  ASSUME DataInv, client \in Client,
         UNCHANGED <<nameId, setId, peerId, visitRows, neighborRows, client, cache, setCache,
                     peerMappings, routingTables, work, flushed, taken>>,
         Crawling' => Crawling,
         cmd # "killed", ~Running' => AllIdle
  PROVE  DataInv'
<1>1. Grows(nameId, nameId', Name) /\ Grows(peerId, peerId', Peer) /\ SetsGrow
  BY IdsSame DEF DataInv
<1>2. Grow
  BY <1>1 DEF Grow
<1>3. CacheInv' /\ SetInv'
  BY <1>2, CacheKept, SetKept DEF DataInv, Running, Crawling
<1> QED
  BY <1>1, <1>3, DataFrame

\* Steps that change none of it.
Quiet ==
  \/ ConnectFails \/ InitCrawl \/ InitCrawlFails \/ SetupFails \/ EndRun \/ Hang
  \/ SealCrawl \/ SealCrawlFails \/ BeginProperties \/ WriteProperties \/ PropertiesFail
  \/ FlushEnds \/ Close \/ Cancel \/ CancelCleanup

LEMMA QuietData ==
  ASSUME DataInv, client \in Client, Quiet
  PROVE  DataInv'
<1>1. /\ UNCHANGED <<nameId, setId, peerId, visitRows, neighborRows, client, cache, setCache,
                     peerMappings, routingTables, work, flushed, taken>>
      /\ Crawling' => Crawling
      /\ cmd # "killed" /\ (~Running' => ~Running \/ AllIdle \/ taken = {})
  <2> USE DEF dbVars, clientVars, cmdVars, visitVars, Running, Crawling
  <2>1. CASE ConnectFails \/ InitCrawl \/ InitCrawlFails
    BY <2>1 DEF ConnectFails, InitCrawl, InitCrawlFails
  <2>2. CASE SetupFails \/ EndRun \/ Hang \/ SealCrawl \/ SealCrawlFails
    BY <2>2 DEF SetupFails, EndRun, Hang, SealCrawl, SealCrawlFails
  <2>3. CASE BeginProperties \/ WriteProperties \/ PropertiesFail
    BY <2>3 DEF BeginProperties, WriteProperties, PropertiesFail
  <2>4. CASE FlushEnds \/ Close
    BY <2>4 DEF FlushEnds, Close
  <2>5. CASE Cancel \/ CancelCleanup
    BY <2>5 DEF Cancel, CancelCleanup, Persisting
  <2> QED
    BY <2>1, <2>2, <2>3, <2>4, <2>5 DEF Quiet
<1>2. taken = {} => AllIdle
  BY DEF DataInv, WorkInv, ItemOK, AllIdle
<1>3. ~Running' => AllIdle
  BY <1>1, <1>2 DEF DataInv, WorkInv
<1> QED
  BY <1>1, <1>3, DataSame

\* The rows a cache is filled with.
LEMMA FilledIs ==
  ASSUME NEW f, NEW known, known \subseteq DOMAIN f, NEW S \in Filled(known)
  PROVE  /\ DOMAIN Restricted(f, S) = S /\ S \subseteq known /\ Cardinality(S) <= CacheSize
         /\ \A x \in S : Restricted(f, S)[x] = f[x]
BY DEF Filled, Restricted

LEMMA ConnectData ==
  ASSUME DataInv, client \in Client, Connect
  PROVE  DataInv'
<1>1. /\ cmd = "connect" /\ cmd' = "init"
      /\ UNCHANGED <<nameId, setId, peerId, visitRows, neighborRows, client, peerMappings,
                     routingTables, work, flushed, taken>>
  BY DEF Connect, dbVars
<1>2. \/ UNCHANGED <<cache, setCache>> /\ client = "json"
      \/ /\ \E A \in Filled(Known(Agent)), P \in Filled(Known(Protocol)) :
               cache' = Restricted(nameId, A \union P)
         /\ \E S \in Filled(DOMAIN setId) : setCache' = Restricted(setId, S)
  BY DEF Connect
<1>3. Grows(nameId, nameId', Name) /\ Grows(peerId, peerId', Peer) /\ SetsGrow
  BY <1>1, IdsSame DEF DataInv
<1>4. CASE UNCHANGED <<cache, setCache>> /\ client = "json"
  <2>1. Grow
    BY <1>1, <1>3 DEF Grow
  <2>2. CacheInv' /\ SetInv'
    BY <1>1, <1>4, <2>1, CacheKept, SetKept DEF DataInv, Crawling
  <2> QED
    BY <1>1, <1>3, <2>2, DataFrame DEF DataInv, WorkInv, Running
<1>5. ASSUME NEW A \in Filled(Known(Agent)), NEW P \in Filled(Known(Protocol)),
             cache' = Restricted(nameId, A \union P),
             NEW S \in Filled(DOMAIN setId), setCache' = Restricted(setId, S)
      PROVE  DataInv'
  <2>1. /\ A \subseteq Known(Agent) /\ Cardinality(A) <= CacheSize
        /\ P \subseteq Known(Protocol) /\ Cardinality(P) <= CacheSize
    BY DEF Filled
  <2>2. DOMAIN cache' = A \cup P /\ \A n \in A \cup P : cache'[n] = nameId[n]
    BY <1>5 DEF Restricted
  <2>3. DOMAIN cache' \cap Agent = A /\ DOMAIN cache' \cap Protocol = P
    BY <2>1, <2>2, StoreConstants DEF Known
  <2>4. CacheInv'
    BY <1>1, <2>1, <2>2, <2>3 DEF CacheInv, Name, Known, Running, Crawling
  <2>5. DOMAIN setCache' = S /\ S \subseteq DOMAIN setId /\ Cardinality(S) <= CacheSize
        /\ \A s \in S : setCache'[s] = setId[s]
    BY <1>5, FilledIs
  <2>6. SetInv'
    BY <1>1, <2>5 DEF DataInv, SetInv
  <2> QED
    BY <1>1, <1>3, <2>4, <2>6, DataFrame DEF DataInv, WorkInv, Running
<1> QED
  BY <1>2, <1>4, <1>5

LEMMA PropertyData ==
  ASSUME DataInv, client \in Client, NEW n \in Name, StoreProperty(n) \/ PropertyFails(n)
  PROVE  DataInv'
<1>1. /\ cmd = "properties" /\ cmd' = cmd
      /\ cache' = cache \/ \E id : cache' \in CacheAdded(cache, n, id, Kind(n))
      /\ UNCHANGED <<nameId, setId, peerId, visitRows, neighborRows, client, setCache,
                     peerMappings, routingTables, work, flushed, taken>>
  BY DEF StoreProperty, PropertyFails, dbVars
<1>2. Grows(nameId, nameId', Name) /\ Grows(peerId, peerId', Peer) /\ SetsGrow
  BY <1>1, IdsSame DEF DataInv
<1>3. CacheInv'
  <2>1. DOMAIN cache' \subseteq Name
        /\ \A K \in {Agent, Protocol} : Cardinality(DOMAIN cache' \cap K) <= CacheSize
    BY <1>1, NameCacheAdded DEF DataInv, CacheInv
  <2> QED
    BY <1>1, <2>1 DEF CacheInv, Running, Crawling
<1>4. SetInv'
  BY <1>1 DEF DataInv, SetInv
<1> QED
  BY <1>1, <1>2, <1>3, <1>4, DataFrame DEF DataInv, WorkInv, Running

LEMMA CommitData ==
  ASSUME DataInv, TxnInv, client \in Client, CommitProperties \/ CommitFails
  PROVE  DataInv'
<1>1. /\ cmd = "properties" /\ cmd' \in {"flush", "close"}
      /\ nameId' \in {nameId, txn.ids}
      /\ UNCHANGED <<setId, peerId, visitRows, neighborRows, client, cache, setCache,
                     peerMappings, routingTables, work, flushed, taken>>
  BY DEF CommitProperties, CommitFails, clientVars
<1>2. Grows(nameId, txn.ids, Name)
  BY <1>1 DEF TxnInv, Transaction, Grows
<1>3. Grows(nameId, nameId', Name) /\ Grows(peerId, peerId', Peer) /\ SetsGrow
  BY <1>1, <1>2, IdsSame DEF DataInv
<1>4. Grow
  BY <1>1, <1>3 DEF Grow
<1>5. CacheInv' /\ SetInv'
  BY <1>1, <1>4, SetKept DEF DataInv, CacheInv, Running, Crawling
<1> QED
  BY <1>1, <1>3, <1>5, DataFrame DEF DataInv, WorkInv, Running

LEMMA OtherData ==
  ASSUME DataInv, client \in Client, OtherClient
  PROVE  DataInv'
<1>1. /\ cmd = "run" /\ cmd' = cmd
      /\ UNCHANGED <<visitRows, neighborRows, client, cache, setCache, peerMappings,
                     routingTables, work, flushed, taken>>
      /\ \/ (\E n \in Name : nameId' = Upserted(nameId, {n})) /\ peerId' = peerId /\ setId' = setId
         \/ (\E p \in Peer : peerId' = Upserted(peerId, {p})) /\ nameId' = nameId /\ setId' = setId
         \/ /\ \E p \in Peer : HasIds(p) /\ setId' = Inserted(setId, ProtocolIDs(p, nameId))
            /\ nameId' = nameId /\ peerId' = peerId
  BY DEF OtherClient, clientVars, cmdVars
<1>2. Grows(nameId, nameId', Name) /\ Grows(peerId, peerId', Peer)
  BY <1>1, IdsSame, UpsertNames, UpsertPeers DEF DataInv
<1>3. SetInv' /\ SetsGrow
  <2>1. CASE setId' = setId
    <3>1. Grow
      BY <1>1, <1>2, <2>1, IdsSame DEF Grow, DataInv
    <3> QED
      BY <1>1, <2>1, <3>1, SetKept DEF DataInv, Grow
  <2>2. ASSUME NEW p \in Peer, HasIds(p), setId' = Inserted(setId, ProtocolIDs(p, nameId)),
               nameId' = nameId
        PROVE  SetInv' /\ SetsGrow
    <3>1. VisitOf[p].protocols \ {Empty} \subseteq Protocol
      BY VisitType
    <3>2. ProtocolIDs(p, nameId) \subseteq {NoId} \union {nameId[n] : n \in Protocol}
      BY <3>1 DEF ProtocolIDs
    <3>3. {NoId} \union {nameId[n] : n \in Protocol} \subseteq 0..Cardinality(Name)
      BY FiniteTables DEF DataInv, IdInv, NoId, Name
    <3>4. PICK k : k = ProtocolIDs(p, nameId)
      OBVIOUS
    <3>5. k \in Sets
      BY <3>2, <3>3, <3>4 DEF Sets
    <3> QED
      BY <1>1, <2>2, <3>2, <3>4, <3>5, InsertedIs DEF DataInv
  <2> QED
    BY <1>1, <2>1, <2>2
<1>4. Grow
  BY <1>1, <1>2, <1>3 DEF Grow
<1>5. CacheInv'
  BY <1>1, <1>4, CacheKept DEF DataInv, Running, Crawling
<1> QED
  BY <1>1, <1>2, <1>3, <1>5, DataFrame DEF Running

LEMMA KillData ==
  ASSUME DataInv, client \in Client, Kill
  PROVE  DataInv'
<1>1. /\ cmd' = "killed" /\ work' = [w \in Writer |-> Idle]
      /\ UNCHANGED <<nameId, setId, peerId, visitRows, neighborRows, client, cache, setCache,
                     peerMappings, routingTables, flushed, taken>>
  BY DEF Kill, dbVars, clientVars
<1>2. Grow
  BY <1>1, IdsSame DEF Grow, DataInv
<1>3. WorkInv'
  <2>1. \A w \in Writer : work'[w] = Idle
    BY <1>1
  <2>2. \A w \in Writer : ItemOK(work[w])'
    BY <2>1, IdleOK DEF ItemOK
  <2> QED
    BY <1>1, <2>1, <2>2, IdleOK DEF WorkInv, AllIdle
<1>4. TableInv'
  BY <1>1, <1>2, TableKept DEF DataInv
<1> QED
  BY <1>1, <1>2, <1>3, <1>4, IdGrown, CacheKept, SetKept, MapKept, RowKept, NbrKept
  DEF DataInv, Running, Crawling

\* The IDs an insertion of neighbours stores, be they the client's or those of
\* the rows it finds or makes, are all in the table.
LEMMA RowsWork ==
  ASSUME IdInv, MapInv, TableInv, NEW p \in DOMAIN routingTables
  PROVE  /\ p \in Peer /\ routingTables[p] = VisitOf[p].neighbors
         /\ Grows(peerId, Rows(p), Peer)
         /\ \A q \in routingTables[p] \cup {p} : Rows(p)[q] # NoId
         /\ NeighborIds(p) = {Rows(p)[q] : q \in VisitOf[p].neighbors}
<1> DEFINE S == {q \in routingTables[p] \cup {p} : q \notin DOMAIN peerMappings}
<1>1. p \in Peer /\ routingTables[p] = VisitOf[p].neighbors /\ routingTables[p] \subseteq Peer
  BY VisitType DEF TableInv
<1>2. S \in SUBSET Peer /\ Rows(p) = Upserted(peerId, S)
  BY <1>1 DEF Rows
<1>3. Grows(peerId, Rows(p), Peer) /\ \A q \in S : Rows(p)[q] # NoId
  <2> HIDE DEF S
  <2> QED
    BY <1>2, UpsertPeers
<1>4. \A q \in routingTables[p] \cup {p} :
         q \in DOMAIN peerMappings => peerMappings[q] = Rows(p)[q] /\ Rows(p)[q] # NoId
  BY <1>1, <1>3 DEF MapInv, Grows
<1>5. \A q \in routingTables[p] : IdIn(Rows(p), q) = Rows(p)[q]
  BY <1>4 DEF IdIn
<1>6. NeighborIds(p) = {Rows(p)[q] : q \in VisitOf[p].neighbors}
  BY <1>1, <1>5 DEF NeighborIds
<1> QED
  BY <1>1, <1>3, <1>4, <1>6

\* Whether the call has failed or not, what it stored is a whole routing table.
LEMMA FlushData ==
  ASSUME DataInv, client \in Client, NEW p \in Peer, InsertNeighbors(p) \/ FlushFails(p)
  PROVE  DataInv'
<1> USE DEF DataInv
<1>1. /\ cmd = "flush" /\ cmd' \in {"flush", "close"} /\ p \in DOMAIN routingTables
      /\ flushed' = flushed \/ (flushed' = flushed \cup {p} /\ NeighborsStored(p))
      /\ NeighborsStored(p) \/ UNCHANGED <<peerId, neighborRows>>
      /\ UNCHANGED <<nameId, setId, visitRows, client, cache, setCache, peerMappings,
                     routingTables, work, taken>>
  BY DEF InsertNeighbors, FlushFails, clientVars
<1>2. client = "postgres"
  BY <1>1, StoreConstants DEF TableInv
<1>3. /\ routingTables[p] = VisitOf[p].neighbors /\ Grows(peerId, Rows(p), Peer)
      /\ \A q \in VisitOf[p].neighbors \cup {p} : Rows(p)[q] # NoId
      /\ NeighborIds(p) = {Rows(p)[q] : q \in VisitOf[p].neighbors}
  BY <1>1, RowsWork
<1>4. \/ UNCHANGED <<peerId, neighborRows>> /\ (NeighborsStored(p) => VisitOf[p].neighbors = {})
      \/ /\ peerId' = Rows(p) /\ neighborRows' = Extended(neighborRows, p, NeighborIds(p))
         /\ VisitOf[p].neighbors # {}
  BY <1>1, <1>3 DEF NeighborsStored
<1>5. /\ DOMAIN neighborRows \subseteq DOMAIN neighborRows'
      /\ NeighborsStored(p) /\ VisitOf[p].neighbors # {} => p \in DOMAIN neighborRows'
  BY <1>4 DEF Extended
<1>6. Grow
  <2>1. Grows(peerId, peerId', Peer) /\ Grows(nameId, nameId', Name) /\ SetsGrow
    BY <1>1, <1>3, <1>4, IdsSame
  <2> QED
    BY <1>1, <1>5, <2>1 DEF Grow
<1>7. WorkInv'
  BY <1>1, <1>6, WorkKept DEF WorkInv, Running
<1>8. TableInv'
  <2>1. \A q \in flushed' : VisitOf[q].neighbors # {} => q \in DOMAIN neighborRows'
    BY <1>1, <1>5 DEF TableInv
  <2> QED
    BY <1>1, <2>1 DEF TableInv
<1>9. NbrInv'
  <2>1. ASSUME NEW q \in DOMAIN neighborRows'
        PROVE  /\ q \in Peer /\ neighborRows'[q] = Lines(q)' /\ peerId'[q] # NoId
               /\ \A r \in VisitOf[q].neighbors : peerId'[r] # NoId
    <3>1. CASE q \in DOMAIN neighborRows /\ neighborRows'[q] = neighborRows[q]
      <4>1. /\ q \in Peer /\ neighborRows[q] = Lines(q)' /\ peerId'[q] # NoId
            /\ \A r \in VisitOf[q].neighbors : peerId'[r] # NoId
        BY <1>2, <1>6, <3>1, NbrRowKept
      <4> QED
        BY <3>1, <4>1
    <3>2. CASE ~(q \in DOMAIN neighborRows /\ neighborRows'[q] = neighborRows[q])
      <4>1. /\ q = p /\ peerId' = Rows(p) /\ neighborRows'[p] = NeighborIds(p)
        BY <1>4, <3>2 DEF Extended
      <4>2. Lines(p)' = {peerId'[r] : r \in VisitOf[p].neighbors}
        BY <1>1, <1>2 DEF Lines
      <4> QED
        BY <1>3, <4>1, <4>2
    <3> QED
      BY <3>1, <3>2
  <2> QED
    BY <1>1, <1>2, <2>1 DEF NbrInv
<1> QED
  BY <1>1, <1>6, <1>7, <1>8, <1>9, IdGrown, CacheKept, SetKept, MapKept, RowKept
  DEF Running, Crawling

-----------------------------------------------------------------------------
\* The command and the signals: the reports and the transaction.

LEMMA CountedNames ==
  ASSUME TableInv
  PROVE  Counted \subseteq Name
BY VisitType DEF TableInv, Counted

Reports == ReportTypes /\ ReportInv /\ TxnInv

LEMMA StartReports ==
  ASSUME Reports, DataInv, Connect \/ ConnectFails \/ InitCrawl \/ InitCrawlFails \/ SetupFails
  PROVE  Reports'
<1> USE StoreConstants DEF Reports, cmdVars, sigVars, dbVars, clientVars, visitVars, CallFails,
                           CallReturns
<1>1. CASE Connect
  BY <1>1 DEF Connect, ReportTypes, ReportInv, TxnInv, Phases, Counted, SealedState
<1>2. CASE ConnectFails
  BY <1>2 DEF ConnectFails, ReportTypes, ReportInv, TxnInv, Phases, Counted, SealedState
<1>3. CASE InitCrawl
  BY <1>3 DEF InitCrawl, ReportTypes, ReportInv, TxnInv, Phases, States, Counted, SealedState
<1>4. CASE InitCrawlFails
  BY <1>4 DEF InitCrawlFails, ReportTypes, ReportInv, TxnInv, Phases, States, Counted, SealedState
<1>5. CASE SetupFails
  BY <1>5 DEF SetupFails, ReportTypes, ReportInv, TxnInv, Phases, Counted, SealedState
<1> QED
  BY <1>1, <1>2, <1>3, <1>4, <1>5

LEMMA SealReports ==
  ASSUME Reports, DataInv, EndRun \/ Hang \/ SealCrawl \/ SealCrawlFails
  PROVE  Reports'
<1> USE StoreConstants DEF Reports, cmdVars, sigVars, dbVars, clientVars, visitVars, CallFails,
                           CallReturns
<1>1. CASE EndRun
  BY <1>1 DEF EndRun, ReportTypes, ReportInv, TxnInv, Phases, Counted, SealedState
<1>2. CASE SealCrawl
  BY <1>2 DEF SealCrawl, ReportTypes, ReportInv, TxnInv, Phases, States, Counted, SealedState
<1>3. CASE SealCrawlFails
  BY <1>3 DEF SealCrawlFails, ReportTypes, ReportInv, TxnInv, Phases, States, Counted, SealedState,
              Refused, CleanupOver
<1>4. CASE Hang
  BY <1>4 DEF Hang, ReportTypes, ReportInv, TxnInv, Phases, Counted, SealedState
<1> QED
  BY <1>1, <1>2, <1>3, <1>4

\* What the transaction starts from, and how it goes on.
LEMMA BeginTxn ==
  ASSUME Reports, DataInv, BeginProperties
  PROVE  TxnInv'
<1>1. /\ client = "postgres" /\ client' = client /\ nameId' = nameId /\ taken' = taken
      /\ txn' = [pc |-> "open", ok |-> TRUE, left |-> Counted, rows |-> {}, ids |-> nameId]
  BY DEF BeginProperties, dbVars, clientVars
<1>2. Counted' = Counted /\ Counted \subseteq Name
  BY <1>1, CountedNames DEF Counted, DataInv
<1>3. txn' \in Transaction
  BY <1>1, <1>2 DEF Transaction, DataInv, IdInv
<1>4. Distinct(txn'.ids) /\ \A n \in Name : nameId'[n] # NoId => txn'.ids[n] = nameId'[n]
  BY <1>1 DEF DataInv, IdInv
<1> QED
  BY <1>1, <1>2, <1>3, <1>4 DEF TxnInv

LEMMA StoreTxn ==
  ASSUME Reports, DataInv, NEW n \in Name, StoreProperty(n)
  PROVE  TxnInv'
<1>1. PICK ids : ids = IF n \in DOMAIN cache THEN txn.ids ELSE Upserted(txn.ids, {n})
  OBVIOUS
<1>2. /\ cmd = "properties" /\ n \in txn.left /\ txn.ok
      /\ txn' = [txn EXCEPT !.left = @ \ {n}, !.rows = @ \union {n}, !.ids = ids]
      /\ UNCHANGED <<client, nameId, taken>>
  BY <1>1 DEF StoreProperty, dbVars
<1>3. txn \in Transaction /\ txn.left \cup txn.rows = Counted /\ client = "postgres"
      /\ Distinct(txn.ids) /\ \A m \in Name : nameId[m] # NoId => txn.ids[m] = nameId[m]
  BY <1>2 DEF Reports, TxnInv
<1>4. Grows(txn.ids, ids, Name)
  <2>1. txn.ids \in [Name -> 0..Cardinality(Name)] /\ {n} \in SUBSET Name
    BY <1>3 DEF Transaction
  <2> QED
    BY <1>1, <1>3, <2>1, FiniteTables, UpsertWorks, GrowsSame
<1>5. /\ txn' \in Transaction /\ txn'.ok /\ txn'.ids = ids
      /\ txn'.left = txn.left \ {n} /\ txn'.rows = txn.rows \cup {n}
  <2>1. ids \in [Name -> 0..Cardinality(Name)]
    BY <1>4 DEF Grows
  <2> QED
    BY <1>2, <1>3, <2>1 DEF Transaction
<1>6. txn'.left \cup txn'.rows = Counted' 
  BY <1>2, <1>3, <1>5 DEF Counted
<1>7. Distinct(txn'.ids) /\ \A m \in Name : nameId'[m] # NoId => txn'.ids[m] = nameId'[m]
  BY <1>2, <1>3, <1>4, <1>5 DEF Grows
<1> QED
  BY <1>2, <1>3, <1>5, <1>6, <1>7 DEF TxnInv

LEMMA FailTxn ==
  ASSUME Reports, DataInv, NEW n \in Name, PropertyFails(n)
  PROVE  TxnInv'
<1>1. /\ cmd = "properties" /\ (~txn.ok \/ cleanupDone \/ failures' = failures + 1)
      /\ failures' = failures \/ failures' = failures + 1
      /\ txn' = [txn EXCEPT !.left = @ \ {n}, !.ok = FALSE]
      /\ UNCHANGED <<client, nameId, taken, cleanupDone>>
  BY DEF PropertyFails, CallFails, Refused, CleanupOver, dbVars, sigVars
<1>2. txn \in Transaction /\ client = "postgres" /\ Distinct(txn.ids)
      /\ (\A m \in Name : nameId[m] # NoId => txn.ids[m] = nameId[m])
      /\ (~txn.ok => failures > 0 \/ cleanupDone) /\ failures \in Nat
  BY <1>1, StoreConstants DEF Reports, TxnInv, ReportTypes
<1>3. txn' \in Transaction /\ txn'.ids = txn.ids /\ ~txn'.ok
  BY <1>1, <1>2 DEF Transaction
<1>4. failures' > 0 \/ cleanupDone'
  BY <1>1, <1>2
<1> QED
  BY <1>1, <1>2, <1>3, <1>4 DEF TxnInv

LEMMA PropertyReports ==
  ASSUME Reports, DataInv,
         \/ BeginProperties \/ WriteProperties \/ PropertiesFail
         \/ \E n \in Name : StoreProperty(n) \/ PropertyFails(n)
  PROVE  Reports'
<1> USE StoreConstants DEF cmdVars, sigVars, dbVars, clientVars, visitVars, CallFails, CallReturns
<1>0. Counted \subseteq Name
  BY CountedNames DEF DataInv
<1>1. CASE BeginProperties
  <2>1. ReportTypes' /\ ReportInv'
    BY <1>1 DEF BeginProperties, Reports, ReportTypes, ReportInv, Phases, Counted, SealedState
  <2> QED
    BY <1>1, <2>1, BeginTxn DEF Reports
<1>2. CASE WriteProperties
  <2>1. Counted' = Counted
    BY <1>2 DEF WriteProperties, Counted
  <2> QED
    BY <1>0, <1>2, <2>1 DEF WriteProperties, Reports, ReportTypes, ReportInv, TxnInv, Phases,
                            SealedState
<1>3. CASE PropertiesFail
  <2>1. Counted' = Counted
    BY <1>3 DEF PropertiesFail, Counted
  <2>2. client = "postgres" => propertyRows' = {}
    BY <1>3 DEF PropertiesFail, Reports, ReportInv
  <2>3. propertyRows' \subseteq Name
    BY <1>0, <1>3 DEF PropertiesFail, Reports, ReportTypes
  <2> QED
    BY <1>3, <2>1, <2>2, <2>3 DEF PropertiesFail, Reports, ReportTypes, ReportInv, TxnInv, Phases,
                                  SealedState, Refused, CleanupOver
<1>4. ASSUME NEW n \in Name, StoreProperty(n) \/ PropertyFails(n) PROVE Reports'
  <2>1. cmd = "properties" /\ Counted' = Counted
        /\ UNCHANGED <<crawlRow, propertyRows, fileErr, client, crawl, cmd, exit, runErr, sigVars>>
        /\ (failures' = failures \/ (failures < MaxFailures /\ failures' = failures + 1))
    BY <1>4 DEF StoreProperty, PropertyFails, Counted
  <2>2. ReportTypes' /\ ReportInv'
    BY <2>1 DEF Reports, ReportTypes, ReportInv, SealedState
  <2> QED
    BY <1>4, <2>2, StoreTxn, FailTxn DEF Reports
<1> QED
  BY <1>1, <1>2, <1>3, <1>4

\* A commit that takes effect, reported or not, stores all that was counted.
LEMMA CommitReports ==
  ASSUME Reports, DataInv, CommitProperties \/ CommitFails
  PROVE  Reports'
<1> USE StoreConstants DEF cmdVars, sigVars, dbVars, clientVars, CallFails, CallReturns
<1>1. cmd = "properties" /\ txn.left = {} /\ taken' = taken /\ Counted' = Counted
  BY DEF CommitProperties, CommitFails, Counted
<1>2. txn \in Transaction /\ (txn.ok => txn.rows = Counted) /\ client = "postgres"
      /\ (~txn.ok => failures > 0 \/ cleanupDone) /\ propertyRows = {}
  BY <1>1 DEF Reports, TxnInv, ReportInv
<1>3. Counted \subseteq Name
  BY CountedNames DEF DataInv
<1>4. CASE CommitProperties
  <2>1. propertyRows' = Counted
    BY <1>2, <1>4 DEF CommitProperties
  <2> QED
    BY <1>1, <1>3, <1>4, <2>1 DEF CommitProperties, Reports, ReportTypes, ReportInv, TxnInv, Phases,
                                  SealedState
<1>5. CASE CommitFails
  <2>1. propertyRows' \in {{}, Counted}
    BY <1>2, <1>5 DEF CommitFails
  <2>2. failures' \in 0..MaxFailures /\ (failures' > 0 \/ cleanupDone)
    BY <1>2, <1>5 DEF CommitFails, Refused, CleanupOver, Reports, ReportTypes
  <2>3. cmd' = "close" /\ exit' = "error"
        /\ UNCHANGED <<crawlRow, fileErr, client, crawl, runErr, cleanupDone>>
    BY <1>5 DEF CommitFails
  <2> QED
    BY <1>1, <1>2, <1>3, <2>1, <2>2, <2>3 DEF Reports, ReportTypes, ReportInv, TxnInv, Phases,
                                              SealedState
<1> QED
  BY <1>4, <1>5

LEMMA EndReports ==
  ASSUME Reports, DataInv,
         (\E p \in Peer : InsertNeighbors(p) \/ FlushFails(p)) \/ FlushEnds \/ Close
  PROVE  Reports'
<1> USE StoreConstants DEF Reports, cmdVars, sigVars, dbVars, clientVars, CallFails, CallReturns
<1>1. Counted' = Counted
  BY DEF InsertNeighbors, FlushFails, FlushEnds, Close, Counted
<1>2. CASE \E p \in Peer : InsertNeighbors(p)
  BY <1>1, <1>2 DEF InsertNeighbors, ReportTypes, ReportInv, TxnInv, SealedState
<1>3. CASE \E p \in Peer : FlushFails(p)
  BY <1>1, <1>3 DEF FlushFails, ReportTypes, ReportInv, TxnInv, Phases, SealedState
<1>4. CASE FlushEnds
  BY <1>1, <1>4 DEF FlushEnds, ReportTypes, ReportInv, TxnInv, Phases, SealedState
<1>5. CASE Close
  BY <1>1, <1>5 DEF Close, ReportTypes, ReportInv, TxnInv, Phases, SealedState
<1> QED
  BY <1>2, <1>3, <1>4, <1>5

LEMMA SignalReports ==
  ASSUME Reports, DataInv, Cancel \/ CancelCleanup \/ Kill \/ OtherClient
  PROVE  Reports'
<1> USE StoreConstants DEF Reports, cmdVars, sigVars, dbVars, clientVars
<1>1. Counted' = Counted
  BY DEF Cancel, CancelCleanup, Kill, OtherClient, Counted
<1>2. CASE Cancel
  BY <1>1, <1>2 DEF Cancel, ReportTypes, ReportInv, TxnInv, SealedState
<1>3. CASE CancelCleanup
  BY <1>1, <1>3 DEF CancelCleanup, ReportTypes, ReportInv, TxnInv, SealedState
<1>4. CASE Kill
  BY <1>1, <1>4 DEF Kill, Persisting, ReportTypes, ReportInv, TxnInv, Phases, SealedState
<1>5. CASE OtherClient
  BY <1>1, <1>5 DEF OtherClient, ReportTypes, ReportInv, TxnInv, SealedState
<1> QED
  BY <1>2, <1>3, <1>4, <1>5

-----------------------------------------------------------------------------
\* The invariant.

LEMMA SmallSet ==
  ASSUME NEW S, IsFiniteSet(S), Cardinality(S) <= 1
  PROVE  \A x, y \in S : x = y
<1> SUFFICES ASSUME NEW x \in S, NEW y \in S, x # y PROVE FALSE
  OBVIOUS
<1>1. PICK T : T = {x}
  OBVIOUS
<1>2. IsFiniteSet(T) /\ Cardinality(T) = 1 /\ y \notin T
  BY <1>1, FS_Singleton
<1>3. Cardinality(T \cup {y}) = Cardinality(T) + 1
  BY <1>2, FS_AddElement
<1>4. T \cup {y} \in SUBSET S
  BY <1>1
<1>5. Cardinality(T \cup {y}) <= Cardinality(S) /\ Cardinality(S) \in Nat
  BY <1>4, FS_Subset, FS_CardinalityType
<1> QED
  BY <1>2, <1>3, <1>5

LEMMA InitStore ==
  ASSUME Init
  PROVE  StoreInv
<1> USE StoreConstants DEF Init
<1>1. PICK S \in SUBSET Name : Cardinality(S) <= 1 /\ nameId = [n \in Name |-> IF n \in S THEN 1 ELSE NoId]
  OBVIOUS
<1>2. IsFiniteSet(S) /\ Cardinality(S) \in Nat /\ Cardinality(Name) \in Nat /\ Cardinality(Peer) \in Nat
  BY FiniteTables, FS_Subset, FS_CardinalityType
<1>3. \A x, y \in S : x = y
  BY <1>1, <1>2, SmallSet
<1>4. S # {} => Cardinality(Name) >= 1
  <2> SUFFICES ASSUME NEW x \in S PROVE Cardinality(Name) # 0
    BY <1>2
  <2> QED
    BY FiniteTables, FS_EmptySet
<1>5. IdInv
  <2>1. nameId \in [Name -> 0..Cardinality(Name)] /\ peerId \in [Peer -> 0..Cardinality(Peer)]
    BY <1>1, <1>2, <1>4 DEF NoId
  <2>2. Distinct(nameId) /\ Distinct(peerId)
    BY <1>1, <1>3 DEF Distinct, NoId
  <2> QED
    BY <2>1, <2>2 DEF IdInv
<1>6. CacheInv /\ MapInv /\ SetInv
  <2>1. DOMAIN NoMap = {} /\ Cardinality({}) = 0 /\ \A K : {} \cap K = {}
    BY FS_EmptySet DEF NoMap
  <2>2. CacheInv /\ MapInv
    BY <2>1 DEF CacheInv, MapInv
  <2>3. ASSUME setId = NoMap PROVE SetInv
    <3>1. DOMAIN setId = {} /\ DOMAIN setCache = {} /\ Cardinality(DOMAIN setCache) <= CacheSize
      BY <2>1, <2>3
    <3> QED
      BY <3>1 DEF SetInv
  <2>4. ASSUME NEW n \in Protocol, setId = [s \in {{nameId[n]}} |-> 1] PROVE SetInv
    <3>1. PICK s : s = {nameId[n]}
      OBVIOUS
    <3>2. DOMAIN setId = {s} /\ setId[s] = 1 /\ Cardinality({s}) = 1
      BY <2>4, <3>1, FS_Singleton
    <3>3. s \in Sets /\ s \subseteq {NoId} \union {nameId[m] : m \in Protocol}
      <4>1. nameId[n] \in 0..Cardinality(Name)
        BY <1>5 DEF IdInv, Name
      <4> QED
        BY <3>1, <4>1 DEF Sets
    <3> QED
      BY <2>1, <3>2, <3>3 DEF SetInv
  <2> QED
    BY <2>2, <2>3, <2>4
<1>7. RowInv /\ TableInv /\ NbrInv
  BY DEF RowInv, TableInv, NbrInv, NoMap
<1>8. WorkInv
  <2>1. Idle \in Item /\ ItemOK(Idle)
    BY DEF Idle, Item, ItemOK
  <2> QED
    BY <2>1 DEF WorkInv, AllIdle
<1>9. ReportTypes /\ ReportInv /\ TxnInv
  BY DEF ReportTypes, ReportInv, TxnInv, States, Phases
<1> QED
  BY <1>5, <1>6, <1>7, <1>8, <1>9 DEF StoreInv, DataInv

LEMMA NextStore ==
  ASSUME StoreInv, [Next]_vars
  PROVE  StoreInv'
<1>0. client \in Client /\ DataInv /\ TxnInv /\ Reports
  BY DEF StoreInv, Reports, ReportTypes
<1>1. CASE CommandStep
  <2>1. CASE Connect \/ ConnectFails \/ InitCrawl \/ InitCrawlFails \/ SetupFails
    BY <1>0, <2>1, StartReports, ConnectData, QuietData DEF StoreInv, Reports, Quiet
  <2>2. CASE EndRun \/ Hang \/ SealCrawl \/ SealCrawlFails
    BY <1>0, <2>2, SealReports, QuietData DEF StoreInv, Reports, Quiet
  <2>3. CASE BeginProperties \/ WriteProperties \/ PropertiesFail
    BY <1>0, <2>3, PropertyReports, QuietData DEF StoreInv, Reports, Quiet
  <2>4. CASE \E n \in Name : StoreProperty(n) \/ PropertyFails(n)
    BY <1>0, <2>4, PropertyReports, PropertyData DEF StoreInv, Reports
  <2>5. CASE CommitProperties \/ CommitFails
    BY <1>0, <2>5, CommitReports, CommitData DEF StoreInv, Reports
  <2>6. CASE \E p \in Peer : InsertNeighbors(p) \/ FlushFails(p)
    BY <1>0, <2>6, EndReports, FlushData DEF StoreInv, Reports
  <2>7. CASE FlushEnds \/ Close
    BY <1>0, <2>7, EndReports, QuietData DEF StoreInv, Reports, Quiet
  <2> QED
    BY <1>1, <2>1, <2>2, <2>3, <2>4, <2>5, <2>6, <2>7 DEF CommandStep
<1>2. CASE \E w \in Writer : WriterStep(w)
  BY <1>2, NextWriter
<1>3. CASE Cancel \/ CancelCleanup
  BY <1>0, <1>3, SignalReports, QuietData DEF StoreInv, Reports, Quiet
<1>4. CASE Kill \/ OtherClient
  BY <1>0, <1>4, SignalReports, KillData, OtherData DEF StoreInv, Reports
<1>5. CASE UNCHANGED vars
  <2>1. UNCHANGED <<nameId, setId, peerId, visitRows, neighborRows, client, cache, setCache,
                    peerMappings, routingTables, work, flushed, taken, cmd, crawlRow, propertyRows,
                    fileErr, crawl, exit, runErr, txn, cleanupDone, failures>>
    BY <1>5 DEF vars, dbVars, clientVars, cmdVars, sigVars
  <2>2. IdInv' /\ CacheInv' /\ SetInv' /\ MapInv' /\ RowInv' /\ TxnInv'
    BY <2>1 DEF StoreInv, DataInv, IdInv, CacheInv, SetInv, MapInv, RowInv, TxnInv, Counted,
                Distinct, Running, RefersToSet, HasIds, Crawling
  <2>3. TableInv' /\ NbrInv' /\ WorkInv'
    BY <2>1 DEF StoreInv, DataInv, TableInv, NbrInv, WorkInv, Lines, ItemOK, AllIdle, Running,
                RefersToSet, HasIds
  <2>4. ReportTypes' /\ ReportInv'
    BY <2>1 DEF StoreInv, ReportTypes, ReportInv, Counted, SealedState
  <2> QED
    BY <2>2, <2>3, <2>4 DEF StoreInv, DataInv
<1> QED
  BY <1>1, <1>2, <1>3, <1>4, <1>5 DEF Next

LEMMA StoreInvHolds == Spec => []StoreInv
<1>1. Init => StoreInv
  BY InitStore
<1>2. StoreInv /\ [Next]_vars => StoreInv'
  BY NextStore
<1> QED
  BY <1>1, <1>2, PTL DEF Spec

-----------------------------------------------------------------------------
\* Whatever a stored visit refers to is in the tables and is what the visit
\* found: its agent version, and a set that has the ID of each of its protocols
\* and of no other.  The IDs come from the caches of the client and from upserts
\* of several writers and clients, some of which are reported as failed and are
\* not (GetOrCreateAgentVersionID, GetOrCreateProtocolsSetID, InsertVisit and
\* InsertNeighbors in src/db/pg.go).
THEOREM ReferencesCorrect == Spec => []ReferencesHold
<1>1. ASSUME StoreInv PROVE ReferencesHold
  <2> USE <1>1 DEF StoreInv, DataInv
  <2>1. TypeOK
    BY DEF TypeOK, ReportTypes, IdInv, CacheInv, SetInv, MapInv, TableInv
  <2>2. /\ \A v \in visitRows :
             /\ v.agent # NoId => /\ VisitOf[v.peer].agent \in Agent
                                  /\ v.agent = nameId[VisitOf[v.peer].agent]
             /\ v.set # NoId => RefersToSet(v.peer, v.set)
        /\ \A s \in DOMAIN setId : s \subseteq {NoId} \union {nameId[n] : n \in Protocol}
        /\ \A s, t \in DOMAIN setId : setId[s] = setId[t] => s = t
        /\ \A s \in DOMAIN setCache : s \in DOMAIN setId /\ setCache[s] = setId[s]
    BY DEF RowInv, SetInv
  <2>3. /\ cmd = "run" => \A n \in DOMAIN cache : cache[n] = nameId[n]
        /\ \A p \in DOMAIN peerMappings : peerMappings[p] = peerId[p] /\ peerId[p] # NoId
    BY DEF CacheInv, MapInv, Running, Crawling
  <2>4. \A p, q \in Peer : peerId[p] = peerId[q] /\ p # q => peerId[p] = NoId
    BY DEF IdInv, Distinct
  <2>5. ASSUME client = "postgres", NEW p \in DOMAIN neighborRows
        PROVE  peerId[p] # NoId /\ NoId \notin neighborRows[p]
    <3>1. neighborRows[p] = {peerId[q] : q \in VisitOf[p].neighbors}
          /\ peerId[p] # NoId /\ \A q \in VisitOf[p].neighbors : peerId[q] # NoId
      BY <2>5 DEF NbrInv, Lines
    <3> QED
      BY <3>1
  <2> QED
    BY <2>1, <2>2, <2>3, <2>4, <2>5 DEF ReferencesHold
<1> QED
  BY <1>1, StoreInvHolds, PTL

\* A stored routing table is complete, and when Flush has not failed so is their
\* set: each peer with neighbours that a writer was given has one, though its
\* visit may not have been stored.  In the JSON files a visit comes after its
\* neighbours (InsertVisit and Flush in src/db/pg.go, InsertVisit in
\* src/db/json.go).
THEOREM NeighborsCorrect == Spec => []NeighborsComplete
<1>1. ASSUME StoreInv PROVE NeighborsComplete
  <2> USE <1>1 DEF StoreInv, DataInv
  <2>1. ASSUME cmd = "done", client = "postgres", flushed = DOMAIN routingTables,
               NEW p \in taken, VisitOf[p].neighbors # {}
        PROVE  p \in DOMAIN neighborRows
    <3>1. \A w \in Writer : work[w].pc # "lookup"
      BY <2>1 DEF WorkInv, AllIdle, Idle, Running
    <3>2. p \in DOMAIN routingTables
      BY <2>1, <3>1 DEF TableInv, HasNeighbors
    <3> QED
      BY <2>1, <3>2 DEF TableInv
  <2> QED
    BY <2>1 DEF NeighborsComplete, NbrInv
<1> QED
  BY <1>1, StoreInvHolds, PTL

\* The properties of a crawl are stored in one transaction, so that the table
\* has all of them or none, and a crawl that reports success has all and is
\* sealed as it ended; a single signal costs nothing of it, provided that
\* Engine.Run returns (persistCrawlInformation in src/cmd/nebula/cmd_crawl.go,
\* InsertCrawlProperties in src/db/pg.go).
THEOREM ReportsCorrect == Spec => []ReportsAreWhole
<1>1. ASSUME StoreInv PROVE ReportsAreWhole
  BY <1>1 DEF StoreInv, ReportTypes, ReportInv, ReportsAreWhole
<1> QED
  BY <1>1, StoreInvHolds, PTL

=============================================================================
