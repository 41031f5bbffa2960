---------------------------- MODULE CrawlStore ----------------------------
(***************************************************************************)
(* What nebula crawl keeps of a crawl, in Postgres or in JSON files.       *)
(*                                                                         *)
(* The command creates the client and the crawl, lets the writers of the   *)
(* engine store visits, and then seals the crawl, stores its properties,   *)
(* flushes the neighbours and closes the client (CrawlAction and           *)
(* persistCrawlInformation).  A visit refers to an agent version and to a  *)
(* set of protocols by the IDs the database has given them, and the row of *)
(* a set to protocols by theirs; the client caches all three.  Every call  *)
(* to the database or to a file may fail, and one that fails may have      *)
(* taken effect.  A signal cancels the crawl, a second one kills the       *)
(* process or, later, cancels the clean-up.                                *)
(*                                                                         *)
(* Agent versions and protocols are called names: tables, upserts and      *)
(* caches of one kind.  The list of protocols of a peer is a set.          *)
(***************************************************************************)
EXTENDS Integers, FiniteSets

CONSTANTS
  Peer,
  Agent, Protocol,   \* agent versions and protocols, the empty ones aside
  Writer,
  Client,        \* the clients a crawl may use: "postgres", "json"
  VisitOf,       \* what the visit of a peer finds: [agent, protocols, neighbors, bits]
  CacheSize,     \* of each of the three caches
  MaxFailures    \* bound of the model: failing calls

Name == Agent \union Protocol
Empty == ""      \* a string no table has a row for

ASSUME StoreConstants ==
  /\ IsFiniteSet(Peer) /\ IsFiniteSet(Agent) /\ IsFiniteSet(Protocol)
  /\ Agent \intersect Protocol = {} /\ Empty \notin Name
  /\ Client \subseteq {"postgres", "json"}
  /\ VisitOf \in [Peer -> [agent : Agent \union {Empty}, protocols : SUBSET (Protocol \union {Empty}),
                           neighbors : SUBSET Peer, bits : {0, 1}]]
  /\ CacheSize \in Nat \ {0} /\ MaxFailures \in Nat

\* The names of a visit that are looked up.
NamesOf(p) == ({VisitOf[p].agent} \union VisitOf[p].protocols) \ {Empty}

NoId == 0
Pending == -1
NoCrawl == "none"
Torn == "torn"
Idle == [pc |-> "idle"]

VARIABLES
  \* the database, or the files
  crawlRow,      \* state of the crawl
  nameId,        \* agent_versions and protocols: the ID of a name
  setId,         \* protocols_sets: the ID of a set of IDs
  peerId,        \* peers: the ID of a peer
  visitRows,     \* visits: the peer, and the agent version and the set it refers to
  neighborRows,  \* neighbors: the IDs stored for a peer of this crawl
  propertyRows,  \* crawl_properties: names
  fileErr,       \* the json.Encoders that have failed: they fail for ever
  \* the client
  client, crawl, cache, setCache, peerMappings, routingTables,
  \* the writers, the command, its transaction
  work, cmd, exit, runErr, txn, flushed,
  \* signals
  ctxDone, cleanupDone,
  \* history: failing calls, and the peers whose visit a writer was given
  failures, taken

dbVars == <<crawlRow, nameId, setId, peerId, visitRows, neighborRows, propertyRows, fileErr>>
clientVars == <<client, crawl, cache, setCache, peerMappings, routingTables>>
cmdVars == <<cmd, exit, runErr, txn, flushed>>
sigVars == <<ctxDone, cleanupDone>>
vars == <<dbVars, clientVars, work, cmdVars, sigVars, failures, taken>>

\* The state of the visits, and that of the reports.
visitVars == <<nameId, setId, peerId, visitRows, neighborRows, fileErr, cache, setCache,
               peerMappings, routingTables, work, taken>>
reportVars == <<crawlRow, propertyRows, client, crawl, cmdVars, sigVars>>

NoMap == [x \in {} |-> NoId]

Init ==
  /\ crawlRow = NoCrawl
  /\ nameId \in {[n \in Name |-> IF n \in S THEN 1 ELSE NoId] :
                   S \in {T \in SUBSET Name : Cardinality(T) <= 1}}
  /\ setId \in {NoMap} \union {[s \in {{nameId[n]}} |-> 1] :
                                n \in {m \in Protocol : nameId[m] # NoId}}
  /\ peerId = [p \in Peer |-> NoId]
  /\ visitRows = {} /\ propertyRows = {} /\ fileErr = {}
  /\ neighborRows = NoMap
  /\ client \in Client
  /\ crawl = NoCrawl
  /\ cache = NoMap /\ setCache = NoMap /\ peerMappings = NoMap /\ routingTables = NoMap
  /\ work = [w \in Writer |-> Idle]
  /\ cmd = "connect" /\ exit = "none" /\ runErr = "none"
  /\ txn = Idle /\ flushed = {}
  /\ ctxDone = FALSE /\ cleanupDone = FALSE
  /\ failures = 0 /\ taken = {}

(***************************************************************************)
(* Calls that fail, rows, and the cache.                                   *)
(***************************************************************************)

\* Postgres heeds the context of a call, the files do not.
Refused(done) == client = "postgres" /\ done

CallFails(done) ==
  \/ Refused(done) /\ UNCHANGED failures
  \/ failures < MaxFailures /\ failures' = failures + 1
CallReturns(done) == ~Refused(done) /\ UNCHANGED failures

\* The IDs of a table after an upsert of the members of S: those without a row
\* get an ID no other row has.
Upserted(ids, S) ==
  LET new == {x \in S : ids[x] = NoId}
      free == (1..Cardinality(DOMAIN ids)) \ {ids[x] : x \in DOMAIN ids}
      g == CHOOSE g \in [new -> free] : \A x, y \in new : g[x] = g[y] => x = y
  IN  [x \in DOMAIN ids |-> IF x \in new THEN g[x] ELSE ids[x]]

Extended(f, x, v) == [y \in DOMAIN f \union {x} |-> IF y = x THEN v ELSE f[y]]

\* The table of the sets after an upsert.
Inserted(ids, s) ==
  IF s \in DOMAIN ids THEN ids ELSE Extended(ids, s, Cardinality(DOMAIN ids) + 1)

\* The tables and caches: agent versions, protocols, sets of IDs.
Kind(n) == IF n \in Agent THEN Agent ELSE Protocol
Sets == SUBSET (0..Cardinality(Name))

\* The caches are LRU: a new key pushes out an old one of its kind when the
\* cache is full.
CacheAdded(c, n, id, kind) ==
  IF n \in DOMAIN c \/ Cardinality(DOMAIN c \intersect kind) < CacheSize
  THEN {Extended(c, n, id)}
  ELSE {Extended([m \in DOMAIN c \ {old} |-> c[m]], n, id) : old \in DOMAIN c \intersect kind}

(***************************************************************************)
(* The command, up to the run.                                             *)
(***************************************************************************)

\* fillAgentVersionsCache and its likes: as many rows as the cache holds.
Known(K) == {n \in K : nameId[n] # NoId}
Filled(known) == {S \in SUBSET known : Cardinality(S) <= CacheSize
                                      /\ (S = known \/ Cardinality(S) = CacheSize)}
Restricted(f, S) == [x \in S |-> f[x]]

\* NewPostgresClient with its filled caches, or NewJSONClient.
Connect ==
  /\ cmd = "connect"
  /\ CallReturns(ctxDone)
  /\ cmd' = "init"
  /\ IF client = "json" THEN UNCHANGED <<cache, setCache>>
     ELSE /\ \E A \in Filled(Known(Agent)), P \in Filled(Known(Protocol)) :
               cache' = Restricted(nameId, A \union P)
          /\ \E S \in Filled(DOMAIN setId) : setCache' = Restricted(setId, S)
  /\ UNCHANGED <<dbVars, client, crawl, peerMappings, routingTables, work, exit, runErr, txn,
                 flushed, sigVars, taken>>

ConnectFails ==
  /\ cmd = "connect"
  /\ CallFails(ctxDone)
  /\ cmd' = "done" /\ exit' = "error"
  /\ UNCHANGED <<dbVars, clientVars, work, runErr, txn, flushed, sigVars, taken>>

InitCrawl ==
  /\ cmd = "init"
  /\ CallReturns(ctxDone)
  /\ crawlRow' = "started" /\ crawl' = "started"
  /\ cmd' = "run"
  /\ UNCHANGED <<visitVars, propertyRows, client, exit, runErr, txn, flushed, sigVars>>

\* The client forgets the crawl, whatever became of its row or file.
InitCrawlFails ==
  /\ cmd = "init"
  /\ CallFails(ctxDone)
  /\ crawlRow' \in {NoCrawl, IF client = "json" THEN Torn ELSE "started"}
  /\ cmd' = "close" /\ exit' = "error"
  /\ UNCHANGED <<visitVars, propertyRows, client, crawl, runErr, txn, flushed, sigVars>>

\* The bootstrap list, the driver or the engine cannot be had.
SetupFails ==
  /\ cmd = "run" /\ taken = {}
  /\ failures < MaxFailures /\ failures' = failures + 1
  /\ cmd' = "close" /\ exit' = "error"
  /\ UNCHANGED <<dbVars, clientVars, work, runErr, txn, flushed, sigVars, taken>>

(***************************************************************************)
(* InsertVisit.                                                            *)
(***************************************************************************)

\* A writer gets the result of a peer, each at most once in a crawl.
TakeVisit(w, p) ==
  /\ cmd = "run" /\ work[w] = Idle /\ p \notin taken
  /\ taken' = taken \union {p}
  /\ work' = [work EXCEPT ![w] =
                IF client = "json" THEN [pc |-> "neighbors", peer |-> p]
                ELSE [pc |-> "lookup", peer |-> p, ids |-> NoMap, asked |-> NoMap,
                      set |-> IF VisitOf[p].protocols = {} THEN NoId ELSE Pending, newSet |-> NoId]]
  /\ UNCHANGED <<dbVars, clientVars, cmdVars, sigVars, failures>>

\* Two goroutines look up the agent version and the set of protocols, that one
\* a protocol at a time before the set.
Missing(w, n) ==
  /\ work[w].pc = "lookup"
  /\ n \in NamesOf(work[w].peer) \ (DOMAIN work[w].ids \union DOMAIN work[w].asked)
  /\ n \in Protocol => /\ work[w].set = Pending
                       /\ DOMAIN work[w].asked \intersect Protocol \subseteq DOMAIN work[w].ids

CacheHits(w, n) ==
  /\ Missing(w, n) /\ n \in DOMAIN cache
  /\ work' = [work EXCEPT ![w].ids = Extended(@, n, cache[n])]
  /\ UNCHANGED <<dbVars, clientVars, cmdVars, sigVars, failures, taken>>

UpsertName(w, n) ==
  /\ Missing(w, n) /\ n \notin DOMAIN cache
  /\ CallReturns(ctxDone)
  /\ nameId' = Upserted(nameId, {n})
  /\ work' = [work EXCEPT ![w].asked = Extended(@, n, nameId'[n])]
  /\ UNCHANGED <<crawlRow, setId, peerId, visitRows, neighborRows, propertyRows, fileErr,
                 clientVars, cmdVars, sigVars, taken>>

CacheAnswer(w, n) ==
  /\ work[w].pc = "lookup" /\ n \in DOMAIN work[w].asked \ DOMAIN work[w].ids
  /\ cache' \in CacheAdded(cache, n, work[w].asked[n], Kind(n))
  /\ work' = [work EXCEPT ![w].ids = Extended(@, n, work[w].asked[n])]
  /\ UNCHANGED <<dbVars, client, crawl, setCache, peerMappings, routingTables, cmdVars, sigVars,
                 failures, taken>>

\* The error is logged and the visit stored without an agent version, or
\* without its set of protocols though only one of them was not found.
LookupFails_SkipBug(w, n) ==
  /\ Missing(w, n) /\ n \notin DOMAIN cache
  /\ CallFails(ctxDone)
  /\ nameId' \in {nameId, Upserted(nameId, {n})}
  /\ work' = [work EXCEPT ![w].ids = Extended(@, n, NoId)]
  /\ UNCHANGED <<crawlRow, setId, peerId, visitRows, neighborRows, propertyRows, fileErr,
                 clientVars, cmdVars, sigVars, taken>>
LookupFails(w, n) ==
  /\ Missing(w, n) /\ n \notin DOMAIN cache
  /\ CallFails(ctxDone)
  /\ nameId' \in {nameId, Upserted(nameId, {n})}
  /\ \/ n \in Agent /\ work' = [work EXCEPT ![w].ids = Extended(@, n, NoId)]
     \/ n \in Protocol /\ work' = [work EXCEPT ![w].set = NoId]
  /\ UNCHANGED <<crawlRow, setId, peerId, visitRows, neighborRows, propertyRows, fileErr,
                 clientVars, cmdVars, sigVars, taken>>

\* The set as IDs, once they are known: a loop that meets an empty protocol
\* goes on and leaves a 0 in its place.
AllFound(w) ==
  /\ work[w].pc = "lookup" /\ work[w].set = Pending
  /\ VisitOf[work[w].peer].protocols \ {Empty} \subseteq DOMAIN work[w].ids
HasIds(p) == \A n \in VisitOf[p].protocols \ {Empty} : nameId[n] # NoId
ProtocolIDs(p, ids) == {IF n = Empty THEN NoId ELSE ids[n] : n \in VisitOf[p].protocols}
Key(w) == ProtocolIDs(work[w].peer, work[w].ids)

SetCacheHits(w) ==
  /\ AllFound(w) /\ Key(w) \in DOMAIN setCache /\ work[w].newSet = NoId
  /\ work' = [work EXCEPT ![w].set = setCache[Key(w)]]
  /\ UNCHANGED <<dbVars, clientVars, cmdVars, sigVars, failures, taken>>

UpsertSet(w) ==
  /\ AllFound(w) /\ Key(w) \notin DOMAIN setCache /\ work[w].newSet = NoId
  /\ CallReturns(ctxDone)
  /\ setId' = Inserted(setId, Key(w))
  /\ work' = [work EXCEPT ![w].newSet = setId'[Key(w)]]
  /\ UNCHANGED <<crawlRow, nameId, peerId, visitRows, neighborRows, propertyRows, fileErr,
                 clientVars, cmdVars, sigVars, taken>>

CacheSet(w) ==
  /\ AllFound(w) /\ work[w].newSet # NoId
  /\ setCache' \in CacheAdded(setCache, Key(w), work[w].newSet, Sets)
  /\ work' = [work EXCEPT ![w].set = work[w].newSet]
  /\ UNCHANGED <<dbVars, client, crawl, cache, peerMappings, routingTables, cmdVars, sigVars,
                 failures, taken>>

UpsertSetFails(w) ==
  /\ AllFound(w) /\ Key(w) \notin DOMAIN setCache /\ work[w].newSet = NoId
  /\ CallFails(ctxDone)
  /\ setId' \in {setId, Inserted(setId, Key(w))}
  /\ work' = [work EXCEPT ![w].set = NoId]
  /\ UNCHANGED <<crawlRow, nameId, peerId, visitRows, neighborRows, propertyRows, fileErr,
                 clientVars, cmdVars, sigVars, taken>>

HasNeighbors(p) == VisitOf[p].neighbors # {} \/ VisitOf[p].bits # 0

\* The routing table waits for Flush, whether the visit gets stored or not.
KeepNeighbors(w) ==
  LET p == work[w].peer
      agent == VisitOf[p].agent IN
  /\ work[w].pc = "lookup" /\ work[w].set # Pending
  /\ agent = Empty \/ agent \in DOMAIN work[w].ids
  /\ routingTables' = IF HasNeighbors(p) THEN Extended(routingTables, p, VisitOf[p].neighbors)
                      ELSE routingTables
  /\ work' = [work EXCEPT ![w] =
                [pc |-> "insert", peer |-> p, set |-> work[w].set,
                 agent |-> IF agent = Empty THEN NoId ELSE work[w].ids[agent]]]
  /\ UNCHANGED <<dbVars, client, crawl, cache, setCache, peerMappings, cmdVars, sigVars, failures, taken>>

VisitRow(w) ==
  [peer |-> work[w].peer, agent |-> work[w].agent, set |-> work[w].set]

StoreVisit(w) ==
  /\ work[w].pc = "insert"
  /\ CallReturns(ctxDone)
  /\ visitRows' = visitRows \union {VisitRow(w)}
  /\ peerId' = Upserted(peerId, {work[w].peer})
  /\ work' = [work EXCEPT ![w] = [pc |-> "map", peer |-> work[w].peer,
                                  id |-> peerId'[work[w].peer]]]
  /\ UNCHANGED <<crawlRow, nameId, setId, neighborRows, propertyRows, fileErr, clientVars,
                 cmdVars, sigVars, taken>>

FailVisit(w) ==
  /\ work[w].pc = "insert"
  /\ CallFails(ctxDone)
  /\ \/ UNCHANGED <<visitRows, peerId>>
     \/ /\ visitRows' = visitRows \union {VisitRow(w)}
        /\ peerId' = Upserted(peerId, {work[w].peer})
  /\ work' = [work EXCEPT ![w] = Idle]
  /\ UNCHANGED <<crawlRow, nameId, setId, neighborRows, propertyRows, fileErr, clientVars, cmdVars,
                 sigVars, taken>>

MapPeer(w) ==
  /\ work[w].pc = "map"
  /\ peerMappings' = Extended(peerMappings, work[w].peer, work[w].id)
  /\ work' = [work EXCEPT ![w] = Idle]
  /\ UNCHANGED <<dbVars, client, crawl, cache, setCache, routingTables, cmdVars, sigVars,
                 failures, taken>>

\* The JSON client: a line in either file, the neighbours first.
WriteNeighbors(w) ==
  LET p == work[w].peer IN
  /\ work[w].pc = "neighbors"
  /\ HasNeighbors(p) => "neighbors" \notin fileErr
  /\ neighborRows' = IF HasNeighbors(p) THEN Extended(neighborRows, p, VisitOf[p].neighbors)
                     ELSE neighborRows
  /\ work' = [work EXCEPT ![w] = [pc |-> "visit", peer |-> p]]
  /\ UNCHANGED <<crawlRow, nameId, setId, peerId, visitRows, propertyRows, fileErr, clientVars, cmdVars,
                 sigVars, failures, taken>>

WriteVisit(w) ==
  /\ work[w].pc = "visit" /\ "visits" \notin fileErr
  /\ visitRows' = visitRows \union {[peer |-> work[w].peer, agent |-> NoId, set |-> NoId]}
  /\ work' = [work EXCEPT ![w] = Idle]
  /\ UNCHANGED <<crawlRow, nameId, setId, peerId, neighborRows, propertyRows, fileErr, clientVars,
                 cmdVars, sigVars, failures, taken>>

WriteFails(w, file) ==
  /\ \/ work[w].pc = "neighbors" /\ HasNeighbors(work[w].peer) /\ file = "neighbors"
     \/ work[w].pc = "visit" /\ file = "visits"
  /\ \/ file \in fileErr /\ UNCHANGED failures
     \/ file \notin fileErr /\ failures < MaxFailures /\ failures' = failures + 1
  /\ fileErr' = fileErr \union {file}
  /\ work' = [work EXCEPT ![w] = Idle]
  /\ UNCHANGED <<crawlRow, nameId, setId, peerId, visitRows, neighborRows, propertyRows,
                 clientVars, cmdVars, sigVars, taken>>

(***************************************************************************)
(* The end of the run, and what is persisted after it.                     *)
(***************************************************************************)

AllIdle == \A w \in Writer : work[w] = Idle

\* Engine.Run returns after its writers: it has visited all peers, or it was
\* cancelled.  Cancelled, it may also hang for ever, the writers with it once
\* they have stored the visit they have.
EndRun ==
  /\ cmd = "run" /\ AllIdle
  /\ \/ taken = Peer /\ runErr' = "none"
     \/ ctxDone /\ runErr' = "canceled"
  /\ cmd' = "seal"
  /\ UNCHANGED <<dbVars, clientVars, work, exit, txn, flushed, sigVars, failures, taken>>

Hang ==
  /\ cmd = "run" /\ ctxDone
  /\ cmd' = "stuck"
  /\ UNCHANGED <<dbVars, clientVars, work, exit, runErr, txn, flushed, sigVars, failures, taken>>

\* The context of the clean-up, which is not that of the crawl.
CleanupOver == cleanupDone

SealedState == IF runErr = "none" THEN "succeeded" ELSE "cancelled"

SealCrawl ==
  /\ cmd = "seal"
  /\ CallReturns(CleanupOver)
  /\ crawlRow' = SealedState /\ crawl' = SealedState
  /\ cmd' = "begin"
  /\ UNCHANGED <<visitVars, propertyRows, client, exit, runErr, txn, flushed, sigVars>>

\* An error of a step ends the clean-up: properties and neighbours are not
\* stored any more, and the command reports it.
SealCrawlFails ==
  /\ cmd = "seal"
  /\ CallFails(CleanupOver)
  /\ crawlRow' \in {crawlRow, IF client = "json" THEN Torn ELSE SealedState}
  /\ cmd' = "close" /\ exit' = "error"
  /\ UNCHANGED <<visitVars, propertyRows, client, crawl, runErr, txn, flushed, sigVars>>

\* The names the crawl counted, one crawl property each.
Counted == UNION {NamesOf(p) : p \in taken}

BeginProperties ==
  /\ cmd = "begin" /\ client = "postgres"
  /\ CallReturns(CleanupOver)
  /\ txn' = [pc |-> "open", ok |-> TRUE, left |-> Counted, rows |-> {}, ids |-> nameId]
  /\ cmd' = "properties"
  /\ UNCHANGED <<dbVars, clientVars, work, exit, runErr, flushed, sigVars, taken>>

WriteProperties ==
  /\ cmd = "begin" /\ client = "json"
  /\ UNCHANGED failures
  /\ propertyRows' = Counted
  /\ cmd' = "flush"
  /\ UNCHANGED <<visitVars, crawlRow, client, crawl, exit, runErr, txn, flushed, sigVars>>

PropertiesFail ==
  /\ cmd = "begin"
  /\ CallFails(CleanupOver)
  /\ cmd' = "close" /\ exit' = "error"
  /\ propertyRows' \in IF client = "json" THEN SUBSET Counted ELSE {propertyRows}
  /\ UNCHANGED <<visitVars, crawlRow, client, crawl, runErr, txn, flushed, sigVars>>

\* Look up a name, in the cache or in the transaction, and insert its row.
StoreProperty_NoTxnBug(n) ==
  LET ids == IF n \in DOMAIN cache THEN txn.ids ELSE Upserted(txn.ids, {n}) IN
  /\ cmd = "properties" /\ n \in txn.left /\ txn.ok
  /\ CallReturns(CleanupOver)
  /\ cache' \in IF n \in DOMAIN cache THEN {cache} ELSE CacheAdded(cache, n, ids[n], Kind(n))
  /\ txn' = [txn EXCEPT !.left = @ \ {n}, !.rows = @ \union {n}, !.ids = ids]
  /\ propertyRows' = propertyRows \union {n}
  /\ UNCHANGED <<crawlRow, nameId, setId, peerId, visitRows, neighborRows, fileErr, client, crawl,
                 setCache, peerMappings, routingTables, work, cmd, exit, runErr, flushed, sigVars, taken>>
StoreProperty(n) ==
  LET ids == IF n \in DOMAIN cache THEN txn.ids ELSE Upserted(txn.ids, {n}) IN
  /\ cmd = "properties" /\ n \in txn.left /\ txn.ok
  /\ CallReturns(CleanupOver)
  /\ cache' \in IF n \in DOMAIN cache THEN {cache} ELSE CacheAdded(cache, n, ids[n], Kind(n))
  /\ txn' = [txn EXCEPT !.left = @ \ {n}, !.rows = @ \union {n}, !.ids = ids]
  /\ UNCHANGED <<dbVars, client, crawl, setCache, peerMappings, routingTables, work, cmd, exit,
                 runErr, flushed, sigVars, taken>>

\* A statement that fails aborts the transaction, and so do all that follow;
\* the loop goes on.  A name upserted before stays in the cache.
PropertyFails_RetryBug(n) ==
  /\ cmd = "properties" /\ n \in txn.left
  /\ (~txn.ok /\ UNCHANGED failures) \/ (txn.ok /\ CallFails(CleanupOver))
  /\ txn' = [txn EXCEPT !.ok = FALSE]
  /\ UNCHANGED <<dbVars, clientVars, work, cmd, exit, runErr, flushed, sigVars, taken>>
PropertyFails(n) ==
  /\ cmd = "properties" /\ n \in txn.left
  /\ \/ ~txn.ok /\ UNCHANGED <<failures, cache>>
     \/ /\ txn.ok /\ CallFails(CleanupOver)
        /\ cache' \in IF n \in DOMAIN cache THEN {cache}
                      ELSE {cache} \union CacheAdded(cache, n, Upserted(txn.ids, {n})[n], Kind(n))
  /\ txn' = [txn EXCEPT !.left = @ \ {n}, !.ok = FALSE]
  /\ UNCHANGED <<dbVars, client, crawl, setCache, peerMappings, routingTables, work, cmd, exit,
                 runErr, flushed, sigVars, taken>>

CommitProperties ==
  /\ cmd = "properties" /\ txn.left = {} /\ txn.ok
  /\ CallReturns(CleanupOver)
  /\ propertyRows' = txn.rows /\ nameId' = txn.ids
  /\ txn' = Idle
  /\ cmd' = "flush"
  /\ UNCHANGED <<crawlRow, setId, peerId, visitRows, neighborRows, fileErr, clientVars, work, exit,
                 runErr, flushed, sigVars, taken>>

CommitFails ==
  /\ cmd = "properties" /\ txn.left = {}
  /\ \/ ~txn.ok /\ UNCHANGED <<failures, propertyRows, nameId>>
     \/ /\ txn.ok /\ CallFails(CleanupOver)
        /\ \/ UNCHANGED <<propertyRows, nameId>>
           \/ propertyRows' = txn.rows /\ nameId' = txn.ids
  /\ txn' = Idle
  /\ cmd' = "close" /\ exit' = "error"
  /\ UNCHANGED <<crawlRow, setId, peerId, visitRows, neighborRows, fileErr, clientVars, work,
                 runErr, flushed, sigVars, taken>>

(***************************************************************************)
(* Flush and Close.                                                        *)
(***************************************************************************)

\* insert_neighbors: IDs of this client, or of the row found or made for the
\* peer.  Without neighbours its GROUP BY makes no row at all, and the error
\* bits are not stored.
Rows(p) == Upserted(peerId, {q \in routingTables[p] \union {p} : q \notin DOMAIN peerMappings})
IdIn(rows, q) == IF q \in DOMAIN peerMappings THEN peerMappings[q] ELSE rows[q]
NeighborIds_MappedOnlyBug(p) ==
  {peerMappings[q] : q \in routingTables[p] \intersect DOMAIN peerMappings}
NeighborIds(p) == {IdIn(Rows(p), q) : q \in routingTables[p]}

NeighborsStored(p) ==
  IF routingTables[p] = {} THEN UNCHANGED <<peerId, neighborRows>>
  ELSE /\ peerId' = Rows(p)
       /\ neighborRows' = Extended(neighborRows, p, NeighborIds(p))

InsertNeighbors(p) ==
  /\ cmd = "flush" /\ p \in DOMAIN routingTables \ flushed
  /\ CallReturns(CleanupOver)
  /\ flushed' = flushed \union {p}
  /\ NeighborsStored(p)
  /\ UNCHANGED <<crawlRow, nameId, setId, visitRows, propertyRows, fileErr, clientVars, work, cmd,
                 exit, runErr, txn, sigVars, taken>>

\* The rest is given up, with a warning.
FlushFails(p) ==
  /\ cmd = "flush" /\ p \in DOMAIN routingTables \ flushed
  /\ CallFails(CleanupOver)
  /\ UNCHANGED <<peerId, neighborRows>> \/ NeighborsStored(p)
  /\ cmd' = "close" /\ exit' = "ok"
  /\ UNCHANGED <<crawlRow, nameId, setId, visitRows, propertyRows, fileErr, clientVars, work,
                 runErr, txn, flushed, sigVars, taken>>

FlushEnds ==
  /\ cmd = "flush" /\ DOMAIN routingTables = flushed
  /\ cmd' = "close" /\ exit' = "ok"
  /\ UNCHANGED <<dbVars, clientVars, work, runErr, txn, flushed, sigVars, failures, taken>>

Close ==
  /\ cmd = "close"
  /\ cmd' = "done"
  /\ UNCHANGED <<dbVars, clientVars, work, exit, runErr, txn, flushed, sigVars, failures, taken>>

(***************************************************************************)
(* Signals, and other clients of the database.                             *)
(***************************************************************************)

Persisting == cmd \in {"seal", "begin", "properties", "flush"}

\* The first signal cancels the crawl; main then takes its handler away.
Cancel ==
  /\ cmd \in {"connect", "init", "run"} /\ ~ctxDone
  /\ ctxDone' = TRUE
  /\ UNCHANGED <<dbVars, clientVars, work, cmdVars, cleanupDone, failures, taken>>

CancelCleanup ==
  /\ Persisting /\ ~cleanupDone
  /\ ctxDone' = TRUE /\ cleanupDone' = TRUE
  /\ UNCHANGED <<dbVars, clientVars, work, cmdVars, failures, taken>>

\* Nobody handles the signal: the process ends, its transaction with it.
Kill ==
  /\ \/ cmd \in {"connect", "init", "run", "stuck"} /\ ctxDone
     \/ Persisting /\ cleanupDone
  /\ cmd' = "killed" /\ txn' = Idle
  /\ work' = [w \in Writer |-> Idle]
  /\ UNCHANGED <<dbVars, clientVars, exit, runErr, flushed, sigVars, failures, taken>>

\* A crawl in another process has found a name, a set or a peer first.
OtherClient ==
  /\ client = "postgres" /\ cmd = "run"
  /\ \/ /\ \E n \in Name : nameId[n] = NoId /\ nameId' = Upserted(nameId, {n})
        /\ UNCHANGED <<setId, peerId>>
     \/ /\ \E p \in Peer :
             /\ VisitOf[p].protocols # {} /\ HasIds(p)
             /\ ProtocolIDs(p, nameId) \notin DOMAIN setId
             /\ setId' = Inserted(setId, ProtocolIDs(p, nameId))
        /\ UNCHANGED <<nameId, peerId>>
     \/ /\ \E p \in Peer : peerId[p] = NoId /\ peerId' = Upserted(peerId, {p})
        /\ UNCHANGED <<nameId, setId>>
  /\ UNCHANGED <<crawlRow, visitRows, neighborRows, propertyRows, fileErr, clientVars, work,
                 cmdVars, sigVars, failures, taken>>

Lookup(w) ==
  \/ \E n \in Name : CacheHits(w, n) \/ UpsertName(w, n) \/ CacheAnswer(w, n) \/ LookupFails(w, n)
  \/ SetCacheHits(w) \/ UpsertSet(w) \/ CacheSet(w) \/ UpsertSetFails(w)
WriterStep(w) ==
  \/ \E p \in Peer : TakeVisit(w, p)
  \/ Lookup(w) \/ KeepNeighbors(w) \/ StoreVisit(w) \/ FailVisit(w) \/ MapPeer(w)
  \/ WriteNeighbors(w) \/ WriteVisit(w) \/ \E f \in {"neighbors", "visits"} : WriteFails(w, f)
CommandStep ==
  \/ Connect \/ ConnectFails \/ InitCrawl \/ InitCrawlFails \/ SetupFails \/ EndRun \/ Hang
  \/ SealCrawl \/ SealCrawlFails
  \/ BeginProperties \/ WriteProperties \/ PropertiesFail
  \/ \E n \in Name : StoreProperty(n) \/ PropertyFails(n)
  \/ CommitProperties \/ CommitFails
  \/ \E p \in Peer : InsertNeighbors(p) \/ FlushFails(p)
  \/ FlushEnds \/ Close

Next ==
  \/ CommandStep \/ \E w \in Writer : WriterStep(w)
  \/ Cancel \/ CancelCleanup \/ Kill \/ OtherClient

\* The command and its writers go on as long as they can.
Spec == Init /\ [][Next]_vars /\ WF_vars(CommandStep) /\ \A w \in Writer : WF_vars(WriterStep(w))

(***************************************************************************)
(* Properties.                                                             *)
(***************************************************************************)

States == {NoCrawl, "started", "succeeded", "cancelled"}
Phases == {"connect", "init", "run", "stuck", "seal", "begin", "properties", "flush", "close",
           "done", "killed"}

TypeOK ==
  /\ crawlRow \in States \union {Torn} /\ crawl \in States /\ client \in Client
  /\ nameId \in [Name -> 0..Cardinality(Name)] /\ peerId \in [Peer -> 0..Cardinality(Peer)]
  /\ DOMAIN cache \subseteq Name
  /\ \A K \in {Agent, Protocol} : Cardinality(DOMAIN cache \intersect K) <= CacheSize
  /\ DOMAIN setId \subseteq Sets /\ Cardinality(DOMAIN setCache) <= CacheSize
  /\ DOMAIN peerMappings \subseteq Peer /\ DOMAIN routingTables \subseteq taken
  /\ propertyRows \subseteq Name /\ fileErr \subseteq {"neighbors", "visits"}
  /\ cmd \in Phases /\ exit \in {"none", "ok", "error"} /\ runErr \in {"none", "canceled"}
  /\ flushed \subseteq DOMAIN routingTables /\ failures \in 0..MaxFailures

\* The set a visit of p refers to: all its protocols, found and with a row.
RefersToSet(p, id) ==
  /\ HasIds(p) /\ ProtocolIDs(p, nameId) \in DOMAIN setId
  /\ setId[ProtocolIDs(p, nameId)] = id

\* Whatever a visit refers to is there and is what the visit found: its agent
\* version, and a set of just its protocols, with no protocol left out of it
\* because its lookup has failed.  IDs come from caches, from other writers'
\* upserts and from calls that were given up.  While the crawl runs the caches
\* and the peer mappings say what the tables say.
ReferencesHold ==
  /\ TypeOK
  /\ \A v \in visitRows :
       /\ v.agent # NoId => VisitOf[v.peer].agent \in Agent /\ v.agent = nameId[VisitOf[v.peer].agent]
       /\ v.set # NoId => RefersToSet(v.peer, v.set)
  /\ \A s \in DOMAIN setId : s \subseteq {NoId} \union {nameId[n] : n \in Protocol}
  /\ \A s, t \in DOMAIN setId : setId[s] = setId[t] => s = t
  /\ cmd = "run" => \A n \in DOMAIN cache : cache[n] = nameId[n]
  /\ \A s \in DOMAIN setCache : s \in DOMAIN setId /\ setCache[s] = setId[s]
  /\ \A p \in DOMAIN peerMappings : peerMappings[p] = peerId[p] /\ peerId[p] # NoId
  /\ \A p, q \in Peer : peerId[p] = peerId[q] /\ p # q => peerId[p] = NoId
  /\ client = "postgres" => \A p \in DOMAIN neighborRows : peerId[p] # NoId /\ NoId \notin neighborRows[p]

Lines(p) == IF client = "json" THEN VisitOf[p].neighbors
            ELSE {peerId[q] : q \in VisitOf[p].neighbors}

\* A stored routing table is the whole one.  When Flush has not failed there is
\* one for every peer that has neighbours, stored visit or not; and a visit in
\* the JSON files never lacks its neighbours.
NeighborsComplete ==
  /\ \A p \in DOMAIN neighborRows : neighborRows[p] = Lines(p)
  /\ cmd = "done" /\ exit = "ok" /\ client = "postgres" /\ flushed = DOMAIN routingTables =>
       \A p \in taken : VisitOf[p].neighbors # {} => p \in DOMAIN neighborRows
  /\ client = "json" => \A v \in visitRows : HasNeighbors(v.peer) => v.peer \in DOMAIN neighborRows

\* The crawl properties in the database are none or all, and complete when the
\* command reports success, as is the state of the crawl.  When Engine.Run
\* returns after it, a single signal during the run costs nothing of it.
ReportsAreWhole ==
  /\ client = "postgres" => propertyRows \in {{}, Counted}
  /\ cmd = "done" /\ exit = "ok" => propertyRows = Counted /\ crawlRow = SealedState /\ crawl = crawlRow
  /\ cmd = "done" /\ crawl # NoCrawl /\ failures = 0 /\ ~cleanupDone => exit = "ok"

\* The command ends, whatever fails.  Interrupted, it ends by itself or by a
\* second signal, unless Engine.Run was cancelled and hangs.
CommandReturns == <>(cmd = "done" \/ (ctxDone /\ cmd \in {"killed", "stuck"}))
=============================================================================
