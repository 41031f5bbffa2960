-------------------------- MODULE ClickHouseProofs --------------------------
(***************************************************************************)
(* Proofs about the ClickHouse client, for any visits with any number of   *)
(* neighbours, any size of a batch, and a database that may refuse any     *)
(* row or batch, say so when it does not, and fail to prepare any batch.   *)
(***************************************************************************)
EXTENDS ClickHouse, FunctionTheorems, FiniteSetTheorems, TLAPS

-----------------------------------------------------------------------------
\* The rows of visits.

LEMMA RowsOfType ==
  ASSUME NEW v \in Visits, NEW b \in Batches
  PROVE  RowsOf(v, b) \subseteq Row /\ IsFiniteSet(RowsOf(v, b))
<1> DEFINE n == NeighborCount[v]
           some == {<<v, i>> : i \in 1..n}
<1>1. n \in Nat
  BY ClickHouseAssumption
<1>2. <<v, 0>> \in Row /\ some \subseteq Row
  <2>1. {v} \X (0..n) \subseteq Row
    BY DEF Row
  <2> QED
    BY <1>1, <2>1
<1>3. IsFiniteSet(some)
  <2> DEFINE f == [i \in 1..n |-> <<v, i>>]
  <2>1. f \in Surjection(1..n, some)
    BY DEF Surjection
  <2>2. IsFiniteSet(1..n)
    BY <1>1, FS_Interval
  <2> QED
    BY <2>1, <2>2, FS_Surjection
<1>4. IsFiniteSet({<<v, 0>>}) /\ IsFiniteSet({})
  BY FS_Singleton, FS_EmptySet
<1>5. RowsOf(v, b) \in {{<<v, 0>>}, some, {}}
  BY DEF RowsOf
<1> QED
  BY <1>2, <1>3, <1>4, <1>5

\* No row belongs to two visits.
LEMMA RowsApart ==
  ASSUME NEW u \in Visits, NEW v \in Visits, NEW b \in Batches, NEW r,
         r \in RowsOf(u, b), r \in RowsOf(v, b)
  PROVE  u = v
<1>1. ASSUME NEW w \in Visits, r \in RowsOf(w, b) PROVE r[1] = w
  BY <1>1 DEF RowsOf
<1> QED
  BY <1>1

-----------------------------------------------------------------------------
\* The inductive invariant.

\* What the place of the flusher says of its batches.
FlusherInv ==
  /\ fpc = "select" => \A b \in Batches : batch[b] = "ready"
  /\ fpc = "discard" => \E b \in Batches : batch[b] = "nil"
  /\ (fpc = "exited" /\ ~forced /\ \A b \in Batches : batch[b] # "nil") =>
       \A b \in Batches : batch[b] = "sent"
  /\ closing = "closed" => fpc = "exited"

\* A Flush concerns visits that had been taken over.
OwedInv == owed \subseteq Taken

FiniteRows == \A b \in Batches : IsFiniteSet(rows[b])

\* What ClickHouse has confirmed, beside what the client remembers: in a call the
\* answer decides which of the two is right.
CrawlInv ==
  /\ crawlCall = "none" => answer = "none" /\ original = "none" /\ crawl = acked
  /\ crawlCall = "init" =>
       /\ crawl = "none" /\ original = "none"
       /\ acked = IF answer = "ok" THEN "started" ELSE "none"
  /\ crawlCall = "seal" =>
       /\ crawl \in Seals /\ acked # "none"
       /\ acked = IF answer = "ok" THEN crawl ELSE original
  /\ acked # "none" => crawlRow # "none"
  /\ acked \in Seals => crawlRow \in Seals
  /\ inCrawl # {} => acked # "none"

Inv ==
  /\ ChTypeOK /\ FlusherInv /\ OwedInv /\ FiniteRows
  /\ RowsConserved /\ NothingLeftPending /\ BatchesBounded /\ CrawlInv

LEMMA InitInv == ChInit => Inv
<1> SUFFICES ASSUME ChInit PROVE Inv
  OBVIOUS
<1> USE DEF ChInit
<1>1. ChTypeOK
  BY DEF ChTypeOK, CrawlState
<1>2. FlusherInv /\ OwedInv
  BY DEF FlusherInv, OwedInv
<1>3. \A b \in Batches : rows[b] = {} /\ Pending(b) = {}
  BY DEF Pending
<1>4. FiniteRows /\ NothingLeftPending
  BY <1>3, FS_EmptySet DEF FiniteRows, NothingLeftPending
<1>5. BatchesBounded
  <2>1. Cardinality({}) < BatchSize
    BY FS_EmptySet, ClickHouseAssumption
  <2> QED
    BY <1>1, <1>3, <2>1 DEF BatchesBounded
<1>6. RowsConserved
  <2>1. Taken = {}
    BY DEF Taken
  <2>2. \A b \in Batches, r \in Row : stored[b][r] = 0 /\ r \notin logged[b] /\ r \notin Pending(b)
    BY <1>3
  <2> QED
    BY <2>1, <2>2 DEF RowsConserved
<1>7. CrawlInv
  BY ClickHouseAssumption DEF CrawlInv
<1> QED
  BY <1>1, <1>2, <1>4, <1>5, <1>6, <1>7 DEF Inv

-----------------------------------------------------------------------------
\* Sending batches.

\* While every batch is ready and holds no row that is stored or logged, sending
\* some of them leaves each of their rows stored at most once, and stored or
\* logged; the other rows stay as they are, apart from those that were missed.
LEMMA SendFate ==
  ASSUME ChTypeOK, NEW full \in [Batches -> SUBSET Row], NEW missed, NEW bs \in SUBSET Batches,
         \A b \in Batches : batch[b] = "ready",
         \A b \in Batches, r \in Row :
           r \in full[b] => stored[b][r] = 0 /\ r \notin logged[b] /\ <<b, r>> \notin missed,
         rows' = full, Send(full, missed, bs)
  PROVE  /\ batch' = [b \in Batches |-> IF b \in bs THEN "sent" ELSE "ready"]
         /\ stored' \in [Batches -> [Row -> Nat]] /\ logged' \in [Batches -> SUBSET Row]
         /\ \A b \in Batches : Pending(b)' = IF b \in bs THEN {} ELSE full[b]
         /\ \A b \in Batches, r \in Row : r \in full[b] =>
              /\ stored'[b][r] <= 1
              /\ b \in bs => stored'[b][r] > 0 \/ r \in logged'[b]
              /\ b \notin bs => stored'[b][r] = 0 /\ r \notin logged'[b]
         /\ \A b \in Batches, r \in Row : r \notin full[b] =>
              /\ stored'[b][r] = stored[b][r]
              /\ r \in logged'[b] <=> r \in logged[b] \/ <<b, r>> \in missed
<1>1. PICK failed \in SUBSET bs, got \in SUBSET bs :
        /\ bs \ failed \subseteq got
        /\ batch' = [b \in Batches |-> IF b \in bs THEN "sent" ELSE batch[b]]
        /\ stored' = [b \in Batches |-> [r \in Row |->
             IF b \in got /\ r \in full[b] THEN stored[b][r] + 1 ELSE stored[b][r]]]
        /\ logged' = [b \in Batches |->
             logged[b] \cup {r \in Row : <<b, r>> \in missed}
               \cup IF b \in failed THEN full[b] ELSE {}]
  BY DEF Send
<1>2. stored \in [Batches -> [Row -> Nat]] /\ logged \in [Batches -> SUBSET Row]
  BY DEF ChTypeOK
<1>3. batch' = [b \in Batches |-> IF b \in bs THEN "sent" ELSE "ready"]
  BY <1>1
<1>4. stored' \in [Batches -> [Row -> Nat]]
  BY <1>1, <1>2
<1>5. logged' \in [Batches -> SUBSET Row]
  BY <1>1, <1>2
<1>6. \A b \in Batches : Pending(b)' = IF b \in bs THEN {} ELSE full[b]
  BY <1>3 DEF Pending
<1>7. ASSUME NEW b \in Batches, NEW r \in Row
      PROVE  /\ stored[b][r] \in Nat
             /\ stored'[b][r] = IF b \in got /\ r \in full[b] THEN stored[b][r] + 1
                                ELSE stored[b][r]
             /\ r \in logged'[b] <=>
                  r \in logged[b] \/ <<b, r>> \in missed \/ (b \in failed /\ r \in full[b])
  BY <1>1, <1>2
<1>8. ASSUME NEW b \in Batches, NEW r \in Row, r \in full[b]
      PROVE  /\ stored'[b][r] <= 1
             /\ b \in bs => stored'[b][r] > 0 \/ r \in logged'[b]
             /\ b \notin bs => stored'[b][r] = 0 /\ r \notin logged'[b]
  <2>1. stored[b][r] = 0 /\ r \notin logged[b] /\ <<b, r>> \notin missed
    BY <1>8
  <2> QED
    BY <1>1, <1>7, <1>8, <2>1
<1>9. ASSUME NEW b \in Batches, NEW r \in Row, r \notin full[b]
      PROVE  /\ stored'[b][r] = stored[b][r]
             /\ r \in logged'[b] <=> r \in logged[b] \/ <<b, r>> \in missed
  BY <1>7, <1>9
<1> QED
  BY <1>3, <1>4, <1>5, <1>6, <1>8, <1>9

\* What a row in a batch that is ready cannot be: stored, logged, or nobody's.
LEMMA PendingOnce ==
  ASSUME RowsConserved, NEW b \in Batches, NEW r \in Row, batch[b] = "ready", r \in rows[b]
  PROVE  /\ stored[b][r] = 0 /\ r \notin logged[b]
         /\ \E v \in Taken : r \in RowsOf(v, b)
BY DEF RowsConserved, Pending

\* The flusher sends everything.
LEMMA SendAllInv ==
  ASSUME Inv, fpc = "select", SendAll, UNCHANGED <<rows, callVars>>
  PROVE  /\ batch' \in [Batches -> {"sent"}]
         /\ stored' \in [Batches -> [Row -> Nat]] /\ logged' \in [Batches -> SUBSET Row]
         /\ \A b \in Batches : Pending(b)' = {}
         /\ RowsConserved'
<1>1. /\ ChTypeOK /\ RowsConserved
      /\ rows \in [Batches -> SUBSET Row] /\ \A b \in Batches : batch[b] = "ready"
  BY DEF Inv, ChTypeOK, FlusherInv
<1>2. \A b \in Batches, r \in Row : r \in rows[b] => stored[b][r] = 0 /\ r \notin logged[b]
  BY <1>1, PendingOnce
<1>3. /\ batch' = [b \in Batches |-> IF b \in Batches THEN "sent" ELSE "ready"]
      /\ stored' \in [Batches -> [Row -> Nat]] /\ logged' \in [Batches -> SUBSET Row]
      /\ \A b \in Batches : Pending(b)' = IF b \in Batches THEN {} ELSE rows[b]
      /\ \A b \in Batches, r \in Row : r \in rows[b] =>
           /\ stored'[b][r] <= 1
           /\ b \in Batches => stored'[b][r] > 0 \/ r \in logged'[b]
      /\ \A b \in Batches, r \in Row : r \notin rows[b] =>
           /\ stored'[b][r] = stored[b][r]
           /\ r \in logged'[b] <=> r \in logged[b] \/ <<b, r>> \in {}
  <2> DEFINE bs == Batches
             missed == {}
  <2>1. Send(rows, missed, bs) /\ rows' = rows /\ bs \in SUBSET Batches
    BY DEF SendAll
  <2>2. \A b \in Batches, r \in Row :
          r \in rows[b] => stored[b][r] = 0 /\ r \notin logged[b] /\ <<b, r>> \notin missed
    BY <1>2
  <2> HIDE DEF bs, missed
  <2>3. /\ batch' = [b \in Batches |-> IF b \in bs THEN "sent" ELSE "ready"]
        /\ stored' \in [Batches -> [Row -> Nat]] /\ logged' \in [Batches -> SUBSET Row]
        /\ \A b \in Batches : Pending(b)' = IF b \in bs THEN {} ELSE rows[b]
        /\ \A b \in Batches, r \in Row : r \in rows[b] =>
             /\ stored'[b][r] <= 1
             /\ b \in bs => stored'[b][r] > 0 \/ r \in logged'[b]
             /\ b \notin bs => stored'[b][r] = 0 /\ r \notin logged'[b]
        /\ \A b \in Batches, r \in Row : r \notin rows[b] =>
             /\ stored'[b][r] = stored[b][r]
             /\ r \in logged'[b] <=> r \in logged[b] \/ <<b, r>> \in missed
    BY <1>1, <2>1, <2>2, SendFate
  <2> QED
    BY <2>3 DEF bs, missed
<1>4. Taken' = Taken /\ \A v \in Visits, b \in Batches : RowsOf(v, b)' = RowsOf(v, b)
  BY DEF Taken, RowsOf, callVars
<1>5. ASSUME NEW b \in Batches, NEW r \in Row
      PROVE  /\ (\E v \in Taken : r \in RowsOf(v, b)) <=> stored'[b][r] > 0 \/ r \in logged'[b]
             /\ stored'[b][r] <= 1
             /\ r \notin Pending(b)'
  <2>1. CASE r \in rows[b]
    BY <1>1, <1>3, <2>1, PendingOnce
  <2>2. CASE r \notin rows[b]
    BY <1>1, <1>3, <2>2 DEF RowsConserved, Pending
  <2> QED
    BY <2>1, <2>2
<1>6. RowsConserved'
  BY <1>4, <1>5 DEF RowsConserved, Taken
<1> QED
  BY <1>3, <1>6

-----------------------------------------------------------------------------
\* The steps.

\* A step that leaves the batches and the rows of the visits alone.
LEMMA BatchesAlone ==
  ASSUME Inv, ChTypeOK', UNCHANGED batchVars, Taken' = Taken,
         \A v \in Taken, b \in Batches : RowsOf(v, b)' = RowsOf(v, b)
  PROVE  /\ RowsConserved' /\ BatchesBounded' /\ FiniteRows'
         /\ \A b \in Batches : Pending(b)' = Pending(b)
<1>1. \A b \in Batches : Pending(b)' = Pending(b)
  BY DEF Pending, batchVars
<1>2. \A b \in Batches : stored'[b] = stored[b] /\ logged'[b] = logged[b]
  BY DEF batchVars
<1>3. RowsConserved'
  BY <1>1, <1>2 DEF Inv, RowsConserved, Taken
<1>4. BatchesBounded' /\ FiniteRows'
  BY <1>1 DEF Inv, BatchesBounded, FiniteRows, batchVars
<1> QED
  BY <1>1, <1>3, <1>4

LEMMA CrawlAlone ==
  ASSUME CrawlInv, UNCHANGED <<crawlVars, inCrawl>>
  PROVE  CrawlInv'
BY DEF CrawlInv, crawlVars

\* The calls that change the crawl, and the one that reads it.
CrawlStep == InitCrawl \/ (\E s \in Seals : SealCrawl(s)) \/ WriteCrawl \/ CrawlReturns

LEMMA CrawlStepInv ==
  ASSUME ChTypeOK, CrawlInv, CrawlStep
  PROVE  CrawlInv'
<1> USE ClickHouseAssumption
<1>1. inCrawl' = inCrawl
  BY DEF CrawlStep, InitCrawl, SealCrawl, WriteCrawl, CrawlReturns, callVars
<1>2. CASE InitCrawl
  BY <1>1, <1>2 DEF CrawlInv, InitCrawl
<1>3. ASSUME NEW s \in Seals, SealCrawl(s) PROVE CrawlInv'
  BY <1>1, <1>3 DEF CrawlInv, SealCrawl
<1>4. CASE WriteCrawl
  <2>1. crawlCall \in {"init", "seal"}
    BY <1>4 DEF WriteCrawl, ChTypeOK
  <2>2. CASE crawlCall = "init"
    BY <1>1, <1>4, <2>2 DEF CrawlInv, WriteCrawl
  <2>3. CASE crawlCall = "seal"
    BY <1>1, <1>4, <2>3 DEF CrawlInv, WriteCrawl
  <2> QED
    BY <2>1, <2>2, <2>3
<1>5. CASE CrawlReturns
  <2>1. crawlCall \in {"init", "seal"} /\ answer \in {"ok", "error"}
    BY <1>5 DEF CrawlReturns, ChTypeOK, CrawlInv
  <2>2. CASE crawlCall = "init"
    BY <1>1, <1>5, <2>1, <2>2 DEF CrawlInv, CrawlReturns
  <2>3. CASE crawlCall = "seal"
    BY <1>1, <1>5, <2>1, <2>3 DEF CrawlInv, CrawlReturns
  <2> QED
    BY <2>1, <2>2, <2>3
<1> QED
  BY <1>2, <1>3, <1>4, <1>5 DEF CrawlStep

LEMMA InsertCrawlInv ==
  ASSUME ChTypeOK, CrawlInv, NEW v \in Visits, InsertVisit(v)
  PROVE  CrawlInv'
<1>1. UNCHANGED crawlVars
  BY DEF InsertVisit
<1>2. crawl # "none" => acked # "none"
  BY DEF CrawlInv, ChTypeOK
<1>3. inCrawl' # {} => acked # "none"
  BY <1>2 DEF CrawlInv, InsertVisit
<1> QED
  BY <1>1, <1>3 DEF CrawlInv, crawlVars

\* A step of a caller.
LEMMA CallerInv ==
  ASSUME Inv, ~crashed, CallerStep
  PROVE  Inv'
<1> USE DEF Inv
<1>1. ChTypeOK'
  <2>1. CASE \E v \in Visits : InsertVisit(v) \/ InsertCancelled(v)
    BY <2>1 DEF ChTypeOK, InsertVisit, InsertCancelled, crawlVars, batchVars, flushVars, closeVars
  <2>2. CASE CrawlStep
    <3>1. UNCHANGED <<callVars, fpc, batchVars, flushVars, closeVars, crashed>>
      BY <2>2 DEF CrawlStep, InitCrawl, SealCrawl, WriteCrawl, CrawlReturns
    <3>2. /\ crawl' \in CrawlState /\ original' \in CrawlState
          /\ crawlRow' \in CrawlState /\ acked' \in CrawlState
          /\ crawlCall' \in {"none", "init", "seal"} /\ answer' \in {"none", "ok", "error"}
      BY <2>2 DEF ChTypeOK, CrawlState, CrawlStep, InitCrawl, SealCrawl, WriteCrawl, CrawlReturns
    <3> QED
      BY <3>1, <3>2 DEF ChTypeOK, CrawlState, callVars, batchVars, flushVars, closeVars
  <2>3. CASE Flush \/ FlushCancelled
    BY <2>3 DEF ChTypeOK, Flush, FlushCancelled, Taken, crawlVars, callVars, batchVars, closeVars
  <2>4. CASE Close \/ CloseTimesOut \/ CloseReturns
    BY <2>4 DEF ChTypeOK, Close, CloseTimesOut, CloseReturns, crawlVars, callVars, batchVars, flushVars
  <2> QED
    BY <2>1, <2>2, <2>3, <2>4 DEF CallerStep, CrawlStep
<1>2. UNCHANGED <<batchVars, fpc>>
  BY DEF CallerStep, InitCrawl, SealCrawl, WriteCrawl, CrawlReturns, InsertVisit, InsertCancelled, Flush, FlushCancelled,
         Close, CloseTimesOut, CloseReturns
<1>3. Taken' = Taken /\ \A v \in Taken : (v \in inCrawl)' <=> v \in inCrawl
  <2>1. CASE \E v \in Visits : InsertVisit(v) \/ InsertCancelled(v)
    BY <2>1 DEF InsertVisit, InsertCancelled, Taken, ChTypeOK
  <2>2. CASE UNCHANGED callVars
    BY <2>2 DEF Taken, callVars
  <2> QED
    BY <2>1, <2>2 DEF CallerStep, InitCrawl, SealCrawl, WriteCrawl, CrawlReturns, Flush, FlushCancelled, Close,
                      CloseTimesOut, CloseReturns
<1>4. \A v \in Taken, b \in Batches : RowsOf(v, b)' = RowsOf(v, b)
  BY <1>3 DEF RowsOf
<1>5. /\ RowsConserved' /\ BatchesBounded' /\ FiniteRows'
      /\ \A b \in Batches : Pending(b)' = Pending(b)
  BY <1>1, <1>2, <1>3, <1>4, BatchesAlone
<1>6. CrawlInv'
  <2>1. CASE CrawlStep
    BY <2>1, CrawlStepInv
  <2>2. ASSUME NEW v \in Visits, InsertVisit(v) PROVE CrawlInv'
    BY <2>2, InsertCrawlInv
  <2>3. CASE UNCHANGED <<crawlVars, inCrawl>>
    BY <2>3, CrawlAlone
  <2>4. ASSUME NEW v \in Visits, InsertCancelled(v) PROVE CrawlInv'
    <3>1. UNCHANGED crawlVars /\ inCrawl' \subseteq inCrawl
      BY <2>4 DEF InsertCancelled
    <3> QED
      BY <3>1 DEF CrawlInv, crawlVars
  <2> QED
    BY <2>1, <2>2, <2>3, <2>4 DEF CallerStep, CrawlStep, Flush, FlushCancelled, Close,
                                 CloseTimesOut, CloseReturns, callVars
<1>7. OwedInv'
  BY <1>3 DEF OwedInv, CallerStep, InitCrawl, SealCrawl, WriteCrawl, CrawlReturns, InsertVisit, InsertCancelled, Flush,
              FlushCancelled, Close, CloseTimesOut, CloseReturns, flushVars
<1>8. /\ closing' = "closed" => (closing = "closed" \/ fpc = "exited")
      /\ ~forced' => ~forced
  BY DEF CallerStep, InitCrawl, SealCrawl, WriteCrawl, CrawlReturns, InsertVisit, InsertCancelled, Flush, FlushCancelled,
         Close, CloseTimesOut, CloseReturns, closeVars, ChTypeOK
<1>9. FlusherInv'
  BY <1>2, <1>8 DEF FlusherInv, batchVars
<1>10. NothingLeftPending'
  <2>1. ASSUME flush' = "done" PROVE flush = "done" /\ owed' = owed
    BY <2>1 DEF CallerStep, InitCrawl, SealCrawl, WriteCrawl, CrawlReturns, InsertVisit, InsertCancelled, Flush,
                FlushCancelled, Close, CloseTimesOut, CloseReturns, flushVars
  <2>2. ASSUME flush' = "done", NEW v \in owed', NEW b \in Batches
        PROVE  (RowsOf(v, b) \cap Pending(b) = {})'
    BY <1>4, <1>5, <2>1, <2>2 DEF NothingLeftPending, OwedInv
  <2>3. ASSUME closing' = "closed", ~forced', \A b \in Batches : batch'[b] # "nil", NEW b \in Batches
        PROVE  Pending(b)' = {}
    <3>1. batch[b] = "sent"
      BY <1>2, <1>8, <2>3 DEF FlusherInv, batchVars
    <3> QED
      BY <1>5, <3>1 DEF Pending
  <2> QED
    BY <2>2, <2>3 DEF NothingLeftPending
<1> QED
  BY <1>1, <1>5, <1>6, <1>7, <1>9, <1>10

\* The flusher, when it sends nothing and takes nothing.
LEMMA QuietInv ==
  ASSUME Inv, NilBatch \/ FlusherCancelled \/ DiscardClosed \/ UNCHANGED chVars
  PROVE  Inv'
<1> USE DEF Inv, NilBatch, FlusherCancelled, DiscardClosed
<1>1. UNCHANGED <<crawlVars, callVars, batchVars, flushVars, closeVars>>
  BY DEF chVars
<1>2. ChTypeOK'
  <2>1. fpc' \in {"start", "loop", "select", "discard", "exited"} /\ crashed' \in BOOLEAN
    BY DEF ChTypeOK, chVars
  <2> QED
    BY <1>1, <2>1 DEF ChTypeOK, CrawlState, crawlVars, callVars, batchVars, flushVars, closeVars
<1>3. /\ RowsConserved' /\ BatchesBounded' /\ FiniteRows'
      /\ \A b \in Batches : Pending(b)' = Pending(b)
  <2>1. Taken' = Taken /\ \A v \in Taken, b \in Batches : RowsOf(v, b)' = RowsOf(v, b)
    BY <1>1 DEF Taken, RowsOf, callVars
  <2> QED
    BY <1>1, <1>2, <2>1, BatchesAlone
<1>4. FlusherInv'
  BY <1>1 DEF FlusherInv, batchVars, closeVars, chVars
<1>5. OwedInv' /\ CrawlInv'
  BY <1>1, CrawlAlone DEF OwedInv, Taken, callVars, flushVars
<1>6. NothingLeftPending'
  BY <1>1, <1>3 DEF NothingLeftPending, RowsOf, callVars, batchVars, flushVars, closeVars
<1> QED
  BY <1>2, <1>3, <1>4, <1>5, <1>6

\* Preparing batches empties those that were sent, which held nothing.
LEMMA PrepareInv ==
  ASSUME Inv, Prepare
  PROVE  Inv'
<1> USE DEF Inv
<1>1. PICK failed \in SUBSET {b \in Batches : batch[b] = "sent"} :
        /\ batch' = [b \in Batches |-> IF b \in failed THEN "nil" ELSE "ready"]
        /\ rows' = [b \in Batches |-> IF batch[b] = "sent" THEN {} ELSE rows[b]]
        /\ fpc' = CASE fpc = "start" -> "loop"
                    [] fpc = "loop" /\ failed = {} -> "select"
                    [] OTHER -> "discard"
  BY DEF Prepare
<1>2. /\ fpc \in {"start", "loop"} /\ \A b \in Batches : batch[b] \in {"ready", "sent"}
      /\ UNCHANGED <<crawlVars, callVars, stored, logged, flushVars, closeVars, crashed>>
  BY DEF Prepare, ChTypeOK
<1>3. ChTypeOK'
  <2>1. batch' \in [Batches -> {"ready", "sent", "nil"}]
    BY <1>1
  <2>2. rows' \in [Batches -> SUBSET Row]
    BY <1>1 DEF ChTypeOK
  <2>3. fpc' \in {"start", "loop", "select", "discard", "exited"}
    BY <1>1
  <2> QED
    BY <1>2, <2>1, <2>2, <2>3 DEF ChTypeOK, crawlVars, callVars, flushVars, closeVars
<1>4. ASSUME NEW b \in Batches PROVE Pending(b)' = Pending(b)
  <2>1. CASE batch[b] = "sent"
    BY <1>1, <2>1 DEF Pending
  <2>2. CASE batch[b] = "ready"
    BY <1>1, <2>2 DEF Pending
  <2> QED
    BY <1>2, <2>1, <2>2
<1>5. Taken' = Taken /\ \A v \in Visits, b \in Batches : RowsOf(v, b)' = RowsOf(v, b)
  BY <1>2 DEF Taken, RowsOf, callVars
<1>6. RowsConserved'
  BY <1>2, <1>4, <1>5 DEF RowsConserved, Taken
<1>7. BatchesBounded'
  BY <1>3, <1>4 DEF BatchesBounded
<1>8. FiniteRows'
  BY <1>1, FS_EmptySet DEF FiniteRows
<1>9. FlusherInv'
  BY <1>1, <1>2 DEF FlusherInv, closeVars
<1>10. OwedInv' /\ CrawlInv'
  BY <1>2, <1>5, CrawlAlone DEF OwedInv, flushVars, callVars
<1>11. NothingLeftPending'
  <2>1. closing # "closed"
    BY <1>2 DEF FlusherInv
  <2> QED
    BY <1>2, <1>4, <1>5, <2>1 DEF NothingLeftPending, OwedInv, Taken, flushVars, closeVars
<1> QED
  BY <1>3, <1>6, <1>7, <1>8, <1>9, <1>10, <1>11

\* The ticker, Flush and the end send everything.
LEMMA SendEverythingInv ==
  ASSUME Inv, Tick \/ HandleFlush \/ LastSend
  PROVE  Inv'
<1> USE DEF Inv
<1>1. /\ fpc = "select" /\ SendAll /\ fpc' \in {"loop", "exited"}
      /\ UNCHANGED <<crawlVars, callVars, rows, owed, closeVars, crashed>>
      /\ flush' \in {flush, "done"}
  BY DEF Tick, HandleFlush, LastSend, flushVars
<1>2. /\ batch' \in [Batches -> {"sent"}]
      /\ stored' \in [Batches -> [Row -> Nat]] /\ logged' \in [Batches -> SUBSET Row]
      /\ \A b \in Batches : Pending(b)' = {}
      /\ RowsConserved'
  BY <1>1, SendAllInv
<1>3. ChTypeOK'
  <2>1. batch' \in [Batches -> {"ready", "sent", "nil"}]
    BY <1>2
  <2> QED
    BY <1>1, <1>2, <2>1 DEF ChTypeOK, crawlVars, callVars, closeVars
<1>4. BatchesBounded'
  <2>1. Cardinality({}) < BatchSize
    BY FS_EmptySet, ClickHouseAssumption
  <2> QED
    BY <1>2, <1>3, <2>1 DEF BatchesBounded
<1>5. FiniteRows' /\ FlusherInv'
  <2>1. closing' # "closed"
    BY <1>1 DEF FlusherInv, closeVars
  <2> QED
    BY <1>1, <1>2, <2>1 DEF FiniteRows, FlusherInv
<1>6. OwedInv' /\ CrawlInv'
  BY <1>1, CrawlAlone DEF OwedInv, Taken, callVars
<1>7. NothingLeftPending'
  BY <1>2 DEF NothingLeftPending
<1> QED
  BY <1>2, <1>3, <1>4, <1>5, <1>6, <1>7

\* Handing a visit over makes its rows, and no others, those of the flusher.
LEMMA TakenRows ==
  ASSUME Inv, NEW v \in Visits, call[v] = "blocked",
         call' = [call EXCEPT ![v] = "taken"], inCrawl' = inCrawl
  PROVE  /\ v \notin Taken /\ Taken' = Taken \cup {v}
         /\ \A u \in Visits, b \in Batches : RowsOf(u, b)' = RowsOf(u, b)
         /\ \A b \in Batches, r \in Row : r \in RowsOf(v, b) =>
              /\ stored[b][r] = 0 /\ r \notin logged[b] /\ r \notin Pending(b)
              /\ ~\E u \in Taken : r \in RowsOf(u, b)
<1>1. v \notin Taken /\ Taken' = Taken \cup {v}
  BY DEF Inv, ChTypeOK, Taken
<1>2. \A u \in Visits, b \in Batches : RowsOf(u, b)' = RowsOf(u, b)
  BY DEF RowsOf
<1>3. ASSUME NEW b \in Batches, NEW r \in Row, r \in RowsOf(v, b)
      PROVE  /\ stored[b][r] = 0 /\ r \notin logged[b] /\ r \notin Pending(b)
             /\ ~\E u \in Taken : r \in RowsOf(u, b)
  <2>1. ~\E u \in Taken : r \in RowsOf(u, b)
    BY <1>1, <1>3, RowsApart DEF Taken
  <2>2. stored[b][r] \in Nat
    BY DEF Inv, ChTypeOK
  <2> QED
    BY <2>1, <2>2 DEF Inv, RowsConserved
<1> QED
  BY <1>1, <1>2, <1>3

\* A visit is appended, as far as that succeeds, and the batches that are full by
\* then are sent.
LEMMA TakeVisitInv ==
  ASSUME Inv, NEW v \in Visits, TakeVisit(v)
  PROVE  Inv'
<1> USE DEF Inv
<1>1. /\ fpc = "select" /\ fpc' = "loop" /\ call[v] = "blocked"
      /\ call' = [call EXCEPT ![v] = "taken"] /\ inCrawl' = inCrawl
      /\ UNCHANGED <<crawlVars, flushVars, closeVars, crashed>>
  BY DEF TakeVisit
<1>2. PICK missed \in SUBSET UNION {{b} \X RowsOf(v, b) : b \in Fragile} :
        /\ rows' = [b \in Batches |-> rows[b] \cup {r \in RowsOf(v, b) : <<b, r>> \notin missed}]
        /\ Send(rows', missed,
                {b \in Batches : Full(rows', b) /\ (b = "visits" \/ v \in inCrawl)})
  BY DEF TakeVisit
<1> DEFINE added(b) == {r \in RowsOf(v, b) : <<b, r>> \notin missed}
           full == {b \in Batches : Full(rows', b) /\ (b = "visits" \/ v \in inCrawl)}
<1>3. \A b \in Batches : batch[b] = "ready" /\ Pending(b) = rows[b]
  BY <1>1 DEF FlusherInv, Pending
<1>4. /\ \A b \in Batches : rows'[b] = rows[b] \cup added(b)
      /\ \A b, r : <<b, r>> \in missed => r \in RowsOf(v, b)
  BY <1>2
<1>5. rows' \in [Batches -> SUBSET Row] /\ \A b \in Batches : IsFiniteSet(rows'[b])
  <2>1. ASSUME NEW b \in Batches
        PROVE  rows[b] \cup added(b) \subseteq Row /\ IsFiniteSet(rows[b] \cup added(b))
    <3>1. added(b) \subseteq Row /\ IsFiniteSet(added(b))
      BY RowsOfType, FS_Subset
    <3> QED
      BY <3>1, FS_Union DEF ChTypeOK, FiniteRows
  <2> QED
    BY <1>2, <2>1
<1>6. /\ v \notin Taken /\ Taken' = Taken \cup {v}
      /\ \A u \in Visits, b \in Batches : RowsOf(u, b)' = RowsOf(u, b)
      /\ \A b \in Batches, r \in Row : r \in RowsOf(v, b) =>
           /\ stored[b][r] = 0 /\ r \notin logged[b] /\ r \notin Pending(b)
           /\ ~\E u \in Taken : r \in RowsOf(u, b)
  BY <1>1, TakenRows
<1>7. ASSUME NEW b \in Batches, NEW r \in Row, r \in rows'[b]
      PROVE  stored[b][r] = 0 /\ r \notin logged[b] /\ <<b, r>> \notin missed
  <2>1. CASE r \in rows[b]
    <3>1. \E u \in Taken : r \in RowsOf(u, b)
      BY <1>3, <2>1, PendingOnce
    <3> QED
      BY <1>3, <1>4, <1>6, <2>1, <3>1, PendingOnce
  <2>2. CASE r \in added(b)
    BY <1>6, <2>2
  <2> QED
    BY <1>4, <1>7, <2>1, <2>2
<1>8. /\ batch' = [b \in Batches |-> IF b \in full THEN "sent" ELSE "ready"]
      /\ stored' \in [Batches -> [Row -> Nat]] /\ logged' \in [Batches -> SUBSET Row]
      /\ \A b \in Batches : Pending(b)' = IF b \in full THEN {} ELSE rows'[b]
      /\ \A b \in Batches, r \in Row : r \in rows'[b] =>
           /\ stored'[b][r] <= 1
           /\ b \in full => stored'[b][r] > 0 \/ r \in logged'[b]
           /\ b \notin full => stored'[b][r] = 0 /\ r \notin logged'[b]
      /\ \A b \in Batches, r \in Row : r \notin rows'[b] =>
           /\ stored'[b][r] = stored[b][r]
           /\ r \in logged'[b] <=> r \in logged[b] \/ <<b, r>> \in missed
  <2> DEFINE grown == rows'
  <2>1. full \in SUBSET Batches /\ Send(grown, missed, full) /\ rows' = grown
    BY <1>2
  <2>2. ChTypeOK /\ grown \in [Batches -> SUBSET Row] /\ \A b \in Batches : batch[b] = "ready"
    BY <1>3, <1>5
  <2>3. \A b \in Batches, r \in Row :
          r \in grown[b] => stored[b][r] = 0 /\ r \notin logged[b] /\ <<b, r>> \notin missed
    BY <1>7
  <2> HIDE DEF grown, full
  <2>4. /\ batch' = [b \in Batches |-> IF b \in full THEN "sent" ELSE "ready"]
        /\ stored' \in [Batches -> [Row -> Nat]] /\ logged' \in [Batches -> SUBSET Row]
        /\ \A b \in Batches : Pending(b)' = IF b \in full THEN {} ELSE grown[b]
        /\ \A b \in Batches, r \in Row : r \in grown[b] =>
             /\ stored'[b][r] <= 1
             /\ b \in full => stored'[b][r] > 0 \/ r \in logged'[b]
             /\ b \notin full => stored'[b][r] = 0 /\ r \notin logged'[b]
        /\ \A b \in Batches, r \in Row : r \notin grown[b] =>
             /\ stored'[b][r] = stored[b][r]
             /\ r \in logged'[b] <=> r \in logged[b] \/ <<b, r>> \in missed
    BY <2>1, <2>2, <2>3, SendFate
  <2> QED
    BY <2>1, <2>4
<1>9. ChTypeOK'
  <2>1. batch' \in [Batches -> {"ready", "sent", "nil"}]
    BY <1>8
  <2>2. call' \in [Visits -> {"none", "blocked", "taken", "cancelled"}]
    BY <1>1 DEF ChTypeOK
  <2> QED
    BY <1>1, <1>5, <1>8, <2>1, <2>2 DEF ChTypeOK, CrawlState, crawlVars, flushVars, closeVars
<1>10. BatchesBounded'
  <2>1. ASSUME NEW b \in Batches PROVE Cardinality(Pending(b)') < BatchSize
    <3>1. CASE b \in full
      <4>1. Pending(b)' = {}
        BY <1>8, <3>1
      <4>2. Cardinality({}) < BatchSize
        BY FS_EmptySet, ClickHouseAssumption
      <4> QED
        BY <4>1, <4>2
    <3>2. CASE b \notin full /\ (b = "visits" \/ v \in inCrawl)
      <4>1. Cardinality(rows'[b]) \in Nat
        BY <1>5, FS_CardinalityType
      <4>2. ~(Cardinality(rows'[b]) >= BatchSize)
        BY <3>2 DEF Full
      <4>3. Cardinality(rows'[b]) < BatchSize
        BY <4>1, <4>2, ClickHouseAssumption
      <4>4. Pending(b)' = rows'[b]
        BY <1>8, <3>2
      <4> QED
        BY <4>3, <4>4
    <3>3. CASE b # "visits" /\ v \notin inCrawl
      <4>1. rows'[b] = rows[b]
        <5>1. RowsOf(v, b) = {}
          BY <3>3 DEF RowsOf
        <5> QED
          BY <1>4, <5>1
      <4>2. Pending(b)' = Pending(b)
        BY <1>3, <1>8, <3>3, <4>1
      <4> QED
        BY <4>2 DEF BatchesBounded
    <3> QED
      BY <3>1, <3>2, <3>3
  <2> QED
    BY <1>9, <2>1 DEF BatchesBounded
<1>11. RowsConserved'
  <2>1. ASSUME NEW b \in Batches, NEW r \in Row
        PROVE  /\ (\E u \in Taken' : r \in RowsOf(u, b)') <=>
                    (r \in Pending(b)' \/ stored'[b][r] > 0 \/ r \in logged'[b])
               /\ stored'[b][r] <= 1
               /\ r \in Pending(b)' => stored'[b][r] = 0 /\ r \notin logged'[b]
    <3>1. (\E u \in Taken' : r \in RowsOf(u, b)') <=>
            ((\E u \in Taken : r \in RowsOf(u, b)) \/ r \in RowsOf(v, b))
      BY <1>6 DEF Taken
    <3>2. CASE r \in rows'[b]
      <4>1. r \in rows[b] \/ r \in RowsOf(v, b)
        BY <1>4, <3>2
      <4>2. \E u \in Taken' : r \in RowsOf(u, b)'
        BY <1>3, <3>1, <4>1, PendingOnce
      <4>3. r \in Pending(b)' <=> b \notin full
        BY <1>8, <3>2
      <4>4. /\ stored'[b][r] <= 1
            /\ b \in full => stored'[b][r] > 0 \/ r \in logged'[b]
            /\ b \notin full => stored'[b][r] = 0 /\ r \notin logged'[b]
        BY <1>8, <3>2
      <4>5. r \in Pending(b)' \/ stored'[b][r] > 0 \/ r \in logged'[b]
        BY <4>3, <4>4
      <4>6. r \in Pending(b)' => stored'[b][r] = 0 /\ r \notin logged'[b]
        BY <4>3, <4>4
      <4> QED
        BY <4>2, <4>4, <4>5, <4>6
    <3>3. CASE r \notin rows'[b]
      <4> HIDE DEF full
      <4>1. r \notin rows[b] /\ r \notin Pending(b) /\ r \notin Pending(b)'
        <5>1. Pending(b) = rows[b] /\ rows[b] \subseteq rows'[b]
          BY <1>3, <1>4
        <5>2. Pending(b)' = IF b \in full THEN {} ELSE rows'[b]
          BY <1>8
        <5> QED
          BY <3>3, <5>1, <5>2
      <4>2. stored'[b][r] = stored[b][r] /\ (r \in logged'[b] <=> r \in logged[b] \/ <<b, r>> \in missed)
        BY <1>8, <3>3
      <4>3. <<b, r>> \in missed <=> r \in RowsOf(v, b)
        BY <1>4, <3>3
      <4> QED
        BY <3>1, <4>1, <4>2, <4>3 DEF RowsConserved
    <3> QED
      BY <3>2, <3>3
  <2> QED
    BY <2>1 DEF RowsConserved
<1>12. FiniteRows'
  BY <1>5 DEF FiniteRows
<1>13. closing' # "closed"
  BY <1>1 DEF FlusherInv, closeVars
<1>14. FlusherInv'
  BY <1>1, <1>13 DEF FlusherInv
<1>15. OwedInv' /\ CrawlInv'
  BY <1>1, <1>6, CrawlAlone DEF OwedInv, flushVars
<1>16. NothingLeftPending'
  <2>1. ASSUME flush' = "done", NEW u \in owed', NEW b \in Batches
        PROVE  (RowsOf(u, b) \cap Pending(b) = {})'
    <3>1. flush = "done" /\ u \in owed /\ u \in Taken /\ u \in Visits /\ u # v
      BY <1>1, <1>6, <2>1 DEF OwedInv, flushVars, Taken
    <3>2. RowsOf(u, b) \cap rows[b] = {}
      BY <1>3, <3>1 DEF NothingLeftPending
    <3>3. RowsOf(u, b) \cap RowsOf(v, b) = {}
      BY <3>1, RowsApart
    <3> HIDE DEF full
    <3>4. Pending(b)' \subseteq rows'[b]
      BY <1>8
    <3>5. rows'[b] \subseteq rows[b] \cup RowsOf(v, b)
      BY <1>4
    <3> QED
      BY <1>6, <3>1, <3>2, <3>3, <3>4, <3>5
  <2> QED
    BY <1>13, <2>1 DEF NothingLeftPending
<1> QED
  BY <1>9, <1>10, <1>11, <1>12, <1>14, <1>15, <1>16

\* A visit is thrown away, with a warning.
LEMMA DiscardVisitInv ==
  ASSUME Inv, NEW v \in Visits, DiscardVisit(v)
  PROVE  Inv'
<1> USE DEF Inv
<1>1. /\ fpc = "discard" /\ fpc' = "exited" /\ call[v] = "blocked"
      /\ call' = [call EXCEPT ![v] = "taken"] /\ inCrawl' = inCrawl
      /\ logged' = [b \in Batches |-> logged[b] \cup RowsOf(v, b)]
      /\ UNCHANGED <<crawlVars, batch, rows, stored, flushVars, closeVars, crashed>>
  BY DEF DiscardVisit
<1>2. /\ v \notin Taken /\ Taken' = Taken \cup {v}
      /\ \A u \in Visits, b \in Batches : RowsOf(u, b)' = RowsOf(u, b)
      /\ \A b \in Batches, r \in Row : r \in RowsOf(v, b) =>
           /\ stored[b][r] = 0 /\ r \notin logged[b] /\ r \notin Pending(b)
           /\ ~\E u \in Taken : r \in RowsOf(u, b)
  BY <1>1, TakenRows
<1>3. ChTypeOK'
  <2>1. call' \in [Visits -> {"none", "blocked", "taken", "cancelled"}]
    BY <1>1 DEF ChTypeOK
  <2>2. logged' \in [Batches -> SUBSET Row]
    BY <1>1, RowsOfType DEF ChTypeOK
  <2> QED
    BY <1>1, <2>1, <2>2 DEF ChTypeOK, crawlVars, flushVars, closeVars
<1>4. \A b \in Batches : Pending(b)' = Pending(b)
  BY <1>1 DEF Pending
<1>5. BatchesBounded' /\ FiniteRows'
  BY <1>1, <1>3, <1>4 DEF BatchesBounded, FiniteRows
<1>6. RowsConserved'
  <2>1. ASSUME NEW b \in Batches, NEW r \in Row
        PROVE  /\ (\E u \in Taken' : r \in RowsOf(u, b)') <=>
                    ((\E u \in Taken : r \in RowsOf(u, b)) \/ r \in RowsOf(v, b))
               /\ stored'[b][r] = stored[b][r] /\ Pending(b)' = Pending(b)
               /\ r \in logged'[b] <=> r \in logged[b] \/ r \in RowsOf(v, b)
    BY <1>1, <1>2, <1>4 DEF Taken, ChTypeOK
  <2> QED
    BY <1>2, <2>1 DEF RowsConserved
<1>7. FlusherInv' /\ closing' # "closed"
  BY <1>1 DEF FlusherInv, closeVars
<1>8. OwedInv' /\ CrawlInv'
  BY <1>1, <1>2, CrawlAlone DEF OwedInv, flushVars
<1>9. NothingLeftPending'
  BY <1>1, <1>2, <1>4, <1>7 DEF NothingLeftPending, OwedInv, Taken, flushVars
<1> QED
  BY <1>3, <1>5, <1>6, <1>7, <1>8, <1>9

LEMMA NextInv == Inv /\ [ChNext]_chVars => Inv'
<1> SUFFICES ASSUME Inv, [ChNext]_chVars PROVE Inv'
  OBVIOUS
<1>1. CASE UNCHANGED chVars
  BY <1>1, QuietInv
<1>2. CASE ~crashed /\ CallerStep
  BY <1>2, CallerInv
<1>3. CASE FlusherStep
  <2>1. CASE NilBatch \/ FlusherCancelled \/ DiscardClosed
    BY <2>1, QuietInv
  <2>2. CASE Prepare
    BY <2>2, PrepareInv
  <2>3. CASE Tick \/ HandleFlush \/ LastSend
    BY <2>3, SendEverythingInv
  <2>4. ASSUME NEW v \in Visits, TakeVisit(v) \/ DiscardVisit(v) PROVE Inv'
    BY <2>4, TakeVisitInv, DiscardVisitInv
  <2> QED
    BY <1>3, <2>1, <2>2, <2>3, <2>4 DEF FlusherStep
<1> QED
  BY <1>1, <1>2, <1>3 DEF ChNext

LEMMA Invariant == ChSpec => []Inv
BY InitInv, NextInv, PTL DEF ChSpec

-----------------------------------------------------------------------------
\* The theorems.

\* No row of a visit the flusher has taken over is stored twice or invented, and
\* none is dropped without an error in the log, whatever the database refuses,
\* confirms late or does without saying so (startFlusher, InsertVisit).
THEOREM Conservation == ChSpec => []RowsConserved
<1>1. Inv => RowsConserved
  BY DEF Inv
<1> QED
  BY <1>1, Invariant, PTL

\* A Flush that returns has covered every visit handed over before it, and a
\* Close that returns in time leaves no batch unsent unless one could not be
\* prepared (Flush, Close).
THEOREM FlushAndCloseComplete == ChSpec => []NothingLeftPending
<1>1. Inv => NothingLeftPending
  BY DEF Inv
<1> QED
  BY <1>1, Invariant, PTL

\* The flusher never waits with a batch that has reached its size, whatever
\* number of neighbours a visit brings.
THEOREM BatchSizesBounded == ChSpec => []BatchesBounded
<1>1. Inv => BatchesBounded
  BY DEF Inv
<1> QED
  BY <1>1, Invariant, PTL

\* Between its calls the client remembers the crawl that ClickHouse has confirmed
\* last, however often InitCrawl and SealCrawl fail, or only seem to, and every
\* visit of a crawl has a crawl in the table.
THEOREM CrawlIsRemembered == ChSpec => []CrawlRemembered
<1>1. Inv => CrawlRemembered
  BY ClickHouseAssumption DEF Inv, CrawlInv, CrawlRemembered
<1> QED
  BY <1>1, Invariant, PTL
=============================================================================
