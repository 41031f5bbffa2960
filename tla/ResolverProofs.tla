--------------------------- MODULE ResolverProofs ---------------------------
(***************************************************************************)
(* Proof that nebula resolve stores the answer of one look-up of a row as  *)
(* a whole, for any number of rows, any batch size and any failures.       *)
(***************************************************************************)
EXTENDS Resolver, FiniteSetTheorems, WellFoundedInduction, TLAPS

\* The rows to be stored for a look-up: none if it has found one IP address.
Several(found) == IF Cardinality(found) > 1 THEN found ELSE {}

\* What the transaction of a row has done so far, and that there is none
\* without a row.
TxnInv ==
  /\ cmd = "resolve" => batch # {}
  /\ txn = NoTxn \/ (cmd = "resolve" /\ txn.pc \in {"add", "commit"}
                     /\ txn = [pc |-> txn.pc, found |-> txn.found, left |-> txn.left,
                               ips |-> txn.ips])
  /\ txn # NoTxn =>
       /\ txn.found \subseteq IPsOf[Current]
       /\ txn.left \subseteq Several(txn.found)
       /\ txn.ips = Several(txn.found) \ txn.left
       /\ txn.pc = "commit" => txn.left = {}

\* Rows are numbered without gaps.
RowsInv == \E n \in 0..NumRows : Present = 1..n

Inv == AnswersAreWhole /\ TxnInv /\ RowsInv

\* A batch that is not empty has a first row: of the intervals from 1 to a row
\* of it one is minimal.
LEMMA CurrentInBatch ==
  ASSUME batch \subseteq Row, batch # {}
  PROVE  Current \in batch
<1> DEFINE T == {1..r : r \in batch}
<1>1. NumRows \in Nat /\ Row = 1..NumRows
  BY ResolverConstants DEF Row
<1>2. IsWellFoundedOn(StrictSubsetOrdering(Row), SUBSET Row)
  <2>1. IsFiniteSet(Row)
    BY <1>1, FS_Interval
  <2> QED
    BY <2>1, FS_FiniteSubsetsOfFinite, FS_StrictSubsetOrderingWellFounded
<1>3. T \subseteq SUBSET Row /\ T # {}
  <2>1. ASSUME NEW r \in batch PROVE 1..r \subseteq Row
    BY <1>1
  <2>2. T \subseteq SUBSET Row
    BY <2>1, Zenon
  <2>3. PICK r \in batch : TRUE
    OBVIOUS
  <2>4. 1..r \in T
    BY Zenon
  <2> QED
    BY <2>2, <2>4
<1>4. PICK x \in T : \A y \in T : <<y, x>> \notin StrictSubsetOrdering(Row)
  BY <1>2, <1>3, WFMin
<1>5. PICK r \in batch : x = 1..r
  BY <1>4
<1>6. ASSUME NEW q \in batch PROVE r <= q
  <2>1. q \in Nat /\ r \in Nat /\ 1 <= r
    BY <1>1
  <2>2. q < r => 1..q \subseteq 1..r /\ 1..q # 1..r
    BY <2>1
  <2>3. 1..q \in T
    BY Zenon
  <2>4. ~ (1..q \subseteq x /\ 1..q # x)
    <3>1. 1..q \in SUBSET Row /\ x \in SUBSET Row
      BY <1>3, <1>4, <2>3
    <3> QED
      BY <1>4, <2>3, <3>1 DEF StrictSubsetOrdering
  <2> QED
    BY <1>5, <2>1, <2>2, <2>4
<1> QED
  BY <1>6 DEF Current


\* A look-up that has found nothing stores no rows.
LEMMA NothingFound == Several({}) = {} /\ ~(Cardinality({}) > 1)
BY FS_EmptySet DEF Several

LEMMA InitInv == Init => Inv
<1> SUFFICES ASSUME Init PROVE Inv
  OBVIOUS
<1>1. PICK n \in 0..NumRows : maddrs = [r \in 1..n |-> Unresolved]
  BY DEF Init
<1>2. Present \subseteq Row /\ \A r \in Present : maddrs[r] = Unresolved
  BY <1>1, ResolverConstants DEF Present, Row
<1>3. Unresolved \in [resolved : BOOLEAN, many : BOOLEAN, addr : SUBSET IPs]
  BY DEF Unresolved
<1>4. \A r \in Present : maddrs[r] \in [resolved : BOOLEAN, many : BOOLEAN, addr : SUBSET IPs]
  BY <1>2, <1>3
<1>5. ips \in [Row -> SUBSET IPs] /\ answer \in [Row -> SUBSET IPs]
  BY DEF Init
<1>6. cmd = "fetch" /\ batch = {} /\ ctxDone = FALSE /\ failures = 0 /\ txn = NoTxn
  BY DEF Init
<1>7. TypeOK
  <2>1. ctxDone \in BOOLEAN
    BY <1>6, Zenon
  <2>2. failures \in 0..MaxFailures
    BY <1>6, ResolverConstants
  <2> QED
    BY <1>2, <1>4, <1>5, <1>6, <2>1, <2>2 DEF TypeOK
<1>8. AnswersAreWhole
  <2>1. \A r \in Row : ips[r] = {} /\ answer[r] = {}
    BY DEF Init
  <2>2. \A r \in Present : ~maddrs[r].resolved
    BY <1>2 DEF Unresolved
  <2> QED
    BY <1>6, <1>7, <2>1, <2>2, NothingFound DEF AnswersAreWhole
<1>9. TxnInv
  BY <1>6 DEF TxnInv
<1>10. RowsInv
  BY <1>1 DEF RowsInv, Present
<1> QED
  BY <1>8, <1>9, <1>10 DEF Inv

\* What RowDone leaves: a smaller batch and no transaction.
LEMMA RowDoneInv ==
  ASSUME Inv, cmd = "resolve", RowDone
  PROVE  TxnInv' /\ batch' \subseteq batch /\ Current \notin batch' /\ cmd' \in {"fetch", "resolve"}
BY DEF Inv, AnswersAreWhole, TypeOK, TxnInv, RowDone, NoTxn

\* A row that fails changes nothing in the database.
LEMMA RowFailsInv ==
  ASSUME Inv, cmd = "resolve", RowFails, failures' \in 0..MaxFailures
  PROVE  Inv'
<1>1. TxnInv' /\ batch' \subseteq batch /\ cmd' \in {"fetch", "resolve"}
  BY RowDoneInv DEF RowFails
<1>2. UNCHANGED <<maddrs, ips, answer, ctxDone>>
  BY DEF RowFails, dbVars
<1> QED
  BY <1>1, <1>2 DEF Inv, AnswersAreWhole, TypeOK, Present, Pending, RowsInv

\* A statement counts its failure within the bound.
LEMMA FailsType ==
  ASSUME TypeOK, Fails \/ Works \/ UNCHANGED failures
  PROVE  failures' \in 0..MaxFailures
BY ResolverConstants DEF TypeOK, Fails, Works


\* The step is one that leaves the rows alone and ends the command, or gets a
\* new batch of unresolved rows.
LEMMA CommandInv ==
  ASSUME Inv, UNCHANGED dbVars, txn' = NoTxn, batch' \subseteq Pending,
         cmd' = "resolve" => batch' # {}, cmd' \in {"fetch", "resolve", "stopped"},
         ctxDone' \in BOOLEAN, failures' \in 0..MaxFailures
  PROVE  Inv'
<1>1. UNCHANGED <<maddrs, ips, answer>>
  BY DEF dbVars
<1>2. Present' = Present /\ Pending' = Pending
  BY <1>1 DEF Present, Pending
<1>3. TypeOK'
  BY <1>1, <1>2 DEF Inv, AnswersAreWhole, TypeOK, Pending
<1>4. AnswersAreWhole'
  BY <1>1, <1>2, <1>3 DEF Inv, AnswersAreWhole
<1> QED
  BY <1>2, <1>4 DEF Inv, TxnInv, RowsInv

\* The transaction of the current row goes on.
LEMMA TxnStepInv ==
  ASSUME Inv, cmd = "resolve", UNCHANGED <<dbVars, cmd, batch, ctxDone>>,
         failures' \in 0..MaxFailures,
         txn'.pc \in {"add", "commit"},
         txn' = [pc |-> txn'.pc, found |-> txn'.found, left |-> txn'.left, ips |-> txn'.ips],
         txn'.found \subseteq IPsOf[Current],
         txn'.left \subseteq Several(txn'.found),
         txn'.ips = Several(txn'.found) \ txn'.left,
         txn'.pc = "commit" => txn'.left = {}
  PROVE  Inv'
<1>1. UNCHANGED <<maddrs, ips, answer, cmd, batch, ctxDone>>
  BY DEF dbVars
<1>2. Present' = Present /\ Pending' = Pending /\ Current' = Current
  BY <1>1 DEF Present, Pending, Current
<1>3. TypeOK'
  BY <1>1, <1>2 DEF Inv, AnswersAreWhole, TypeOK
<1>4. AnswersAreWhole'
  BY <1>1, <1>2, <1>3 DEF Inv, AnswersAreWhole
<1>5. TxnInv'
  BY <1>1, <1>2 DEF Inv, TxnInv
<1> QED
  BY <1>2, <1>4, <1>5 DEF Inv, RowsInv

\* A commit that takes place stores one look-up of the current row.
LEMMA CommitInv ==
  ASSUME Inv, txn.pc = "commit", Committed, RowDone, UNCHANGED ctxDone,
         failures' \in 0..MaxFailures
  PROVE  Inv'
<1> DEFINE c == Current
<1>1. /\ cmd = "resolve" /\ batch # {} /\ batch \subseteq Pending
      /\ txn.found \subseteq IPsOf[c] /\ txn.ips = Several(txn.found)
  <2>1. txn # NoTxn
    BY DEF NoTxn
  <2>2. txn.ips = Several(txn.found) \ {}
    BY <2>1 DEF Inv, TxnInv
  <2> QED
    BY <2>1, <2>2 DEF Inv, TxnInv, AnswersAreWhole
<1>2. c \in batch /\ c \in Present /\ c \in Row
  BY <1>1, CurrentInBatch DEF Inv, AnswersAreWhole, TypeOK, Pending
<1>3. TxnInv' /\ batch' \subseteq batch /\ c \notin batch' /\ cmd' \in {"fetch", "resolve"}
  BY <1>1, RowDoneInv
<1>4. /\ maddrs' = [maddrs EXCEPT ![c] = ResolvedRow(txn.found)]
      /\ ips' = [ips EXCEPT ![c] = Several(txn.found)]
      /\ answer' = [answer EXCEPT ![c] = txn.found]
  BY <1>1 DEF Committed
<1>5. txn.found \subseteq IPs /\ Several(txn.found) \subseteq IPs
  BY <1>1, <1>2 DEF IPs, Several
<1>6. Present' = Present
  BY <1>4 DEF Present
<1>7. ResolvedRow(txn.found) \in [resolved : BOOLEAN, many : BOOLEAN, addr : SUBSET IPs]
  BY <1>5 DEF ResolvedRow
<1>8. maddrs'[c] = ResolvedRow(txn.found) /\ \A r \in Present \ {c} : maddrs'[r] = maddrs[r]
  BY <1>2, <1>4 DEF Present
<1>9. TypeOK'
  <2>1. \A r \in Present' : maddrs'[r] \in [resolved : BOOLEAN, many : BOOLEAN, addr : SUBSET IPs]
    BY <1>6, <1>7, <1>8 DEF Inv, AnswersAreWhole, TypeOK
  <2>2. ips' \in [Row -> SUBSET IPs] /\ answer' \in [Row -> SUBSET IPs]
    BY <1>4, <1>5 DEF Inv, AnswersAreWhole, TypeOK
  <2> QED
    BY <1>3, <1>6, <2>1, <2>2 DEF Inv, AnswersAreWhole, TypeOK
<1>10. maddrs'[c].resolved /\ batch' \subseteq Pending'
  BY <1>1, <1>3, <1>6, <1>8 DEF Pending, ResolvedRow
<1>11. AnswersAreWhole'
  <2>1. ASSUME NEW r \in Row
        PROVE  /\ ips'[r] = Several(answer'[r])
               /\ r \in Present' /\ maddrs'[r].resolved => maddrs'[r] = ResolvedRow(answer'[r])
               /\ r \notin Present' \/ ~maddrs'[r].resolved => answer'[r] = {}
    <3>1. CASE r = c
      <4>1. ips'[c] = Several(txn.found) /\ answer'[c] = txn.found
        BY <1>2, <1>4 DEF Inv, AnswersAreWhole, TypeOK
      <4> QED
        BY <1>2, <1>6, <1>8, <1>10, <3>1, <4>1
    <3>2. CASE r # c
      BY <1>2, <1>4, <1>6, <1>8, <3>2 DEF Inv, AnswersAreWhole, TypeOK, Several
    <3> QED
      BY <3>1, <3>2
  <2> QED
    BY <1>9, <1>10, <2>1 DEF AnswersAreWhole, Several
<1> QED
  BY <1>3, <1>6, <1>11 DEF Inv, RowsInv

\* A new row is not resolved, and it is the next number.
LEMMA ArriveInv ==
  ASSUME Inv, Arrive
  PROVE  Inv'
<1>1. PICK n \in 0..NumRows : Present = 1..n
  BY DEF Inv, RowsInv
<1>2. NumRows \in Nat /\ Row = 1..NumRows
  BY ResolverConstants DEF Row
<1>3. Cardinality(Present) = n /\ n < NumRows
  BY <1>1, <1>2, FS_Interval DEF Arrive
<1>4. maddrs' = [r \in 1..(n + 1) |-> IF r \in Present THEN maddrs[r] ELSE Unresolved]
  BY <1>3 DEF Arrive
<1>5. Present' = 1..(n + 1) /\ Present \subseteq Present' /\ Present' \subseteq Row
  BY <1>1, <1>2, <1>3, <1>4 DEF Present
<1>6. /\ \A r \in Present : maddrs'[r] = maddrs[r]
      /\ \A r \in Present' \ Present : maddrs'[r] = Unresolved
  BY <1>4, <1>5
<1>7. UNCHANGED <<ips, answer, cmd, batch, txn, ctxDone, failures>>
  BY DEF Arrive
<1>8. Unresolved \in [resolved : BOOLEAN, many : BOOLEAN, addr : SUBSET IPs] /\ ~Unresolved.resolved
  BY DEF Unresolved
<1>9. batch' \subseteq Pending'
  BY <1>5, <1>6, <1>7 DEF Inv, AnswersAreWhole, Pending
<1>10. TypeOK'
  <2>1. \A r \in Present' : maddrs'[r] \in [resolved : BOOLEAN, many : BOOLEAN, addr : SUBSET IPs]
    BY <1>6, <1>8 DEF Inv, AnswersAreWhole, TypeOK
  <2> QED
    BY <1>5, <1>7, <2>1 DEF Inv, AnswersAreWhole, TypeOK
<1>11. AnswersAreWhole'
  BY <1>5, <1>6, <1>7, <1>8, <1>9, <1>10 DEF Inv, AnswersAreWhole
<1>12. TxnInv'
  <2>1. Current' = Current
    BY <1>7 DEF Current
  <2> QED
    BY <1>7, <2>1 DEF Inv, TxnInv
<1>13. RowsInv'
  BY <1>2, <1>3, <1>5 DEF RowsInv
<1> QED
  BY <1>11, <1>12, <1>13 DEF Inv


LEMMA NextInv == Inv /\ [Next]_vars => Inv'
<1> SUFFICES ASSUME Inv, [Next]_vars PROVE Inv'
  OBVIOUS
<1>0. TypeOK /\ TxnInv /\ AnswersAreWhole
  BY DEF Inv, AnswersAreWhole
<1>1. ASSUME Fetch PROVE Inv'
  <2>1. batch' \subseteq Pending
    BY <1>1 DEF Fetch, Oldest
  <2>2. UNCHANGED <<dbVars, txn, ctxDone>> /\ txn = NoTxn
    BY <1>0, <1>1 DEF Fetch, TxnInv
  <2>3. cmd' \in {"resolve", "stopped"} /\ (cmd' = "resolve" => batch' # {})
    BY <1>1 DEF Fetch
  <2>4. failures' \in 0..MaxFailures
    BY <1>0, <1>1, FailsType DEF Fetch
  <2>5. ctxDone' \in BOOLEAN
    BY <1>0, <2>2 DEF TypeOK
  <2> QED
    BY <2>1, <2>2, <2>3, <2>4, <2>5, CommandInv
<1>2. ASSUME FetchFails PROVE Inv'
  <2>1. UNCHANGED <<dbVars, batch, txn, ctxDone>> /\ txn = NoTxn /\ cmd' = "stopped"
    BY <1>0, <1>2 DEF FetchFails, TxnInv
  <2>2. failures' \in 0..MaxFailures /\ batch' \subseteq Pending
    BY <1>0, <1>2, <2>1, FailsType DEF FetchFails, AnswersAreWhole
  <2>3. ctxDone' \in BOOLEAN
    BY <1>0, <2>1 DEF TypeOK
  <2> QED
    BY <2>1, <2>2, <2>3, CommandInv
<1>3. ASSUME BeginFails \/ ParseFails PROVE Inv'
  BY <1>0, <1>3, FailsType, RowFailsInv DEF BeginFails, ParseFails
<1>4. ASSUME Begin PROVE Inv'
  <2>1. PICK found \in SUBSET IPsOf[Current] :
          txn' = [pc |-> "add", found |-> found, left |-> IF Cardinality(found) > 1 THEN found ELSE {},
                  ips |-> ips[Current]]
    BY <1>4 DEF Begin
  <2>2. Current \in Pending /\ Current \in Row
    BY <1>0, <1>4, CurrentInBatch DEF Begin, TxnInv, AnswersAreWhole, TypeOK, Pending
  <2>3. ips[Current] = {}
    BY <1>0, <2>2, NothingFound DEF AnswersAreWhole, Pending
  <2>4. txn' = [pc |-> "add", found |-> found, left |-> Several(found), ips |-> {}]
    BY <2>1, <2>3 DEF Several
  <2>5. Several(found) \ Several(found) = {}
    OBVIOUS
  <2>6. failures' \in 0..MaxFailures
    BY <1>0, <1>4, FailsType DEF Begin
  <2> QED
    BY <1>4, <2>4, <2>5, <2>6, TxnStepInv DEF Begin
<1>5. ASSUME NEW ip \in IPs, AddIPAddresses(ip) PROVE Inv'
  <2>1. /\ cmd = "resolve" /\ txn.pc = "add"
        /\ txn = [pc |-> txn.pc, found |-> txn.found, left |-> txn.left, ips |-> txn.ips]
        /\ txn.found \subseteq IPsOf[Current] /\ txn.left \subseteq Several(txn.found)
        /\ txn.ips = Several(txn.found) \ txn.left
    BY <1>0, <1>5 DEF AddIPAddresses, TxnInv, NoTxn
  <2>2. txn' = [pc |-> "add", found |-> txn.found, left |-> txn.left \ {ip}, ips |-> txn.ips \union {ip}]
    BY <1>5, <2>1 DEF AddIPAddresses
  <2>3. txn.ips \union {ip} = Several(txn.found) \ (txn.left \ {ip})
    BY <1>5, <2>1 DEF AddIPAddresses
  <2>4. failures' \in 0..MaxFailures
    BY <1>0, <1>5, FailsType DEF AddIPAddresses
  <2> QED
    BY <1>5, <2>1, <2>2, <2>3, <2>4, TxnStepInv DEF AddIPAddresses
<1>6. ASSUME AddFails \/ UpdateFails PROVE Inv'
  <2>1. cmd = "resolve"
    BY <1>0, <1>6 DEF AddFails, UpdateFails, TxnInv, NoTxn
  <2> QED
    BY <1>0, <1>6, <2>1, FailsType, RowFailsInv DEF AddFails, UpdateFails
<1>7. ASSUME Update PROVE Inv'
  <2>1. /\ cmd = "resolve" /\ txn.pc = "add" /\ txn.left = {}
        /\ txn = [pc |-> txn.pc, found |-> txn.found, left |-> txn.left, ips |-> txn.ips]
        /\ txn.found \subseteq IPsOf[Current]
        /\ txn.ips = Several(txn.found) \ txn.left
    BY <1>0, <1>7 DEF Update, TxnInv, NoTxn
  <2>2. txn' = [pc |-> "commit", found |-> txn.found, left |-> txn.left, ips |-> txn.ips]
    BY <1>7, <2>1 DEF Update
  <2>3. failures' \in 0..MaxFailures
    BY <1>0, <1>7, FailsType DEF Update
  <2> QED
    BY <1>7, <2>1, <2>2, <2>3, TxnStepInv DEF Update
<1>8. ASSUME Commit PROVE Inv'
  BY <1>0, <1>8, FailsType, CommitInv DEF Commit
<1>9. ASSUME CommitFails PROVE Inv'
  <2>1. failures' \in 0..MaxFailures /\ cmd = "resolve"
    BY <1>0, <1>9, FailsType DEF CommitFails, TxnInv, NoTxn
  <2>2. CASE Committed
    BY <1>9, <2>1, <2>2, CommitInv DEF CommitFails
  <2>3. CASE UNCHANGED dbVars
    BY <1>9, <2>1, <2>3, RowFailsInv DEF CommitFails, RowFails
  <2> QED
    BY <1>9, <2>2, <2>3 DEF CommitFails
<1>10. ASSUME Arrive PROVE Inv'
  BY <1>10, ArriveInv
<1>11. ASSUME Cancel PROVE Inv'
  <2>1. UNCHANGED <<maddrs, ips, answer, cmd, batch, txn>> /\ failures' \in 0..MaxFailures
    BY <1>0, <1>11, ResolverConstants DEF Cancel, dbVars, TypeOK
  <2>2. ctxDone' \in BOOLEAN
    BY <1>11, Zenon DEF Cancel
  <2>3. Present' = Present /\ Pending' = Pending /\ Current' = Current
    BY <2>1 DEF Present, Pending, Current
  <2> QED
    BY <2>1, <2>2, <2>3 DEF Inv, AnswersAreWhole, TypeOK, TxnInv, RowsInv
<1>12. ASSUME Kill PROVE Inv'
  <2>1. failures' \in 0..MaxFailures
    BY <1>0, <1>12, ResolverConstants DEF Kill, TypeOK
  <2>2. ctxDone' \in BOOLEAN
    BY <1>0, <1>12 DEF Kill, TypeOK
  <2> QED
    BY <1>12, <2>1, <2>2, CommandInv DEF Kill
<1>13. ASSUME Restart PROVE Inv'
  <2>1. txn = NoTxn /\ UNCHANGED <<dbVars, txn, failures>> /\ batch' = {} /\ cmd' = "fetch"
    BY <1>0, <1>13 DEF Restart, TxnInv
  <2>2. ctxDone' \in BOOLEAN
    BY <1>13, Zenon DEF Restart
  <2>3. failures' \in 0..MaxFailures
    BY <1>0, <2>1 DEF TypeOK
  <2> QED
    BY <2>1, <2>2, <2>3, CommandInv
<1>14. ASSUME UNCHANGED vars PROVE Inv'
  <2>1. UNCHANGED <<maddrs, ips, answer, cmd, batch, txn, ctxDone, failures>>
    BY <1>14 DEF vars, dbVars
  <2>2. Present' = Present /\ Pending' = Pending /\ Current' = Current
    BY <2>1 DEF Present, Pending, Current
  <2> QED
    BY <2>1, <2>2 DEF Inv, AnswersAreWhole, TypeOK, TxnInv, RowsInv
<1> QED
  BY <1>1, <1>2, <1>3, <1>4, <1>5, <1>6, <1>7, <1>8, <1>9, <1>10, <1>11, <1>12, <1>13, <1>14 DEF Next, CommandStep

\* A row of multi_addresses and its IP addresses are those of one look-up or
\* none, whatever fails and whenever the command is interrupted or run again.
THEOREM AnswersCorrect == Spec => []AnswersAreWhole
<1>1. Inv => AnswersAreWhole
  BY DEF Inv
<1> QED
  BY <1>1, InitInv, NextInv, PTL DEF Spec
=============================================================================
