------------------------------ MODULE Resolver ------------------------------
(***************************************************************************)
(* nebula resolve: the loop over the unresolved rows of multi_addresses,   *)
(* one transaction per row, while a crawl inserts new rows.  What DNS and  *)
(* the MaxMind and Udger databases answer is up to them: any part of the   *)
(* IP addresses of a row.  A statement may fail, the process may be        *)
(* cancelled or killed, and the command run again.                         *)
(***************************************************************************)
EXTENDS Integers, FiniteSets

CONSTANTS
  NumRows,       \* rows are numbered in the order of their created_at
  IPsOf,         \* the IP addresses behind a row
  Unparsable,    \* rows whose address this version cannot parse
  BatchSize,
  MaxFailures    \* bound of the model: failing statements and ended processes

Row == 1..NumRows
IPs == UNION {IPsOf[r] : r \in Row}

ASSUME ResolverConstants ==
  /\ NumRows \in Nat /\ BatchSize \in Nat \ {0} /\ MaxFailures \in Nat
  /\ DOMAIN IPsOf = Row /\ Unparsable \subseteq Row

NoTxn == [pc |-> "none"]
Unresolved == [resolved |-> FALSE, many |-> FALSE, addr |-> {}]

VARIABLES
  maddrs,    \* multi_addresses: the rows inserted so far, 1 to some number
  ips,       \* ip_addresses: the addresses stored for each row
  cmd,       \* the command
  batch,     \* rows of the batch that are still to do
  txn,       \* the transaction of the row being resolved
  ctxDone,
  failures,
  answer     \* history: what the look-up of a resolved row has answered

dbVars == <<maddrs, ips, answer>>
vars == <<dbVars, cmd, batch, txn, ctxDone, failures>>

Init ==
  /\ maddrs \in {[r \in 1..n |-> Unresolved] : n \in 0..NumRows}
  /\ ips = [r \in Row |-> {}]
  /\ cmd = "fetch" /\ batch = {} /\ txn = NoTxn
  /\ ctxDone = FALSE /\ failures = 0
  /\ answer = [r \in Row |-> {}]

Present == DOMAIN maddrs
Pending == {r \in Present : ~maddrs[r].resolved}

\* A statement fails, for any reason or because the context is done.
Fails ==
  \/ ctxDone /\ UNCHANGED failures
  \/ failures < MaxFailures /\ failures' = failures + 1
Works == ~ctxDone /\ UNCHANGED failures

\* FetchUnresolvedMultiAddresses: the oldest rows first.
Oldest(S) == {r \in S : Cardinality({q \in S : q < r}) < BatchSize}
Fetch ==
  /\ cmd = "fetch" /\ batch = {}
  /\ Works
  /\ batch' = Oldest(Pending)
  /\ cmd' = IF batch' = {} THEN "stopped" ELSE "resolve"
  /\ UNCHANGED <<dbVars, txn, ctxDone>>

\* The command returns, with an error or, cancelled, without.
FetchFails ==
  /\ cmd = "fetch"
  /\ Fails
  /\ cmd' = "stopped"
  /\ UNCHANGED <<dbVars, batch, txn, ctxDone>>

Current == CHOOSE r \in batch : \A q \in batch : r <= q

\* The row is done, and with the last one the batch.
RowDone ==
  /\ batch' = batch \ {Current}
  /\ cmd' = IF batch' = {} THEN "fetch" ELSE "resolve"
  /\ txn' = NoTxn

\* An error of a row is logged, the transaction rolled back.
RowFails_AbandonBatchBug ==
  /\ batch' = {}
  /\ cmd' = "fetch"
  /\ txn' = NoTxn
  /\ UNCHANGED <<dbVars, ctxDone>>
RowFails ==
  /\ RowDone
  /\ UNCHANGED <<dbVars, ctxDone>>

BeginFails ==
  /\ cmd = "resolve" /\ txn = NoTxn
  /\ Fails
  /\ RowFails

\* The row is deleted in the transaction, but the condition after it tests the
\* parser's error again: the function returns it and the row is back.
ParseFails ==
  /\ cmd = "resolve" /\ txn = NoTxn /\ Current \in Unparsable
  /\ Works
  /\ RowFails

\* The look-up.  It may find nothing, or a part of the addresses; the row counts
\* as resolved in any case.
Begin ==
  /\ cmd = "resolve" /\ txn = NoTxn /\ Current \notin Unparsable
  /\ Works
  /\ \E found \in SUBSET IPsOf[Current] :
       txn' = [pc |-> "add", found |-> found, left |-> IF Cardinality(found) > 1 THEN found ELSE {},
               ips |-> ips[Current]]
  /\ UNCHANGED <<dbVars, cmd, batch, ctxDone>>

\* One IP address: a second row of the same address fails.
AddIPAddresses_NoTxnBug(ip) ==
  /\ txn.pc = "add" /\ ip \in txn.left /\ ip \notin txn.ips
  /\ Works
  /\ txn' = [txn EXCEPT !.left = @ \ {ip}, !.ips = @ \union {ip}]
  /\ ips' = [ips EXCEPT ![Current] = @ \union {ip}]
  /\ UNCHANGED <<maddrs, answer, cmd, batch, ctxDone>>
AddIPAddresses(ip) ==
  /\ txn.pc = "add" /\ ip \in txn.left /\ ip \notin txn.ips
  /\ Works
  /\ txn' = [txn EXCEPT !.left = @ \ {ip}, !.ips = @ \union {ip}]
  /\ UNCHANGED <<dbVars, cmd, batch, ctxDone>>

AddFails ==
  /\ txn.pc = "add" /\ txn.left # {}
  /\ Fails \/ (txn.left \intersect txn.ips # {} /\ UNCHANGED failures)
  /\ RowFails

\* The row as the transaction leaves it: all columns are set.
ResolvedRow(found) ==
  [resolved |-> TRUE, many |-> Cardinality(found) > 1,
   addr |-> IF Cardinality(found) = 1 THEN found ELSE {}]
Committed ==
  /\ maddrs' = [maddrs EXCEPT ![Current] = ResolvedRow(txn.found)]
  /\ ips' = [ips EXCEPT ![Current] = txn.ips]
  /\ answer' = [answer EXCEPT ![Current] = txn.found]

Update ==
  /\ txn.pc = "add" /\ txn.left = {}
  /\ Works
  /\ txn' = [txn EXCEPT !.pc = "commit"]
  /\ UNCHANGED <<dbVars, cmd, batch, ctxDone>>

UpdateFails ==
  /\ txn.pc = "add" /\ txn.left = {}
  /\ Fails
  /\ RowFails

Commit ==
  /\ txn.pc = "commit"
  /\ Works
  /\ Committed
  /\ RowDone
  /\ UNCHANGED ctxDone

\* The error may come after the commit has happened.
CommitFails ==
  /\ txn.pc = "commit"
  /\ Fails
  /\ Committed \/ UNCHANGED dbVars
  /\ RowDone
  /\ UNCHANGED ctxDone

\* A crawl inserts a new address.
Arrive ==
  /\ Cardinality(Present) < NumRows
  /\ maddrs' = [r \in 1..(Cardinality(Present) + 1) |->
                 IF r \in Present THEN maddrs[r] ELSE Unresolved]
  /\ UNCHANGED <<ips, answer, cmd, batch, txn, ctxDone, failures>>

Cancel ==
  /\ ~ctxDone /\ failures < MaxFailures
  /\ ctxDone' = TRUE /\ failures' = failures + 1
  /\ UNCHANGED <<dbVars, cmd, batch, txn>>

\* The process is killed.
Kill ==
  /\ cmd # "stopped" /\ failures < MaxFailures
  /\ failures' = failures + 1
  /\ cmd' = "stopped" /\ batch' = {} /\ txn' = NoTxn
  /\ UNCHANGED <<dbVars, ctxDone>>

\* The command is run again.
Restart ==
  /\ cmd = "stopped"
  /\ cmd' = "fetch" /\ ctxDone' = FALSE /\ batch' = {}
  /\ UNCHANGED <<dbVars, txn, failures>>

CommandStep ==
  \/ Fetch \/ FetchFails \/ BeginFails \/ ParseFails \/ Begin
  \/ \E ip \in IPs : AddIPAddresses(ip)
  \/ AddFails \/ Update \/ UpdateFails \/ Commit \/ CommitFails

Next == CommandStep \/ Arrive \/ Cancel \/ Kill \/ Restart

\* The process goes on while it can; nobody has to run the command again.
Spec == Init /\ [][Next]_vars /\ WF_vars(CommandStep)

(***************************************************************************)
(* Properties.                                                             *)
(***************************************************************************)

TypeOK ==
  /\ Present \subseteq Row
  /\ \A r \in Present : maddrs[r] \in [resolved : BOOLEAN, many : BOOLEAN, addr : SUBSET IPs]
  /\ ips \in [Row -> SUBSET IPs] /\ answer \in [Row -> SUBSET IPs]
  /\ cmd \in {"fetch", "resolve", "stopped"} /\ batch \subseteq Present
  /\ ctxDone \in BOOLEAN /\ failures \in 0..MaxFailures

\* A row and its IP addresses are those of one look-up, all of them, or the row
\* is untouched and will be fetched again, wherever a transaction was cut short.
AnswersAreWhole ==
  /\ TypeOK
  /\ \A r \in Row :
       /\ ips[r] = IF Cardinality(answer[r]) > 1 THEN answer[r] ELSE {}
       /\ r \in Present /\ maddrs[r].resolved => maddrs[r] = ResolvedRow(answer[r])
       /\ r \notin Present \/ ~maddrs[r].resolved => answer[r] = {}
  /\ batch \subseteq Pending

\* As long as rows that cannot be parsed do not fill a batch, they hold up no
\* other row: each is resolved, or the command has ended.  It ends if there is
\* no such row (with one, the loop goes round for ever).
RowsGetResolved ==
  /\ \A r \in Row \ Unparsable :
       (r \in Present /\ Cardinality(Unparsable) < BatchSize)
         ~> ((r \in Present /\ maddrs[r].resolved) \/ cmd = "stopped")
  /\ [](Present \intersect Unparsable = {}) => <>(cmd = "stopped")
=============================================================================
