---------------------------- MODULE VisitProofs ----------------------------
(***************************************************************************)
(* Proofs about the visit of a peer, for any number of IP addresses, any   *)
(* answers and any interleaving of the goroutines and of the racing reads  *)
(* and writes of err.                                                      *)
(***************************************************************************)
EXTENDS Visit, TLAPS

-----------------------------------------------------------------------------
\* The inductive invariant, one part for each goroutine.

\* crawlP2P: connect holds a directory and then a network until it returns;
\* with an error it has released both, and otherwise Cleanup does.  Who fails to
\* ask for neighbours has got none, and who does not fail had a connection.
NetworkInv ==
  /\ ppc \in {"start", "dir"} => ~netUp
  /\ ppc = "start" => ~dirUp
  /\ ppc \in {"start", "dir", "created", "wait", "query"} => ~p2p.connErr
  /\ (ppc = "exited" \/ p2p.connErr) => ~netUp /\ ~dirUp
  /\ p2p.crawlErr => ~p2p.neighbors
  /\ (ppc \in {"send", "cleanup", "exited"} /\ ~p2p.connErr /\ ~p2p.crawlErr) => connected

\* Work and crawlP2P: without a cancellation the result is received, and as it
\* was sent.
HandoverInv ==
  ~cancelled =>
    /\ wpc = "p2p" => ppc \notin {"cleanup", "exited"}
    /\ wpc # "p2p" => got = p2p

\* Without a result of crawlP2P Work goes on only after the end of crawlP2P, and
\* with the zero value.
ReceivedInv ==
  wpc # "p2p" => ppc \in {"cleanup", "exited"} /\ got \in {p2p, ZeroP2P}

\* The IP addresses that have answered both requests.
BothAnswered(i) == \A e \in Endpoints : <<i, e>> \in answered

\* Requests are underway for one of the IPs.
AskingInv == apc = "wait" => ip \in 1..ips

\* A response is that of an IP that has answered.
AnsweredInv ==
  /\ \A e \in Endpoints : resp[e] => <<ip, e>> \in answered
  /\ api.id => \E i \in 1..ips : <<i, "id">> \in answered
  /\ api.routingTable => \E i \in 1..ips : <<i, "routingTable">> \in answered

\* The two requests for an IP.  While none has got an answer err is an error,
\* and a request that has returned has returned one; while all that are back
\* have got an answer there is no error anywhere.
RequestsInv ==
  /\ \A e \in Endpoints : resp[e] => <<ip, e>> \in answered
  /\ \A e \in Endpoints : <<ip, e>> \in answered => resp[e]
  /\ \A e \in Endpoints : req[e] = "asking" => ~resp[e]
  /\ (\A e \in Endpoints : ~resp[e]) =>
       \A e \in Endpoints :
         /\ req[e] # "asking" => err # "nil"
         /\ req[e] = "done" => firstErr # "nil"
  /\ (\A e \in Endpoints : req[e] # "asking" => resp[e]) =>
       err = "nil" /\ firstErr = "nil" /\ \A e \in Endpoints : req[e] # "wrap"

\* What crawlAPI concludes from the answers.
Verdict(a) ==
  /\ a.attempted <=> ips > 0
  /\ a.id \/ a.routingTable => answered # {}
  /\ ~(a.id \/ a.routingTable) => ip = ips /\ \A i \in 1..ips : ~BothAnswered(i)

ApiInv ==
  ~cancelled =>
    /\ err # "canceled" /\ firstErr # "canceled"
    /\ \A i \in 1..ips, e \in Endpoints : <<i, e>> \in answered => i <= ip
    /\ ~checkExposed => apc = "exited" /\ answered = {}
    /\ checkExposed /\ apc = "exited" => wpc = "done"
    /\ \A i \in 1..ips : apc \in {"next", "wait"} /\ (i < ip \/ (i = ip /\ apc = "next")) =>
         ~BothAnswered(i)
    /\ apc = "wait" => RequestsInv
    /\ apc = "send" => Verdict(api)

\* Work returns only after crawlAPI.
DoneApi == wpc = "done" => apc = "exited"

Inv ==
  /\ VisitTypeOK /\ AskingInv /\ NetworkInv /\ HandoverInv /\ ReceivedInv /\ AnsweredInv
  /\ ApiInv /\ DoneApi
  /\ VisitIsReported /\ ExposureIsReal

LEMMA InitInv == VisitInit => Inv
<1> SUFFICES ASSUME VisitInit PROVE Inv
  OBVIOUS
<1> USE DEF VisitInit
<1>1. VisitTypeOK
  <2>1. ZeroP2P \in P2PResult /\ ZeroAPI \in APIResult /\ NoResult \in CrawlResult
    BY DEF ZeroP2P, ZeroAPI, NoResult, P2PResult, APIResult, CrawlResult, Origins
  <2>2. ips \in 0..MaxIPs /\ ip \in 0..ips /\ err \in Errors /\ firstErr \in Errors
    BY VisitAssumption DEF Errors
  <2> QED
    BY <2>1, <2>2, Zenon DEF VisitTypeOK
<1>2. AskingInv /\ NetworkInv /\ HandoverInv /\ ReceivedInv
  BY DEF AskingInv, NetworkInv, HandoverInv, ReceivedInv, ZeroP2P
<1>5. AnsweredInv
  BY DEF AnsweredInv, ZeroAPI
<1>3. ApiInv
  BY VisitAssumption DEF ApiInv, BothAnswered, Endpoints
<1>4. DoneApi /\ VisitIsReported /\ ExposureIsReal
  BY DEF DoneApi, VisitIsReported, ExposureIsReal
<1> QED
  BY <1>1, <1>2, <1>3, <1>4, <1>5 DEF Inv

-----------------------------------------------------------------------------
\* Types.

LEMMA ZeroTypes ==
  ZeroP2P \in P2PResult /\ ZeroAPI \in APIResult /\ [ZeroAPI EXCEPT !.attempted = TRUE] \in APIResult
BY DEF ZeroAPI, APIResult, ZeroP2P, P2PResult

\* What mergeResults makes of two results.
LEMMA MergeType ==
  ASSUME NEW p \in P2PResult, NEW a \in APIResult
  PROVE  Merge(p, a) \in CrawlResult
<1>1. p.connErr \in BOOLEAN /\ (p.crawlErr /\ ~p.neighbors) \in BOOLEAN
  BY Zenon DEF P2PResult
<1>2. (IF p.neighbors THEN "p2p" ELSE IF a.routingTable THEN "api" ELSE "none") \in Origins
  BY DEF Origins
<1>3. (IF ~a.attempted THEN "unknown" ELSE IF a.id \/ a.routingTable THEN "yes" ELSE "no")
        \in {"unknown", "no", "yes"}
  OBVIOUS
<1>4. /\ (IF AgentFromAPI(p, a) THEN "api" ELSE IF p.agent THEN "p2p" ELSE "none") \in Origins
      /\ (IF AgentFromAPI(p, a) THEN "api" ELSE IF p.protocols THEN "p2p" ELSE "none") \in Origins
  BY DEF Origins
<1> QED
  BY <1>1, <1>2, <1>3, <1>4 DEF Merge, CrawlResult

LEMMA QueryResult ==
  ASSUME Query
  PROVE  /\ p2p' \in P2PResult /\ ~p2p'.connErr /\ (p2p'.crawlErr => ~p2p'.neighbors)
         /\ connected' \in BOOLEAN /\ (~p2p'.crawlErr => connected')
<1>1. PICK ok \in BOOLEAN, reached \in BOOLEAN, agent \in BOOLEAN, protocols \in BOOLEAN :
        /\ connected' = (connected \/ ok \/ reached)
        /\ \E some \in IF ok THEN BOOLEAN ELSE {FALSE} :
             p2p' = [connErr |-> FALSE, crawlErr |-> ~ok, neighbors |-> some,
                     agent |-> agent /\ connected', protocols |-> protocols /\ connected']
  BY DEF Query
<1>2. PICK some \in IF ok THEN BOOLEAN ELSE {FALSE} :
        p2p' = [connErr |-> FALSE, crawlErr |-> ~ok, neighbors |-> some,
                agent |-> agent /\ connected', protocols |-> protocols /\ connected']
  BY <1>1
<1>3. connected' \in BOOLEAN /\ (ok => connected')
  BY <1>1, Zenon
<1>4. /\ some \in BOOLEAN /\ (~ok) \in BOOLEAN /\ (agent /\ connected') \in BOOLEAN
      /\ (protocols /\ connected') \in BOOLEAN
  BY <1>2, Zenon
<1>5. p2p' \in P2PResult
  BY <1>2, <1>4 DEF P2PResult
<1>6. ~p2p'.connErr /\ (p2p'.crawlErr => ~p2p'.neighbors) /\ (p2p'.crawlErr <=> ~ok)
  BY <1>2
<1> QED
  BY <1>3, <1>5, <1>6

\* A connect that fails.
LEMMA FailResult ==
  ASSUME VisitTypeOK, FailConnect
  PROVE  /\ p2p' \in P2PResult /\ p2p'.connErr /\ ppc' = "send"
         /\ p2p'.crawlErr = p2p.crawlErr /\ p2p'.neighbors = p2p.neighbors
BY DEF VisitTypeOK, FailConnect, P2PResult

LEMMA P2PType ==
  ASSUME VisitTypeOK, P2PStep \/ PeerConnects \/ CancelWork \/ UNCHANGED visitVars
  PROVE  VisitTypeOK'
<1> USE DEF workVars, p2pVars, apiVars, cfgVars
<1>1. CASE CannotDial \/ UnsupportedNetwork \/ CreateFails \/ StartFails \/ WaitCancelled
  <2>1. FailConnect /\ dirUp' \in BOOLEAN /\ netUp' \in BOOLEAN
    BY <1>1 DEF VisitTypeOK, CannotDial, UnsupportedNetwork, CreateFails, StartFails, WaitCancelled
  <2>2. p2p' \in P2PResult
    BY <2>1, FailResult
  <2> QED
    BY <2>1, <2>2, Zenon DEF VisitTypeOK, FailConnect
<1>2. CASE MakeDir \/ CreateNetwork \/ StartNetwork
  BY <1>2, Zenon DEF VisitTypeOK, MakeDir, CreateNetwork, StartNetwork
<1>3. CASE Query
  <2>1. p2p' \in P2PResult /\ connected' \in BOOLEAN
    BY <1>3, QueryResult
  <2> QED
    BY <1>3, <2>1, Zenon DEF VisitTypeOK, Query
<1>5. CASE WaitEnds
  BY <1>5, Zenon DEF VisitTypeOK, WaitEnds
<1>6. CASE SendP2P
  BY <1>6, Zenon DEF VisitTypeOK, SendP2P
<1>7. CASE Cleanup
  BY <1>7, Zenon DEF VisitTypeOK, Cleanup
<1>8. CASE PeerConnects
  BY <1>8, Zenon DEF VisitTypeOK, PeerConnects
<1>9. CASE CancelWork
  BY <1>9, Zenon DEF VisitTypeOK, CancelWork
<1>10. CASE UNCHANGED visitVars
  <2>1. UNCHANGED <<cancelled, checkExposed, ips, wpc, got, result, ppc, dirUp, netUp, connected, p2p>>
    BY <1>10 DEF visitVars
  <2>2. UNCHANGED <<apc, ip, req, resp, err, firstErr, api, answered>>
    BY <1>10 DEF visitVars
  <2> QED
    BY <2>1, <2>2 DEF VisitTypeOK
<1> QED
  BY <1>1, <1>2, <1>3, <1>5, <1>6, <1>7, <1>8, <1>9, <1>10 DEF P2PStep, ConnectStep

LEMMA ApiType ==
  ASSUME VisitTypeOK, APIStep \/ WorkStep
  PROVE  VisitTypeOK'
<1> USE DEF workVars, p2pVars, cfgVars
<1>1. CASE StartRequests
  <2>1. req' \in [Endpoints -> {"asking", "check", "wrap", "done"}] /\ ip' \in 0..ips
    BY <1>1 DEF VisitTypeOK, StartRequests
  <2>2. resp' \in [Endpoints -> BOOLEAN]
    BY <1>1, Zenon DEF StartRequests
  <2>3. err' \in Errors /\ firstErr' \in Errors
    BY <1>1 DEF StartRequests, Errors
  <2> QED
    BY <1>1, <2>1, <2>2, <2>3, Zenon DEF VisitTypeOK, StartRequests
<1>2. CASE NoMoreIPs
  <2>1. (ips > 0) \in BOOLEAN
    BY DEF VisitTypeOK
  <2>2. api' \in APIResult
    BY <1>2, <2>1 DEF NoMoreIPs, APIResult, ZeroAPI
  <2> QED
    BY <1>2, <2>2, Zenon DEF VisitTypeOK, NoMoreIPs
<1>3. CASE ApiFound
  <2>1. resp["id"] \in BOOLEAN /\ resp["routingTable"] \in BOOLEAN
    BY DEF VisitTypeOK, Endpoints
  <2>2. api' \in APIResult
    BY <1>3, <2>1 DEF ApiFound, APIResult
  <2> QED
    BY <1>3, <2>2, Zenon DEF VisitTypeOK, ApiFound
<1>4. CASE GiveUp
  BY <1>4, ZeroTypes, Zenon DEF VisitTypeOK, GiveUp
<1>5. CASE NextIP
  BY <1>5, Zenon DEF VisitTypeOK, NextIP
<1>6. CASE SendAPI
  <2>1. result' \in CrawlResult /\ wpc' \in {"p2p", "api", "done"} /\ got' = got
    BY <1>6, MergeType DEF VisitTypeOK, SendAPI
  <2> QED
    BY <1>6, <2>1, Zenon DEF VisitTypeOK, SendAPI
<1>7. CASE P2PClosed
  BY <1>7, ZeroTypes, Zenon DEF VisitTypeOK, P2PClosed, apiVars
<1>8. CASE APIClosed
  <2>1. result' \in CrawlResult
    BY <1>8, MergeType, ZeroTypes DEF VisitTypeOK, APIClosed
  <2> QED
    BY <1>8, <2>1, Zenon DEF VisitTypeOK, APIClosed, apiVars
<1> QED
  BY <1>1, <1>2, <1>3, <1>4, <1>5, <1>6, <1>7, <1>8 DEF APIStep, WorkStep

LEMMA RequestType ==
  ASSUME VisitTypeOK, AskingInv, NEW e \in Endpoints, RequestStep(e)
  PROVE  VisitTypeOK'
<1> USE DEF workVars, p2pVars, cfgVars
<1>1. CASE Answer(e)
  <2>1. PICK outcome \in Errors :
          /\ err' = outcome
          /\ resp' = [resp EXCEPT ![e] = outcome = "nil"]
          /\ answered' = IF outcome = "nil" THEN answered \cup {<<ip, e>>} ELSE answered
    BY <1>1 DEF Answer, Errors
  <2>2. /\ req' \in [Endpoints -> {"asking", "check", "wrap", "done"}]
        /\ answered' \subseteq (1..ips) \X Endpoints
    BY <1>1, <2>1 DEF VisitTypeOK, AskingInv, Answer
  <2>3. resp' \in [Endpoints -> BOOLEAN]
    BY <2>1, SMT DEF VisitTypeOK
  <2> QED
    BY <1>1, <2>1, <2>2, <2>3, Zenon DEF VisitTypeOK, Answer
<1>2. CASE CheckErr(e)
  <2>1. req' \in [Endpoints -> {"asking", "check", "wrap", "done"}]
    BY <1>2 DEF VisitTypeOK, CheckErr
  <2> QED
    BY <1>2, <2>1, Zenon DEF VisitTypeOK, CheckErr
<1>3. CASE WrapErr(e)
  <2>1. req' \in [Endpoints -> {"asking", "check", "wrap", "done"}] /\ firstErr' \in Errors
    BY <1>3 DEF VisitTypeOK, WrapErr, Errors
  <2> QED
    BY <1>3, <2>1, Zenon DEF VisitTypeOK, WrapErr
<1> QED
  BY <1>1, <1>2, <1>3 DEF RequestStep

LEMMA TypeNext == VisitTypeOK /\ AskingInv /\ [VisitNext]_visitVars => VisitTypeOK'
BY P2PType, ApiType, RequestType DEF VisitNext

-----------------------------------------------------------------------------
\* crawlP2P and Work.

LEMMA AskingNext == VisitTypeOK /\ AskingInv /\ [VisitNext]_visitVars => AskingInv'
<1> SUFFICES ASSUME VisitTypeOK, AskingInv, [VisitNext]_visitVars PROVE AskingInv'
  OBVIOUS
<1>1. CASE StartRequests
  BY <1>1 DEF StartRequests, AskingInv, VisitTypeOK, cfgVars
<1>2. ASSUME ~StartRequests PROVE UNCHANGED <<ips, ip>> /\ (apc' = "wait" => apc = "wait")
  BY <1>2 DEF VisitNext, P2PStep, ConnectStep, FailConnect, CannotDial, MakeDir, UnsupportedNetwork, CreateFails,
     CreateNetwork, StartFails, StartNetwork, WaitEnds, WaitCancelled, Query,
              SendP2P, Cleanup, PeerConnects, APIStep, NoMoreIPs, ApiFound, NextIP, GiveUp, SendAPI,
              RequestStep, Answer, CheckErr, WrapErr, WorkStep, P2PClosed, APIClosed, CancelWork,
              visitVars, apiVars, cfgVars
<1> QED
  BY <1>1, <1>2 DEF AskingInv

LEMMA NetworkNext == VisitTypeOK /\ NetworkInv /\ [VisitNext]_visitVars => NetworkInv'
<1> SUFFICES ASSUME VisitTypeOK, NetworkInv, [VisitNext]_visitVars PROVE NetworkInv'
  OBVIOUS
<1> USE DEF NetworkInv
<1>1. CASE CannotDial \/ UnsupportedNetwork \/ CreateFails \/ StartFails \/ WaitCancelled
  <2>1. ~netUp' /\ ~dirUp'
    <3>1. ppc \in {"start", "dir"} => ~netUp
      OBVIOUS
    <3>2. ppc = "start" => ~dirUp
      OBVIOUS
    <3> HIDE DEF NetworkInv
    <3> QED
      BY <1>1, <3>1, <3>2 DEF CannotDial, UnsupportedNetwork, CreateFails, StartFails, WaitCancelled
  <2>2. FailConnect
    BY <1>1 DEF CannotDial, UnsupportedNetwork, CreateFails, StartFails, WaitCancelled
  <2> QED
    BY <2>1, <2>2, FailResult
<1>2. CASE MakeDir \/ CreateNetwork \/ StartNetwork
  BY <1>2 DEF MakeDir, CreateNetwork, StartNetwork
<1>3. CASE Query
  BY <1>3, QueryResult DEF Query
<1>4. CASE WaitEnds \/ SendP2P
  BY <1>4 DEF WaitEnds, SendP2P
<1>5. CASE Cleanup
  <2>1. ~netUp' /\ ~dirUp'
    BY <1>5, Zenon DEF Cleanup
  <2> QED
    BY <1>5, <2>1 DEF Cleanup
<1>6. CASE PeerConnects
  BY <1>6 DEF PeerConnects
<1>7. CASE UNCHANGED p2pVars
  BY <1>7 DEF p2pVars
<1> QED
  BY <1>1, <1>2, <1>3, <1>4, <1>5, <1>6, <1>7
  DEF VisitNext, P2PStep, ConnectStep, APIStep, StartRequests, NoMoreIPs, ApiFound, NextIP, GiveUp,
      SendAPI, RequestStep, Answer, CheckErr, WrapErr, WorkStep, P2PClosed, APIClosed, CancelWork,
      visitVars

LEMMA HandoverNext == HandoverInv /\ ReceivedInv /\ [VisitNext]_visitVars => HandoverInv'
<1> SUFFICES ASSUME HandoverInv, ReceivedInv, [VisitNext]_visitVars, ~cancelled' PROVE HandoverInv'
  BY DEF HandoverInv
<1> USE DEF HandoverInv, ReceivedInv, workVars, p2pVars
<1>1. CASE CancelWork
  BY <1>1 DEF CancelWork
<1>2. CASE P2PStep \/ PeerConnects
  BY <1>2 DEF P2PStep, PeerConnects, ConnectStep, FailConnect, CannotDial, MakeDir, UnsupportedNetwork, CreateFails,
     CreateNetwork, StartFails, StartNetwork, WaitEnds, WaitCancelled, Query,
              SendP2P, Cleanup
<1>3. CASE SendAPI \/ WorkStep
  BY <1>3 DEF SendAPI, WorkStep, P2PClosed, APIClosed
<1>4. CASE UNCHANGED <<cancelled, workVars, p2pVars>>
  BY <1>4
<1> QED
  BY <1>1, <1>2, <1>3, <1>4
  DEF VisitNext, APIStep, StartRequests, NoMoreIPs, ApiFound, NextIP, GiveUp, RequestStep, Answer,
      CheckErr, WrapErr, visitVars

LEMMA ReceivedNext == ReceivedInv /\ [VisitNext]_visitVars => ReceivedInv'
<1> SUFFICES ASSUME ReceivedInv, [VisitNext]_visitVars PROVE ReceivedInv'
  OBVIOUS
<1> USE DEF ReceivedInv, workVars, p2pVars
<1>1. CASE P2PStep \/ PeerConnects
  BY <1>1 DEF P2PStep, PeerConnects, ConnectStep, FailConnect, CannotDial, MakeDir, UnsupportedNetwork,
     CreateFails, CreateNetwork, StartFails, StartNetwork, WaitEnds, WaitCancelled, Query, SendP2P, Cleanup
<1>2. CASE SendAPI \/ WorkStep
  BY <1>2 DEF SendAPI, WorkStep, P2PClosed, APIClosed
<1>3. CASE UNCHANGED <<workVars, p2pVars>>
  BY <1>3
<1> QED
  BY <1>1, <1>2, <1>3
  DEF VisitNext, APIStep, StartRequests, NoMoreIPs, ApiFound, NextIP, GiveUp, RequestStep, Answer,
      CheckErr, WrapErr, CancelWork, visitVars

-----------------------------------------------------------------------------
\* crawlAPI.

\* A step that leaves the goroutine of crawlAPI alone.
LEMMA ApiAlone ==
  ASSUME ApiInv, UNCHANGED <<cfgVars, apiVars>>, ~cancelled' => ~cancelled, wpc = "done" => wpc' = "done"
  PROVE  ApiInv'
BY DEF ApiInv, RequestsInv, Verdict, BothAnswered, cfgVars, apiVars

\* While crawlAPI works the visit was configured to look for an API.
LEMMA ApiNotCancelled ==
  ASSUME ApiInv, UNCHANGED <<cancelled, cfgVars>>, ~cancelled', apc # "exited"
  PROVE  ~cancelled /\ checkExposed /\ checkExposed'
BY DEF ApiInv, cfgVars

LEMMA StartRequestsApi ==
  ASSUME VisitTypeOK, ApiInv, StartRequests
  PROVE  ApiInv'
<1> SUFFICES ASSUME ~cancelled' PROVE ApiInv'
  BY DEF ApiInv
<1>1. /\ apc = "next" /\ apc' = "wait" /\ ip < ips /\ ip' = ip + 1 /\ ip \in Nat /\ ips \in Nat
      /\ err' = "nil" /\ firstErr' = "nil"
      /\ UNCHANGED <<cancelled, cfgVars, workVars, p2pVars, api, answered>>
  BY DEF StartRequests, VisitTypeOK
<1>2. ips' = ips /\ ~cancelled /\ checkExposed /\ checkExposed'
  BY <1>1, ApiNotCancelled DEF cfgVars
<1>3. \A i \in 1..ips, e \in Endpoints : <<i, e>> \in answered => i <= ip
  BY <1>2 DEF ApiInv
<1>4. \A i \in 1..ips : i <= ip => ~BothAnswered(i)
  BY <1>1, <1>2 DEF ApiInv
<1>5. RequestsInv'
  <2>1. \A e \in Endpoints : ~resp'[e] /\ req'[e] = "asking" /\ <<ip', e>> \notin answered'
    BY <1>1, <1>3 DEF StartRequests
  <2> QED
    BY <1>1, <2>1 DEF RequestsInv
<1>6. \A i \in 1..ips' : i < ip' => ~BothAnswered(i)'
  BY <1>1, <1>2, <1>4 DEF BothAnswered
<1>7. \A i \in 1..ips', e \in Endpoints : <<i, e>> \in answered' => i <= ip'
  BY <1>1, <1>2, <1>3
<1> QED
  BY <1>1, <1>2, <1>5, <1>6, <1>7 DEF ApiInv

LEMMA AnswerApi ==
  ASSUME VisitTypeOK, AskingInv, ApiInv, NEW e \in Endpoints, Answer(e)
  PROVE  ApiInv'
<1> SUFFICES ASSUME ~cancelled' PROVE ApiInv'
  BY DEF ApiInv
<1>1. /\ apc = "wait" /\ apc' = "wait" /\ req[e] = "asking" /\ req' = [req EXCEPT ![e] = "check"]
      /\ UNCHANGED <<cancelled, cfgVars, workVars, p2pVars, apc, ip, firstErr, api>>
  BY DEF Answer
<1>2. ips' = ips /\ ~cancelled /\ checkExposed /\ checkExposed' /\ ip \in 1..ips /\ ips \in Nat
  BY <1>1, ApiNotCancelled DEF cfgVars, AskingInv, VisitTypeOK
<1>3. PICK outcome \in {"nil", "other"} :
        /\ err' = outcome
        /\ resp' = [resp EXCEPT ![e] = outcome = "nil"]
        /\ answered' = IF outcome = "nil" THEN answered \cup {<<ip, e>>} ELSE answered
  BY <1>2 DEF Answer, Errors
<1>4. RequestsInv /\ err # "canceled" /\ firstErr # "canceled"
  BY <1>1, <1>2 DEF ApiInv
<1>5. /\ ~resp[e] /\ <<ip, e>> \notin answered
      /\ resp'[e] <=> outcome = "nil"
      /\ <<ip, e>> \in answered' <=> outcome = "nil"
  BY <1>1, <1>3, <1>4 DEF RequestsInv, VisitTypeOK
<1>6. \A f \in Endpoints \ {e} :
        /\ resp'[f] <=> resp[f]
        /\ <<ip, f>> \in answered' <=> <<ip, f>> \in answered
        /\ req'[f] = req[f]
  BY <1>1, <1>3 DEF VisitTypeOK
<1>7. req'[e] = "check"
  BY <1>1 DEF VisitTypeOK
<1>8. RequestsInv'
  <2> USE DEF RequestsInv
  <2>1. \A f \in Endpoints : (resp'[f] <=> <<ip', f>> \in answered') /\ (req'[f] = "asking" => ~resp'[f])
    BY <1>1, <1>4, <1>5, <1>6, <1>7
  <2>2. ASSUME \A f \in Endpoints : ~resp'[f], NEW f \in Endpoints
        PROVE  /\ req'[f] # "asking" => err' # "nil"
               /\ req'[f] = "done" => firstErr' # "nil"
    <3>1. outcome = "other" /\ \A g \in Endpoints : ~resp[g]
      BY <1>3, <1>5, <1>6, <2>2
    <3>2. req'[f] = "done" => f # e /\ req[f] = "done"
      BY <1>6, <1>7
    <3> QED
      BY <1>1, <1>3, <1>4, <3>1, <3>2
  <2>3. ASSUME \A f \in Endpoints : req'[f] # "asking" => resp'[f]
        PROVE  err' = "nil" /\ firstErr' = "nil" /\ \A f \in Endpoints : req'[f] # "wrap"
    <3>1. outcome = "nil"
      BY <1>5, <1>7, <2>3
    <3>2. \A f \in Endpoints : req[f] # "asking" => resp[f]
      BY <1>1, <1>6, <2>3
    <3> QED
      BY <1>1, <1>3, <1>4, <1>6, <1>7, <3>1, <3>2
  <2> QED
    BY <2>1, <2>2, <2>3
<1>9. \A i \in 1..ips', f \in Endpoints : <<i, f>> \in answered' => i <= ip'
  BY <1>1, <1>2, <1>3 DEF ApiInv
<1>10. \A i \in 1..ips' : i < ip' => ~BothAnswered(i)'
  <2>1. ASSUME NEW i \in 1..ips, i < ip, NEW f \in Endpoints PROVE <<i, f>> \in answered' <=> <<i, f>> \in answered
    BY <1>2, <1>3, <2>1
  <2>2. \A i \in 1..ips : i < ip => ~BothAnswered(i)
    BY <1>1, <1>2 DEF ApiInv
  <2> QED
    BY <1>1, <1>2, <2>1, <2>2 DEF BothAnswered
<1>11. err' # "canceled" /\ firstErr' # "canceled"
  BY <1>1, <1>3, <1>4
<1> QED
  BY <1>1, <1>2, <1>8, <1>9, <1>10, <1>11 DEF ApiInv

LEMMA RequestReturnsApi ==
  ASSUME VisitTypeOK, ApiInv, NEW e \in Endpoints, CheckErr(e) \/ WrapErr(e)
  PROVE  ApiInv'
<1> SUFFICES ASSUME ~cancelled' PROVE ApiInv'
  BY DEF ApiInv
<1>1. /\ apc = "wait" /\ apc' = "wait" /\ req[e] \in {"check", "wrap"}
      /\ UNCHANGED <<cancelled, cfgVars, workVars, p2pVars, apc, ip, resp, err, api, answered>>
  BY DEF CheckErr, WrapErr
<1>2. ips' = ips /\ ~cancelled /\ checkExposed /\ checkExposed'
  BY <1>1, ApiNotCancelled DEF cfgVars
<1>3. RequestsInv /\ err # "canceled" /\ firstErr # "canceled"
  BY <1>1, <1>2 DEF ApiInv
<1>4. \A f \in Endpoints \ {e} : req'[f] = req[f]
  BY DEF CheckErr, WrapErr, VisitTypeOK
<1>5. CASE CheckErr(e)
  <2>1. firstErr' = firstErr /\ req[e] = "check" /\ req'[e] = IF err = "nil" THEN "done" ELSE "wrap"
    BY <1>5 DEF CheckErr, VisitTypeOK
  <2>2. RequestsInv'
    BY <1>1, <1>3, <1>4, <2>1 DEF RequestsInv
  <2> QED
    BY <1>1, <1>2, <1>3, <2>1, <2>2 DEF ApiInv, BothAnswered
<1>6. CASE WrapErr(e)
  <2>1. /\ req[e] = "wrap" /\ req'[e] = "done"
        /\ firstErr' = IF firstErr # "nil" THEN firstErr ELSE IF err = "nil" THEN "other" ELSE err
    BY <1>6 DEF WrapErr, VisitTypeOK
  <2>2. firstErr' # "nil" /\ firstErr' # "canceled"
    BY <1>3, <2>1
  <2>3. RequestsInv'
    BY <1>1, <1>3, <1>4, <2>1, <2>2 DEF RequestsInv
  <2> QED
    BY <1>1, <1>2, <1>3, <2>2, <2>3 DEF ApiInv, BothAnswered
<1> QED
  BY <1>5, <1>6

\* crawlAPI comes to a verdict, or goes on with the next IP.
LEMMA ConcludeApi ==
  ASSUME VisitTypeOK, AskingInv, ApiInv, NoMoreIPs \/ ApiFound \/ NextIP \/ GiveUp
  PROVE  ApiInv'
<1> SUFFICES ASSUME ~cancelled' PROVE ApiInv'
  BY DEF ApiInv
<1>1. /\ apc \in {"next", "wait"} /\ apc' \in {"next", "send"}
      /\ UNCHANGED <<cancelled, cfgVars, workVars, p2pVars, ip, req, resp, err, firstErr, answered>>
  BY DEF NoMoreIPs, ApiFound, NextIP, GiveUp, BothReturned
<1>2. ips' = ips /\ ~cancelled /\ checkExposed /\ checkExposed' /\ ip \in Nat /\ ips \in Nat /\ ip <= ips
  BY <1>1, ApiNotCancelled DEF cfgVars, VisitTypeOK
<1>3. CASE NoMoreIPs
  <2>1. apc = "next" /\ ip = ips /\ apc' = "send"
    BY <1>3 DEF NoMoreIPs
  <2>2. (api'.attempted <=> ips > 0) /\ ~api'.id /\ ~api'.routingTable
    BY <1>3 DEF NoMoreIPs, ZeroAPI
  <2>3. \A i \in 1..ips : ~BothAnswered(i)
    BY <1>2, <2>1 DEF ApiInv
  <2>4. Verdict(api)'
    BY <1>1, <1>2, <2>1, <2>2, <2>3 DEF Verdict, BothAnswered
  <2> QED
    BY <1>1, <1>2, <2>1, <2>4 DEF ApiInv
<1>4. CASE ApiFound
  <2>1. apc = "wait" /\ firstErr = "nil" /\ apc' = "send" /\ \A e \in Endpoints : req[e] = "done"
    BY <1>4 DEF ApiFound, BothReturned
  <2>2. RequestsInv /\ ip \in 1..ips
    BY <1>2, <2>1 DEF ApiInv, AskingInv
  <2>3. api'.attempted /\ (api'.id <=> resp["id"]) /\ (api'.routingTable <=> resp["routingTable"])
    BY <1>4 DEF ApiFound
  <2>4. (\E e \in Endpoints : resp[e]) /\ answered # {}
    BY <2>1, <2>2 DEF RequestsInv, Endpoints
  <2>5. api'.id \/ api'.routingTable
    BY <2>3, <2>4 DEF Endpoints
  <2>6. Verdict(api)'
    BY <1>1, <1>2, <2>2, <2>3, <2>4, <2>5 DEF Verdict
  <2> QED
    BY <1>1, <1>2, <2>1, <2>6 DEF ApiInv
<1>5. CASE NextIP
  <2>1. apc = "wait" /\ firstErr = "other" /\ apc' = "next" /\ \A e \in Endpoints : req[e] = "done"
    BY <1>5 DEF NextIP, BothReturned
  <2>2. RequestsInv
    BY <1>2, <2>1 DEF ApiInv
  <2>3. ~BothAnswered(ip)
    BY <2>1, <2>2 DEF RequestsInv, BothAnswered
  <2>4. \A i \in 1..ips : i < ip => ~BothAnswered(i)
    BY <1>2, <2>1 DEF ApiInv
  <2>5. \A i \in 1..ips' : (i < ip' \/ (i = ip' /\ apc' = "next")) => ~BothAnswered(i)'
    BY <1>1, <1>2, <2>3, <2>4 DEF BothAnswered
  <2> QED
    BY <1>1, <1>2, <2>1, <2>5 DEF ApiInv
<1>6. CASE GiveUp
  BY <1>2, <1>6 DEF GiveUp, ApiInv
<1> QED
  BY <1>3, <1>4, <1>5, <1>6

LEMMA AnsweredNext == VisitTypeOK /\ AskingInv /\ AnsweredInv /\ [VisitNext]_visitVars => AnsweredInv'
<1> SUFFICES ASSUME VisitTypeOK, AskingInv, AnsweredInv, [VisitNext]_visitVars PROVE AnsweredInv'
  OBVIOUS
<1> USE DEF AnsweredInv
<1>1. CASE StartRequests
  BY <1>1 DEF StartRequests, cfgVars, Endpoints
<1>2. CASE NoMoreIPs \/ GiveUp
  BY <1>2 DEF NoMoreIPs, GiveUp, ZeroAPI, cfgVars
<1>3. CASE ApiFound
  <2>1. ip \in 1..ips /\ api'.id = resp["id"] /\ api'.routingTable = resp["routingTable"]
    BY <1>3 DEF ApiFound, BothReturned, AskingInv
  <2> QED
    BY <1>3, <2>1 DEF ApiFound, cfgVars, Endpoints
<1>4. ASSUME NEW e \in Endpoints, Answer(e) PROVE AnsweredInv'
  <2>1. PICK outcome \in Errors :
          /\ resp' = [resp EXCEPT ![e] = outcome = "nil"]
          /\ answered' = IF outcome = "nil" THEN answered \cup {<<ip, e>>} ELSE answered
    BY <1>4 DEF Answer, Errors
  <2>2. answered \subseteq answered' /\ UNCHANGED <<ip, ips, api>>
    BY <1>4, <2>1 DEF Answer, cfgVars
  <2>3. \A f \in Endpoints : resp'[f] => <<ip, f>> \in answered'
    BY <2>1, <2>2 DEF VisitTypeOK
  <2> QED
    BY <2>2, <2>3
<1>5. CASE UNCHANGED <<ip, ips, resp, api, answered>>
  BY <1>5
<1> QED
  BY <1>1, <1>2, <1>3, <1>4, <1>5
  DEF VisitNext, P2PStep, ConnectStep, FailConnect, CannotDial, MakeDir, UnsupportedNetwork, CreateFails,
      CreateNetwork, StartFails, StartNetwork, WaitEnds, WaitCancelled, Query, SendP2P, Cleanup,
      PeerConnects, APIStep, NextIP, SendAPI, RequestStep, CheckErr, WrapErr, WorkStep, P2PClosed,
      APIClosed, CancelWork, visitVars, apiVars, cfgVars

LEMMA ApiNext == VisitTypeOK /\ AskingInv /\ ApiInv /\ [VisitNext]_visitVars => ApiInv'
<1> SUFFICES ASSUME VisitTypeOK, AskingInv, ApiInv, [VisitNext]_visitVars PROVE ApiInv'
  OBVIOUS
<1>1. CASE APIStep
  <2>1. CASE SendAPI
    <3>1. /\ apc = "send" /\ apc' = "exited" /\ (wpc' = "done" \/ cancelled)
          /\ UNCHANGED <<cancelled, cfgVars, p2pVars, ip, req, resp, err, firstErr, api, answered>>
      BY <2>1 DEF SendAPI
    <3>2. ASSUME ~cancelled' PROVE ~cancelled /\ checkExposed /\ checkExposed'
      BY <3>1, <3>2, ApiNotCancelled
    <3> QED
      BY <3>1, <3>2 DEF ApiInv, cfgVars
  <2> QED
    BY <1>1, <2>1, StartRequestsApi, ConcludeApi DEF APIStep
<1>2. ASSUME NEW e \in Endpoints, RequestStep(e) PROVE ApiInv'
  BY <1>2, AnswerApi, RequestReturnsApi DEF RequestStep
<1>3. CASE P2PStep \/ PeerConnects \/ WorkStep \/ CancelWork \/ UNCHANGED visitVars
  <2> USE DEF P2PStep, PeerConnects, WorkStep, CancelWork, ConnectStep, FailConnect, CannotDial, MakeDir, UnsupportedNetwork, CreateFails,
     CreateNetwork, StartFails, StartNetwork, WaitEnds,
              WaitCancelled, Query, SendP2P, Cleanup, P2PClosed, APIClosed, visitVars
  <2>1. UNCHANGED <<cfgVars, apiVars>>
    BY <1>3
  <2>2. ~cancelled' => ~cancelled
    BY <1>3, Zenon
  <2>3. wpc = "done" => wpc' = "done"
    BY <1>3 DEF workVars
  <2> QED
    BY <2>1, <2>2, <2>3, ApiAlone
<1> QED
  BY <1>1, <1>2, <1>3 DEF VisitNext

-----------------------------------------------------------------------------
\* The merged result.

\* Work is done, and nothing its result was made from changes any more.
LEMMA DoneAlone ==
  ASSUME Inv, [VisitNext]_visitVars, wpc = "done"
  PROVE  /\ ~cancelled' => ~cancelled
         /\ UNCHANGED <<result, p2p, connected, answered, ip, ips, checkExposed>>
<1>1. ~cancelled' => ~cancelled
  BY Zenon DEF VisitNext, P2PStep, PeerConnects, ConnectStep, FailConnect, CannotDial, MakeDir,
     UnsupportedNetwork, CreateFails, CreateNetwork, StartFails, StartNetwork, WaitEnds, WaitCancelled,
     Query, SendP2P, Cleanup, APIStep, StartRequests, NoMoreIPs, ApiFound, NextIP, GiveUp, SendAPI,
     RequestStep, Answer, CheckErr, WrapErr, WorkStep, P2PClosed, APIClosed, CancelWork, visitVars
<1>2. ppc \in {"cleanup", "exited"} /\ apc = "exited"
  BY DEF Inv, ReceivedInv, DoneApi
<1> QED
  BY <1>1, <1>2 DEF VisitNext, P2PStep, PeerConnects, ConnectStep, FailConnect, CannotDial, MakeDir,
     UnsupportedNetwork, CreateFails, CreateNetwork, StartFails, StartNetwork, WaitEnds, WaitCancelled,
     Query, SendP2P, Cleanup, APIStep, StartRequests, NoMoreIPs, ApiFound, NextIP, GiveUp, SendAPI,
     RequestStep, Answer, CheckErr, WrapErr, WorkStep, P2PClosed, APIClosed, CancelWork, visitVars, workVars, p2pVars, apiVars, cfgVars,
     BothReturned

LEMMA DoneApiNext == Inv /\ [VisitNext]_visitVars => DoneApi'
<1> SUFFICES ASSUME Inv, [VisitNext]_visitVars, wpc' = "done" PROVE apc' = "exited"
  BY DEF DoneApi
<1>1. wpc = "done" => apc = "exited"
  BY DEF Inv, DoneApi
<1>2. apc = "exited" => apc' = "exited"
  BY DEF VisitNext, P2PStep, PeerConnects, ConnectStep, FailConnect, CannotDial, MakeDir, UnsupportedNetwork, CreateFails,
     CreateNetwork, StartFails, StartNetwork, WaitEnds, WaitCancelled,
     Query, SendP2P, Cleanup, APIStep, StartRequests, NoMoreIPs, ApiFound, NextIP, GiveUp, SendAPI,
     RequestStep, Answer, CheckErr, WrapErr, WorkStep, P2PClosed, APIClosed, CancelWork, visitVars,
     apiVars, BothReturned
<1>3. wpc # "done" => apc' = "exited"
  BY DEF VisitNext, P2PStep, PeerConnects, ConnectStep, FailConnect, CannotDial, MakeDir, UnsupportedNetwork, CreateFails,
     CreateNetwork, StartFails, StartNetwork, WaitEnds, WaitCancelled,
     Query, SendP2P, Cleanup, APIStep, StartRequests, NoMoreIPs, ApiFound, NextIP, GiveUp, SendAPI,
     RequestStep, Answer, CheckErr, WrapErr, WorkStep, P2PClosed, APIClosed, CancelWork, visitVars,
     workVars, apiVars
<1> QED
  BY <1>1, <1>2, <1>3

\* A result is made of what crawlP2P has sent, or nothing, and of a verdict of
\* crawlAPI, or nothing; without a cancellation it is not nothing.
LEMMA MergedResult ==
  ASSUME Inv, [VisitNext]_visitVars, wpc # "done", wpc' = "done"
  PROVE  /\ UNCHANGED <<p2p, connected, answered, ip, ips, checkExposed>>
         /\ ppc \in {"cleanup", "exited"}
         /\ \E p \in {p2p, ZeroP2P}, a \in {api, ZeroAPI} : result' = Merge(p, a)
         /\ ~cancelled' =>
              \/ checkExposed /\ Verdict(api) /\ result' = Merge(p2p, api)
              \/ ~checkExposed /\ answered = {} /\ result' = Merge(p2p, ZeroAPI)
<1>0. wpc # "done" /\ wpc' = "done"
  OBVIOUS
<1>1. SendAPI \/ APIClosed
  BY DEF VisitNext, P2PStep, PeerConnects, ConnectStep, FailConnect, CannotDial, MakeDir,
     UnsupportedNetwork, CreateFails, CreateNetwork, StartFails, StartNetwork, WaitEnds, WaitCancelled,
     Query, SendP2P, Cleanup, APIStep, StartRequests, NoMoreIPs, ApiFound, NextIP, GiveUp, 
     RequestStep, Answer, CheckErr, WrapErr, WorkStep, P2PClosed, CancelWork, visitVars, workVars
<1>2. /\ UNCHANGED <<cancelled, p2p, connected, answered, ip, ips, checkExposed>>
      /\ wpc = "api" /\ (~cancelled => got = p2p) /\ got \in {p2p, ZeroP2P}
      /\ ppc \in {"cleanup", "exited"}
  <2>1. UNCHANGED <<cancelled, p2p, connected, answered, ip, ips, checkExposed>>
    BY <1>1 DEF SendAPI, APIClosed, p2pVars, apiVars, cfgVars
  <2>2. wpc = "api"
    BY <1>1, <1>0 DEF SendAPI, APIClosed, workVars
  <2> QED
    BY <2>1, <2>2 DEF Inv, HandoverInv, ReceivedInv
<1>3. CASE SendAPI
  BY <1>2, <1>3 DEF SendAPI, workVars, Inv, ApiInv
<1>4. CASE APIClosed
  BY <1>2, <1>4 DEF APIClosed, Inv, ApiInv
<1> QED
  BY <1>1, <1>2, <1>3, <1>4

\* What Merge makes of results that hold nothing but what was found.
LEMMA MergeInvents ==
  ASSUME Inv, NEW p \in {p2p, ZeroP2P}, NEW a \in {api, ZeroAPI}
  PROVE  LET r == Merge(p, a) IN
         /\ r.connErr => p2p.connErr
         /\ r.crawlErr => p2p.crawlErr
         /\ r.neighbors = "p2p" => p2p.neighbors
         /\ r.neighbors = "api" => \E i \in 1..ips : <<i, "routingTable">> \in answered
         /\ r.agent = "p2p" => p2p.agent
         /\ r.protocols = "p2p" => p2p.protocols
         /\ r.agent = "api" \/ r.protocols = "api" => \E i \in 1..ips : <<i, "id">> \in answered
<1>1. /\ p.connErr => p2p.connErr
      /\ p.crawlErr => p2p.crawlErr
      /\ p.neighbors => p2p.neighbors
      /\ p.agent => p2p.agent
      /\ p.protocols => p2p.protocols
  BY DEF ZeroP2P
<1>2. /\ a.id => \E i \in 1..ips : <<i, "id">> \in answered
      /\ a.routingTable => \E i \in 1..ips : <<i, "routingTable">> \in answered
  BY DEF Inv, AnsweredInv, ZeroAPI
<1> QED
  BY <1>1, <1>2 DEF Merge, AgentFromAPI

LEMMA ReportNext == Inv /\ [VisitNext]_visitVars => VisitIsReported'
<1> SUFFICES ASSUME Inv, [VisitNext]_visitVars, wpc' = "done" PROVE VisitIsReported'
  BY DEF VisitIsReported
<1>1. CASE wpc = "done"
  <2>1. (~cancelled' => ~cancelled) /\ UNCHANGED <<result, p2p, connected, answered, ips>>
    BY <1>1, DoneAlone
  <2> QED
    BY <1>1, <2>1 DEF Inv, VisitIsReported, NothingInvented, AllReported
<1>2. CASE wpc # "done"
  <2>1. /\ UNCHANGED <<p2p, connected, answered, ips>> /\ ppc \in {"cleanup", "exited"}
        /\ \E p \in {p2p, ZeroP2P}, a \in {api, ZeroAPI} : result' = Merge(p, a)
    BY <1>2, MergedResult
  <2>2. NothingInvented'
    BY <2>1, MergeInvents DEF NothingInvented
  <2>3. ASSUME ~cancelled' PROVE AllReported'
    <3>1. PICK a : result' = Merge(p2p, a)
      BY <1>2, <2>3, MergedResult
    <3>2. /\ p2p \in P2PResult /\ (p2p.crawlErr => ~p2p.neighbors)
          /\ ~p2p.connErr /\ ~p2p.crawlErr => connected
      BY <2>1 DEF Inv, VisitTypeOK, NetworkInv
    <3>3. result'.connErr = p2p.connErr /\ (result'.crawlErr <=> p2p.crawlErr)
      BY <3>1, <3>2 DEF Merge
    <3>4. result'.crawlErr = p2p.crawlErr
      <4>1. p2p.crawlErr \in BOOLEAN /\ result'.crawlErr \in BOOLEAN
        BY <3>1, <3>2 DEF P2PResult, Merge
      <4> QED
        BY <3>3, <4>1
    <3>5. /\ p2p.neighbors => result'.neighbors = "p2p"
          /\ (p2p.agent /\ p2p.protocols) => result'.agent = "p2p" /\ result'.protocols = "p2p"
          /\ result'.agent = "api" <=> result'.protocols = "api"
          /\ p2p.agent => result'.agent # "none"
          /\ p2p.protocols => result'.protocols # "none"
      BY <3>1 DEF Merge, AgentFromAPI
    <3> QED
      BY <2>1, <3>2, <3>3, <3>4, <3>5 DEF AllReported
  <2> QED
    BY <2>2, <2>3 DEF VisitIsReported
<1> QED
  BY <1>1, <1>2

LEMMA ExposureNext == Inv /\ [VisitNext]_visitVars => ExposureIsReal'
<1> SUFFICES ASSUME Inv, [VisitNext]_visitVars, ~cancelled', wpc' = "done" PROVE ExposureIsReal'
  BY DEF ExposureIsReal
<1>1. CASE wpc = "done"
  <2>1. ~cancelled /\ UNCHANGED <<result, answered, ip, ips, checkExposed>>
    BY <1>1, DoneAlone
  <2> QED
    BY <1>1, <2>1 DEF Inv, ExposureIsReal
<1>2. CASE wpc # "done"
  <2>1. UNCHANGED <<answered, ip, ips, checkExposed>> /\ ips \in Nat
    BY <1>2, MergedResult DEF Inv, VisitTypeOK
  <2>2. \A i : {i} \X Endpoints \subseteq answered <=> BothAnswered(i)
    BY DEF BothAnswered
  <2>3. CASE checkExposed /\ Verdict(api) /\ result' = Merge(p2p, api)
    <3>1. result'.exposed = IF ~api.attempted THEN "unknown"
                            ELSE IF api.id \/ api.routingTable THEN "yes" ELSE "no"
      BY <2>3 DEF Merge
    <3>2. api.id \/ api.routingTable => ips > 0
      BY <2>3, <2>1 DEF Verdict, Inv, VisitTypeOK
    <3> QED
      BY <2>1, <2>2, <2>3, <3>1, <3>2 DEF Verdict, ExposureIsReal
  <2>4. CASE ~checkExposed /\ answered = {} /\ result' = Merge(p2p, ZeroAPI)
    <3>1. result'.exposed = "unknown"
      BY <2>4 DEF Merge, ZeroAPI
    <3>2. \A i : ~BothAnswered(i)
      BY <2>4 DEF BothAnswered, Endpoints
    <3> QED
      BY <2>1, <2>2, <2>4, <3>1, <3>2 DEF ExposureIsReal
  <2> QED
    BY <1>2, <2>3, <2>4, MergedResult
<1> QED
  BY <1>1, <1>2

LEMMA Invariant == VisitSpec => []Inv
<1>1. Inv /\ [VisitNext]_visitVars => Inv'
  BY TypeNext, AskingNext, NetworkNext, HandoverNext, ReceivedNext, AnsweredNext, ApiNext, DoneApiNext,
     ReportNext, ExposureNext DEF Inv
<1> QED
  BY <1>1, InitInv, PTL DEF VisitSpec

-----------------------------------------------------------------------------
\* The theorems.

\* Whichever step of connect or crawlP2P fails or is cancelled, its network and
\* its directory are released (Crawler.connect, Crawler.crawlP2P).
THEOREM NoNetworkLeaks == VisitSpec => []NetworkReleased
<1>1. Inv => NetworkReleased
  BY DEF Inv, NetworkInv, NetworkReleased
<1> QED
  BY <1>1, Invariant, PTL

\* No report holds what was not found, and that of a visit nobody cancels all
\* that was, whatever crawlAPI does meanwhile (Crawler.Work, mergeResults).
THEOREM ReportsAreFaithful == VisitSpec => []VisitIsReported
<1>1. Inv => VisitIsReported
  BY DEF Inv
<1> QED
  BY <1>1, Invariant, PTL

\* For any number of IP addresses, the verdict on the Kubo API survives the
\* race on err: an API that answers both requests of an IP is found, and none
\* is made up (crawlAPI).
THEOREM ExposureSurvivesRace == VisitSpec => []ExposureIsReal
<1>1. Inv => ExposureIsReal
  BY DEF Inv
<1> QED
  BY <1>1, Invariant, PTL
=============================================================================
