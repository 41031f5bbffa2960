-------------------------------- MODULE Visit --------------------------------
(***************************************************************************)
(* The visit of one peer in a crawl: Crawler.Work starts a goroutine that  *)
(* connects and asks for neighbours (crawlP2P) and one that looks for an   *)
(* exposed Kubo API (crawlAPI), takes one result from each and merges      *)
(* them.  A goroutine whose context is done may close its channel without  *)
(* a result, and Work then merges the zero value.                          *)
(*                                                                         *)
(* Both API requests for an IP assign the same variable err, a data race:  *)
(* its reads and writes are separate steps here.                           *)
(***************************************************************************)
EXTENDS Naturals

CONSTANT MaxIPs    \* bound: distinct IP addresses of the peer

ASSUME VisitAssumption == MaxIPs \in Nat

VARIABLES
  cancelled,     \* the context of Work is done
  checkExposed,  \* CrawlerConfig.CheckExposed
  ips,           \* the number of distinct IPs in the addresses to dial
  wpc,           \* Work: waits for the p2p result, for the API result, or has returned
  got,           \* the p2p result it has received
  result,        \* the merged result
  ppc,           \* the goroutine of crawlP2P
  dirUp,         \* its temporary directory exists
  netUp,         \* its network is made and not stopped
  connected,     \* history: there was a connection to the peer
  p2p,           \* the result it is about to send
  apc,           \* the goroutine of crawlAPI
  ip,            \* the IP it has come to
  req,           \* its two requests
  resp,          \* idResp, rtResp: whether they are set
  err,           \* the variable err
  firstErr,      \* the error the errgroup has kept
  api,           \* the result it is about to send
  answered       \* history: which endpoints of which IPs have answered

workVars == <<wpc, got, result>>
p2pVars  == <<ppc, dirUp, netUp, connected, p2p>>
apiVars  == <<apc, ip, req, resp, err, firstErr, api, answered>>
cfgVars  == <<checkExposed, ips>>
visitVars == <<cancelled, cfgVars, workVars, p2pVars, apiVars>>

Endpoints == {"id", "routingTable"}
Errors == {"nil", "canceled", "other"}

P2PResult == [connErr : BOOLEAN, crawlErr : BOOLEAN, neighbors : BOOLEAN, agent : BOOLEAN,
              protocols : BOOLEAN]
APIResult == [attempted : BOOLEAN, id : BOOLEAN, routingTable : BOOLEAN]
Origins == {"none", "p2p", "api"}
CrawlResult == [connErr : BOOLEAN, crawlErr : BOOLEAN, neighbors : Origins,
                exposed : {"unknown", "no", "yes"}, agent : Origins, protocols : Origins]

\* What a receive from a closed channel returns.
ZeroP2P == [connErr |-> FALSE, crawlErr |-> FALSE, neighbors |-> FALSE, agent |-> FALSE,
            protocols |-> FALSE]
ZeroAPI == [attempted |-> FALSE, id |-> FALSE, routingTable |-> FALSE]
NoResult == [connErr |-> FALSE, crawlErr |-> FALSE, neighbors |-> "none", exposed |-> "unknown",
             agent |-> "none", protocols |-> "none"]

VisitTypeOK ==
  /\ cancelled \in BOOLEAN
  /\ checkExposed \in BOOLEAN
  /\ ips \in 0..MaxIPs
  /\ wpc \in {"p2p", "api", "done"}
  /\ got \in P2PResult
  /\ result \in CrawlResult
  /\ ppc \in {"start", "dir", "created", "wait", "query", "send", "cleanup", "exited"}
  /\ dirUp \in BOOLEAN
  /\ netUp \in BOOLEAN
  /\ connected \in BOOLEAN
  /\ p2p \in P2PResult
  /\ apc \in {"next", "wait", "send", "exited"}
  /\ ip \in 0..ips
  /\ req \in [Endpoints -> {"asking", "check", "wrap", "done"}]
  /\ resp \in [Endpoints -> BOOLEAN]
  /\ err \in Errors
  /\ firstErr \in Errors
  /\ api \in APIResult
  /\ answered \subseteq (1..ips) \X Endpoints

VisitInit ==
  /\ cancelled = FALSE
  /\ checkExposed \in BOOLEAN
  /\ ips \in 0..MaxIPs
  /\ wpc = "p2p" /\ got = ZeroP2P /\ result = NoResult
  /\ ppc = "start" /\ dirUp = FALSE /\ netUp = FALSE /\ connected = FALSE /\ p2p = ZeroP2P
  /\ apc = IF checkExposed THEN "next" ELSE "exited"
  /\ ip = 0
  /\ req = [e \in Endpoints |-> "done"] /\ resp = [e \in Endpoints |-> FALSE]
  /\ err = "nil" /\ firstErr = "nil" /\ api = ZeroAPI
  /\ answered = {}

-----------------------------------------------------------------------------
\* crawlP2P.

FailConnect ==
  /\ p2p' = [p2p EXCEPT !.connErr = TRUE]
  /\ ppc' = "send"
  /\ UNCHANGED <<cancelled, cfgVars, workVars, connected, apiVars>>

\* There is no address to dial, or no directory can be made: nothing is up yet.
CannotDial ==
  /\ ppc = "start"
  /\ FailConnect /\ UNCHANGED <<dirUp, netUp>>

MakeDir ==
  /\ ppc = "start"
  /\ dirUp' = TRUE
  /\ ppc' = "dir"
  /\ UNCHANGED <<cancelled, cfgVars, workVars, netUp, connected, p2p, apiVars>>

UnsupportedNetwork ==
  /\ ppc = "dir"
  /\ dirUp' = FALSE
  /\ FailConnect /\ UNCHANGED netUp

\* NewP2PNetwork.
CreateFails ==
  /\ ppc = "dir"
  /\ dirUp' = FALSE
  /\ FailConnect /\ UNCHANGED netUp

CreateNetwork ==
  /\ ppc = "dir"
  /\ netUp' = TRUE
  /\ ppc' = "created"
  /\ UNCHANGED <<cancelled, cfgVars, workVars, dirUp, connected, p2p, apiVars>>

\* P2PNetwork.Start fails with a part of the network running.
StartFails_LeakBug ==
  /\ ppc = "created"
  /\ dirUp' = FALSE
  /\ FailConnect /\ UNCHANGED netUp
StartFails ==
  /\ ppc = "created"
  /\ netUp' = FALSE /\ dirUp' = FALSE
  /\ FailConnect

StartNetwork ==
  /\ ppc = "created"
  /\ ppc' = "wait"
  /\ UNCHANGED <<cancelled, cfgVars, workVars, dirUp, netUp, connected, p2p, apiVars>>

\* The network has an outgoing connection: the peer.
PeerConnects ==
  /\ ppc = "wait" /\ ~connected
  /\ connected' = TRUE
  /\ UNCHANGED <<cancelled, cfgVars, workVars, ppc, dirUp, netUp, p2p, apiVars>>

\* connect returns without an error when there is a connection, and also when
\* there is none after ten seconds.
WaitEnds ==
  /\ ppc = "wait"
  /\ ppc' = "query"
  /\ UNCHANGED <<cancelled, cfgVars, workVars, dirUp, netUp, connected, p2p, apiVars>>

WaitCancelled ==
  /\ ppc = "wait" /\ cancelled
  /\ netUp' = FALSE /\ dirUp' = FALSE
  /\ FailConnect

\* queryConnectedPeer asks for neighbours, over a connection it opens if there
\* is none.  Of a connected peer the identify exchange may tell the agent, the
\* protocols, both or neither until the loop that waits for it gives up.
Query ==
  /\ ppc = "query"
  /\ \E ok, reached, agent, protocols \in BOOLEAN :
       /\ connected' = (connected \/ ok \/ reached)
       /\ \E some \in IF ok THEN BOOLEAN ELSE {FALSE} :
            p2p' = [connErr |-> FALSE, crawlErr |-> ~ok, neighbors |-> some,
                    agent |-> agent /\ connected', protocols |-> protocols /\ connected']
  /\ ppc' = "send"
  /\ UNCHANGED <<cancelled, cfgVars, workVars, dirUp, netUp, apiVars>>

\* "select { case resultCh <- result: case <-ctx.Done(): }"
SendP2P_NonBlockingBug ==
  /\ ppc = "send"
  /\ ppc' = "cleanup"
  /\ \/ wpc = "p2p" /\ got' = p2p /\ wpc' = "api" /\ UNCHANGED result
     \/ UNCHANGED workVars
  /\ UNCHANGED <<cancelled, cfgVars, dirUp, netUp, connected, p2p, apiVars>>
SendP2P ==
  /\ ppc = "send"
  /\ ppc' = "cleanup"
  /\ \/ wpc = "p2p" /\ got' = p2p /\ wpc' = "api" /\ UNCHANGED result
     \/ cancelled /\ UNCHANGED workVars
  /\ UNCHANGED <<cancelled, cfgVars, dirUp, netUp, connected, p2p, apiVars>>

\* The deferred calls: stop the network and remove its directory if connect has
\* returned a cleanup, that is, no error, and then close the channel.
Cleanup ==
  /\ ppc = "cleanup"
  /\ netUp' = (netUp /\ p2p.connErr) /\ dirUp' = (dirUp /\ p2p.connErr)
  /\ ppc' = "exited"
  /\ UNCHANGED <<cancelled, cfgVars, workVars, connected, p2p, apiVars>>

-----------------------------------------------------------------------------
\* crawlAPI: one IP after the other.

StartRequests ==
  /\ apc = "next" /\ ip < ips
  /\ ip' = ip + 1
  /\ req' = [e \in Endpoints |-> "asking"] /\ resp' = [e \in Endpoints |-> FALSE]
  /\ err' = "nil" /\ firstErr' = "nil"
  /\ apc' = "wait"
  /\ UNCHANGED <<cancelled, cfgVars, workVars, p2pVars, api, answered>>

NoMoreIPs ==
  /\ apc = "next" /\ ip = ips
  /\ api' = [ZeroAPI EXCEPT !.attempted = ips > 0]
  /\ apc' = "send"
  /\ UNCHANGED <<cancelled, cfgVars, workVars, p2pVars, ip, req, resp, err, firstErr, answered>>

\* A request comes back, or is cancelled or times out: it assigns its response
\* and err ...
Answer(e) ==
  /\ apc = "wait" /\ req[e] = "asking"
  /\ \E outcome \in IF cancelled THEN Errors ELSE Errors \ {"canceled"} :
       /\ err' = outcome
       /\ resp' = [resp EXCEPT ![e] = outcome = "nil"]
       /\ answered' = IF outcome = "nil" THEN answered \cup {<<ip, e>>} ELSE answered
  /\ req' = [req EXCEPT ![e] = "check"]
  /\ UNCHANGED <<cancelled, cfgVars, workVars, p2pVars, apc, ip, firstErr, api>>

\* ... tests err, which by now may be that of the other request ...
CheckErr(e) ==
  /\ apc = "wait" /\ req[e] = "check"
  /\ req' = [req EXCEPT ![e] = IF err = "nil" THEN "done" ELSE "wrap"]
  /\ UNCHANGED <<cancelled, cfgVars, workVars, p2pVars, apc, ip, resp, err, firstErr, api, answered>>

\* ... and reads it once more to return it.  The errgroup keeps the first error.
WrapErr(e) ==
  /\ apc = "wait" /\ req[e] = "wrap"
  /\ req' = [req EXCEPT ![e] = "done"]
  /\ firstErr' = IF firstErr # "nil" THEN firstErr ELSE IF err = "nil" THEN "other" ELSE err
  /\ UNCHANGED <<cancelled, cfgVars, workVars, p2pVars, apc, ip, resp, err, api, answered>>

BothReturned == apc = "wait" /\ \A e \in Endpoints : req[e] = "done"

\* errg.Wait returns no error: this is the result.
ApiFound ==
  /\ BothReturned /\ firstErr = "nil"
  /\ api' = [attempted |-> TRUE, id |-> resp["id"], routingTable |-> resp["routingTable"]]
  /\ apc' = "send"
  /\ UNCHANGED <<cancelled, cfgVars, workVars, p2pVars, ip, req, resp, err, firstErr, answered>>

\* It returns an error: go on with the next IP.
NextIP_GiveUpBug ==
  /\ BothReturned /\ firstErr = "other"
  /\ api' = [ZeroAPI EXCEPT !.attempted = TRUE]
  /\ apc' = "send"
  /\ UNCHANGED <<cancelled, cfgVars, workVars, p2pVars, ip, req, resp, err, firstErr, answered>>
NextIP ==
  /\ BothReturned /\ firstErr = "other"
  /\ apc' = "next"
  /\ UNCHANGED <<cancelled, cfgVars, workVars, p2pVars, ip, req, resp, err, firstErr, api, answered>>

\* It was cancelled: give up ("properly closes the channel").
GiveUp ==
  /\ BothReturned /\ firstErr = "canceled"
  /\ api' = [ZeroAPI EXCEPT !.attempted = TRUE]
  /\ apc' = "send"
  /\ UNCHANGED <<cancelled, cfgVars, workVars, p2pVars, ip, req, resp, err, firstErr, answered>>

-----------------------------------------------------------------------------
\* mergeResults.  The API serves for the neighbours if the peer has told none,
\* and for agent and protocols, both of them, if it has not told both.
AgentFromAPI(p, a) == a.id /\ ~(p.agent /\ p.protocols)

Merge(p, a) ==
  [connErr   |-> p.connErr,
   crawlErr  |-> p.crawlErr /\ ~p.neighbors,
   neighbors |-> IF p.neighbors THEN "p2p" ELSE IF a.routingTable THEN "api" ELSE "none",
   exposed   |-> IF ~a.attempted THEN "unknown" ELSE IF a.id \/ a.routingTable THEN "yes" ELSE "no",
   agent     |-> IF AgentFromAPI(p, a) THEN "api" ELSE IF p.agent THEN "p2p" ELSE "none",
   protocols |-> IF AgentFromAPI(p, a) THEN "api" ELSE IF p.protocols THEN "p2p" ELSE "none"]

\* Work receives the API's result, with "case <-ctx.Done()" beside the send ...
SendAPI ==
  /\ apc = "send"
  /\ apc' = "exited"
  /\ \/ wpc = "api" /\ result' = Merge(got, api) /\ wpc' = "done" /\ UNCHANGED got
     \/ cancelled /\ UNCHANGED workVars
  /\ UNCHANGED <<cancelled, cfgVars, p2pVars, ip, req, resp, err, firstErr, api, answered>>

\* ... or either channel is closed without one.
P2PClosed ==
  /\ wpc = "p2p" /\ ppc = "exited"
  /\ got' = ZeroP2P
  /\ wpc' = "api"
  /\ UNCHANGED <<cancelled, cfgVars, result, p2pVars, apiVars>>

APIClosed_WaitsBug ==
  /\ wpc = "api" /\ apc = "exited" /\ checkExposed
  /\ result' = Merge(got, ZeroAPI)
  /\ wpc' = "done"
  /\ UNCHANGED <<cancelled, cfgVars, got, p2pVars, apiVars>>
APIClosed ==
  /\ wpc = "api" /\ apc = "exited"
  /\ result' = Merge(got, ZeroAPI)
  /\ wpc' = "done"
  /\ UNCHANGED <<cancelled, cfgVars, got, p2pVars, apiVars>>

\* The engine's context is done, at any time during the visit.
CancelWork ==
  /\ ~cancelled /\ wpc # "done"
  /\ cancelled' = TRUE
  /\ UNCHANGED <<cfgVars, workVars, p2pVars, apiVars>>

-----------------------------------------------------------------------------
ConnectStep ==
  \/ CannotDial \/ MakeDir \/ UnsupportedNetwork \/ CreateFails \/ CreateNetwork
  \/ StartFails \/ StartNetwork \/ WaitEnds \/ WaitCancelled
P2PStep == ConnectStep \/ Query \/ SendP2P \/ Cleanup
APIStep == StartRequests \/ NoMoreIPs \/ ApiFound \/ NextIP \/ GiveUp \/ SendAPI
RequestStep(e) == Answer(e) \/ CheckErr(e) \/ WrapErr(e)
WorkStep == P2PClosed \/ APIClosed

VisitNext ==
  \/ P2PStep \/ PeerConnects
  \/ APIStep
  \/ \E e \in Endpoints : RequestStep(e)
  \/ WorkStep
  \/ CancelWork

VisitSpec == VisitInit /\ [][VisitNext]_visitVars

\* The goroutines run; requests, queries and the wait for a connection have
\* timeouts.  No peer need connect, and nothing need be cancelled.
VisitFairness ==
  /\ WF_visitVars(P2PStep) /\ WF_visitVars(APIStep) /\ WF_visitVars(WorkStep)
  /\ \A e \in Endpoints : WF_visitVars(RequestStep(e))

VisitFairSpec == VisitSpec /\ VisitFairness

-----------------------------------------------------------------------------
\* Whichever step of connect or crawlP2P fails or is cancelled, no network and
\* no directory outlives the goroutine, and one whose connect has failed has
\* released both before it waits for Work to take the result.
NetworkReleased ==
  /\ VisitTypeOK
  /\ (ppc = "exited" \/ p2p.connErr) => ~netUp /\ ~dirUp

\* A report holds only what was found: an error that has occurred, and
\* neighbours, an agent and protocols the peer or one of its IPs has told.
NothingInvented ==
  /\ result.connErr => p2p.connErr
  /\ result.crawlErr => p2p.crawlErr
  /\ result.neighbors = "p2p" => p2p.neighbors
  /\ result.neighbors = "api" => \E i \in 1..ips : <<i, "routingTable">> \in answered
  /\ result.agent = "p2p" => p2p.agent
  /\ result.protocols = "p2p" => p2p.protocols
  /\ result.agent = "api" \/ result.protocols = "api" => \E i \in 1..ips : <<i, "id">> \in answered

\* It holds all that was found.  A success had a connection, although connect
\* may return without one.  Agent and protocols are the peer's if it has told
\* both; otherwise they are both the API's, or all that the peer has told.
AllReported ==
  /\ result.connErr = p2p.connErr /\ result.crawlErr = p2p.crawlErr
  /\ ~result.connErr /\ ~result.crawlErr => connected
  /\ p2p.neighbors => result.neighbors = "p2p"
  /\ (p2p.agent /\ p2p.protocols) => result.agent = "p2p" /\ result.protocols = "p2p"
  /\ result.agent = "api" <=> result.protocols = "api"
  /\ p2p.agent => result.agent # "none"
  /\ p2p.protocols => result.protocols # "none"

\* Nothing in the report of a visit is made up, and one that is not cancelled
\* leaves nothing out, whichever goroutine is faster.
VisitIsReported ==
  wpc = "done" => NothingInvented /\ (~cancelled => AllReported)

\* An API that answers on both endpoints of an IP is found whatever the other
\* IPs do and whichever request is faster, none is made up, and a peer is
\* called unexposed only after all its IPs were asked.
ExposureIsReal ==
  (wpc = "done" /\ ~cancelled) =>
    /\ (\E i \in 1..ips : {i} \X Endpoints \subseteq answered) => result.exposed = "yes"
    /\ result.exposed = "yes" => answered # {}
    /\ result.exposed = "no" => ip = ips
    /\ result.exposed = "unknown" <=> ~checkExposed \/ ips = 0

\* Every visit ends and leaves no goroutine behind.
VisitEnds == <>(wpc = "done" /\ ppc = "exited" /\ apc = "exited")
=============================================================================
