----------------------------- MODULE MCProbing -----------------------------
\* One peer, since peers share no row; a monitor with a dialer and two writers
\* and a crawl with one writer, which finds the peer at two addresses in turn.
EXTENDS Probing
MCGrace == <<1, 2, 3>>
MCCrawlAddrs == {{"a"}, {"b"}}
=============================================================================
