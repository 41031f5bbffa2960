---------------------------- MODULE MCCrawlStore ----------------------------
EXTENDS CrawlStore

\* Two peers with the same list of protocols, in which one is empty; one has an
\* agent version, too, and knows the other, which knows nobody.  The crawler sets
\* no error bits.
MCVisitOf == [p \in Peer |->
  IF p = "p1" THEN [agent |-> "v", protocols |-> {"a", Empty}, neighbors |-> {"p2"}, bits |-> 0]
  ELSE [agent |-> Empty, protocols |-> {"a", Empty}, neighbors |-> {}, bits |-> 0]]
=============================================================================
