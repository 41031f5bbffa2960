--------------------------- MODULE PriorityQueue ---------------------------
(***************************************************************************)
(* What core.PriorityQueue promises: a map from unique keys to values with *)
(* a priority each, of which Peek and Pop give one of highest priority.    *)
(***************************************************************************)
EXTENDS Integers

CONSTANTS Keys, Values, Priorities, Absent

VARIABLES
  content,   \* key -> value and priority
  result     \* what the last call returned

pqVars == <<content, result>>

Held == DOMAIN content
Highest == {k \in Held : \A j \in Held : content[k].priority >= content[j].priority}
Without(k) == [j \in Held \ {k} |-> content[j]]
With(k, v, p) == [j \in Held \cup {k} |-> IF j = k THEN [value |-> v, priority |-> p]
                                                   ELSE content[j]]

PQInit == content = [k \in {} |-> Absent] /\ result = Absent

\* Push keeps what is there: the first value of a key wins.
PQPush(k, v, p) ==
  /\ content' = IF k \in Held THEN content ELSE With(k, v, p)
  /\ result' = (k \notin Held)

PQUpdate(k, v, p) ==
  /\ content' = IF k \in Held THEN With(k, v, p) ELSE content
  /\ result' = (k \in Held)

PQUpdatePriority(k, p) ==
  /\ content' = IF k \in Held THEN With(k, content[k].value, p) ELSE content
  /\ result' = (k \in Held)

PQDrop(k) ==
  /\ content' = IF k \in Held THEN Without(k) ELSE content
  /\ result' = (k \in Held)

PQPop ==
  \/ /\ Held = {}
     /\ result' = Absent
     /\ UNCHANGED content
  \/ \E k \in Highest :
       /\ content' = Without(k)
       /\ result' = content[k].value

PQPeek ==
  /\ IF Held = {} THEN result' = Absent ELSE \E k \in Highest : result' = content[k].value
  /\ UNCHANGED content

PQNext ==
  \/ \E k \in Keys, v \in Values, p \in Priorities : PQPush(k, v, p) \/ PQUpdate(k, v, p)
  \/ \E k \in Keys, p \in Priorities : PQUpdatePriority(k, p)
  \/ \E k \in Keys : PQDrop(k)
  \/ PQPop
  \/ PQPeek

PQSpec == PQInit /\ [][PQNext]_pqVars
=============================================================================
