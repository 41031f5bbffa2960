\* All calls on a queue of up to six keys with two values and priorities.
SPECIFICATION HeapSpec
CONSTANTS
  k1 = k1  k2 = k2  k3 = k3  k4 = k4  k5 = k5  k6 = k6
  Keys <- MCKeys
  Values = {u, v}
  Priorities = {0, 1}
  Absent = Absent
SYMMETRY Symmetry
INVARIANT HeapIsSound
PROPERTY ImplementsPriorityQueue
