------------------------------ MODULE Topsort -------------------------------
(***************************************************************************)
(* topsort of algorithm/topsort.c, one step for each turn of its loops, on *)
(* any directed graph: edges[x] is the list of the vertices that x has an  *)
(* edge to.                                                                *)
(***************************************************************************)
EXTENDS Queue, Sequences, FiniteSets

CONSTANTS nvertices,   (* the vertices are 1 .. nvertices                  *)
          Graphs       (* the graphs whose vertices are sorted             *)

VARIABLES edges,      (* the graph                                          *)
          indegree,   (* edges to a vertex that are not removed yet         *)
          zeroin,     (* vertices that no edge leads to                     *)
          i,          (* the counter of the loop that finds the first ones  *)
          sorted,     (* what is sorted                                     *)
          x, p        (* the vertex sorted last, the place in its list      *)

topVars == <<edges, indegree, zeroin, i, sorted, x, p>>

Vertices == 1 .. nvertices

(* An edge is the vertex that has it and its place in the list. *)
Arcs == UNION {{u} \X (1 .. Len(edges[u])) : u \in Vertices}

compute_indegrees ==
  [y \in Vertices |-> Cardinality({a \in Arcs : edges[a[1]][a[2]] = y})]

(* At first no vertex has a list to go through: p is past the end of one. *)
TopInit == /\ edges \in Graphs
           /\ indegree = compute_indegrees
           /\ zeroin = init_queue /\ i = 1
           /\ sorted = <<>>
           /\ x = 1 /\ p = Len(edges[1]) + 1

More == p <= Len(edges[x])

EnqueueFree == /\ i <= nvertices
               /\ zeroin' = IF indegree[i] = 0 THEN enqueue(zeroin, i) ELSE zeroin
               /\ i' = i + 1
               /\ UNCHANGED <<edges, indegree, sorted, x, p>>

NextVertex == /\ i > nvertices /\ ~More /\ ~empty_queue(zeroin)
              /\ x' = headq(zeroin) /\ zeroin' = dequeue(zeroin)
              /\ sorted' = Append(sorted, headq(zeroin))
              /\ p' = 1
              /\ UNCHANGED <<edges, indegree, i>>

RemoveEdge == /\ More
              /\ LET y == edges[x][p]
                 IN  /\ indegree' = [indegree EXCEPT ![y] = @ - 1]
                     /\ zeroin' = IF indegree[y] = 1
                                  THEN enqueue(zeroin, y) ELSE zeroin
              /\ p' = p + 1
              /\ UNCHANGED <<edges, i, sorted, x>>

TopNext == EnqueueFree \/ NextVertex \/ RemoveEdge

Sorted == i > nvertices /\ ~More /\ empty_queue(zeroin)

TopSpec == TopInit /\ [][TopNext]_topVars /\ WF_topVars(TopNext)
-----------------------------------------------------------------------------
Edge(u, y) == \E k \in 1 .. Len(edges[u]) : edges[u][k] = y

(* A walk of n vertices ends in y. *)
WalkTo(y, n) ==
  \E w \in [1 .. n -> Vertices] :
    w[n] = y /\ \A k \in 1 .. n - 1 : Edge(w[k], w[k + 1])

TopTypeOK ==
  /\ edges \in [Vertices -> Seq(Vertices)]
  /\ indegree \in [Vertices -> Nat]
  /\ zeroin \in [q : [0 .. QUEUESIZE -> {0} \cup Vertices],
                 first : 0 .. QUEUESIZE - 1, last : 0 .. QUEUESIZE - 1,
                 count : 0 .. QUEUESIZE]
  /\ i \in 1 .. nvertices + 1
  /\ sorted \in Seq(Vertices) /\ Len(sorted) <= nvertices
  /\ x \in Vertices /\ p \in 1 .. Len(edges[x]) + 1

(* Every vertex that no cycle leads to is sorted, once and after all that have
   an edge to it; a vertex that a cycle leads to is not (a walk of more than
   nvertices vertices goes through a cycle). *)
SortsVertices ==
  Sorted =>
    /\ \A j, k \in 1 .. Len(sorted) : sorted[j] = sorted[k] => j = k
    /\ \A k \in 1 .. Len(sorted) : \A u \in Vertices :
         Edge(u, sorted[k]) => \E j \in 1 .. k - 1 : sorted[j] = u
    /\ \A y \in Vertices :
         (\E k \in 1 .. Len(sorted) : sorted[k] = y) <=> ~WalkTo(y, nvertices + 1)

(* The loops end. *)
TopsortEnds == i > 1 ~> Sorted
=============================================================================
