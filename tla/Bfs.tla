-------------------------------- MODULE Bfs --------------------------------
(***************************************************************************)
(* bfs of algorithm/bfs_dfs.c, one step for each turn of its two loops, on *)
(* any graph: edges[x] is the list of the vertices that x has an edge to.  *)
(* process_vertex_* and process_edge are left to the user (graph.h) and    *)
(* left out.                                                               *)
(***************************************************************************)
EXTENDS Queue, Sequences

CONSTANTS nvertices,   (* the vertices are 1 .. nvertices                  *)
          Graphs       (* the graphs that are searched                     *)

VARIABLES edges, start,            (* the graph, and where the search starts *)
          q,                       (* the vertices to visit                  *)
          v, p,                    (* the vertex visited, the place in its list *)
          discovered, processed,   (* the vertices found, and those visited  *)
          parent                   (* from where a vertex was found          *)

bfsVars == <<edges, start, q, v, p, discovered, processed, parent>>

Vertices == 1 .. nvertices

(* At first no vertex has a list to go through: p is past the end of one. *)
BfsInit == /\ edges \in Graphs /\ start \in Vertices
           /\ q = enqueue(init_queue, start)
           /\ discovered = {start} /\ processed = {}
           /\ parent = [x \in Vertices |-> -1]
           /\ v = start /\ p = Len(edges[start]) + 1

More == p <= Len(edges[v])

NextVertex == /\ ~More /\ ~empty_queue(q)
              /\ v' = headq(q) /\ q' = dequeue(q)
              /\ processed' = processed \cup {headq(q)}
              /\ p' = 1
              /\ UNCHANGED <<edges, start, discovered, parent>>

(* Fault: a vertex that was found but not visited yet is found again. *)
FindAgain(y) == IF y \in processed
                THEN UNCHANGED <<q, discovered, parent>>
                ELSE /\ q' = enqueue(q, y)
                     /\ discovered' = discovered \cup {y}
                     /\ parent' = [parent EXCEPT ![y] = v]

Find(y) == IF y \in discovered
           THEN UNCHANGED <<q, discovered, parent>>
           ELSE /\ q' = enqueue(q, y)
                /\ discovered' = discovered \cup {y}
                /\ parent' = [parent EXCEPT ![y] = v]

NextEdge == /\ More
            /\ Find(edges[v][p])
            /\ p' = p + 1
            /\ UNCHANGED <<edges, start, v, processed>>

BfsNext == NextVertex \/ NextEdge

Finished == ~More /\ empty_queue(q)

BfsSpec == BfsInit /\ [][BfsNext]_bfsVars /\ WF_bfsVars(BfsNext)
-----------------------------------------------------------------------------
Edge(x, y) == \E k \in 1 .. Len(edges[x]) : edges[x][k] = y

(* There is a path of n vertices from start to y. *)
PathTo(y, n) ==
  \E s \in [1 .. n -> Vertices] :
    /\ s[1] = start /\ s[n] = y
    /\ \A k \in 1 .. n - 1 : Edge(s[k], s[k + 1])

(* find_path(start, y, parent) prints such a path. *)
find_path(y, n) ==
  \E s \in [1 .. n -> Vertices] :
    /\ s[1] = start /\ s[n] = y
    /\ \A k \in 1 .. n - 1 : parent[s[k + 1]] = s[k] /\ Edge(s[k], s[k + 1])

BfsTypeOK ==
  /\ edges \in [Vertices -> Seq(Vertices)] /\ start \in Vertices
  /\ q \in [q : [0 .. QUEUESIZE -> {0} \cup Vertices], first : 0 .. QUEUESIZE - 1,
            last : 0 .. QUEUESIZE - 1, count : 0 .. QUEUESIZE]
  /\ v \in Vertices /\ p \in 1 .. Len(edges[v]) + 1
  /\ processed \subseteq discovered /\ discovered \subseteq Vertices
  /\ parent \in [Vertices -> {-1} \cup Vertices]

(* The search finds what can be reached, and for each vertex a path such that
   there is no shorter one; the queue is never too small for it. *)
FindsShortestPaths ==
  Finished =>
    /\ discovered = {y \in Vertices : \E n \in 1 .. nvertices : PathTo(y, n)}
    /\ \A y \in discovered : \E n \in 1 .. nvertices :
         find_path(y, n) /\ \A m \in 1 .. n - 1 : ~PathTo(y, m)

(* Once begun the search ends. *)
SearchEnds == processed # {} ~> Finished
=============================================================================
