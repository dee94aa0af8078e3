-------------------------------- MODULE Prim --------------------------------
(***************************************************************************)
(* prim of algorithm/prim.c on any graph, one step for each turn of its    *)
(* outer loop: edges[x] is the list of the vertices that x has an edge to. *)
(* main starts at vertex 1 and insert_edge gives every edge the weight 0.  *)
(***************************************************************************)
EXTENDS Integers, Sequences

CONSTANTS nvertices,   (* the vertices are 1 .. nvertices                  *)
          Graphs       (* the graphs that get a spanning tree              *)

VARIABLES edges,      (* the graph                                         *)
          intree,     (* the vertices in the tree                          *)
          distance,   (* the cost of adding a vertex to the tree           *)
          parent,     (* from where it would be added                      *)
          v           (* the vertex added next                             *)

primVars == <<edges, intree, distance, parent, v>>

Vertices == 1 .. nvertices
start    == 1
weight   == 0
MAXINT   == 100007

Edge(x, y) == \E k \in 1 .. Len(edges[x]) : edges[x][k] = y

PrimInit == /\ edges \in Graphs
            /\ intree = {} /\ v = start
            /\ distance = [x \in Vertices |-> IF x = start THEN 0 ELSE MAXINT]
            /\ parent = [x \in Vertices |-> -1]

(* What is nearer from v than from the rest of the tree. *)
Nearer == {w \in Vertices \ (intree \cup {v}) : Edge(v, w) /\ distance[w] > weight}

(* The vertices that can be added; the first of the nearest is added next. *)
Candidates == {w \in Vertices \ intree : distance[w] < MAXINT}
Nearest    == {w \in Candidates : \A y \in Candidates : distance[w] <= distance[y]}

AddVertex ==
  /\ v \notin intree
  /\ intree' = intree \cup {v}
  /\ distance' = [w \in Vertices |-> IF w \in Nearer THEN weight ELSE distance[w]]
  /\ parent' = [w \in Vertices |-> IF w \in Nearer THEN v ELSE parent[w]]
  /\ \/ Nearest' = {} /\ v' = 1
     \/ v' \in Nearest' /\ \A y \in Nearest' : v' <= y
  /\ UNCHANGED edges

Spanned == v \in intree

PrimSpec == PrimInit /\ [][AddVertex]_primVars /\ WF_primVars(AddVertex)
-----------------------------------------------------------------------------
PathTo(y, n) ==
  \E s \in [1 .. n -> Vertices] :
    /\ s[1] = start /\ s[n] = y
    /\ \A k \in 1 .. n - 1 : Edge(s[k], s[k + 1])

(* find_path(start, y, parent) prints such a path. *)
find_path(y, n) ==
  \E s \in [1 .. n -> Vertices] :
    /\ s[1] = start /\ s[n] = y
    /\ \A k \in 1 .. n - 1 : parent[s[k + 1]] = s[k] /\ Edge(s[k], s[k + 1])

PrimTypeOK == /\ edges \in [Vertices -> Seq(Vertices)]
              /\ intree \subseteq Vertices /\ v \in Vertices
              /\ distance \in [Vertices -> {0, MAXINT}]
              /\ parent \in [Vertices -> {-1} \cup Vertices]

(* The tree has the vertices that can be reached from the start, and the path
   of parents that main prints for them goes along edges of the graph. *)
SpansFromStart ==
  Spanned =>
    /\ intree = {y \in Vertices : \E n \in 1 .. nvertices : PathTo(y, n)}
    /\ \A y \in intree : \E n \in 1 .. nvertices : find_path(y, n)

(* The loop ends: every turn adds a vertex. *)
PrimEnds == intree # {} ~> Spanned
=============================================================================
