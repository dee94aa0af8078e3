---------------------------- MODULE Algorithms -----------------------------
(***************************************************************************)
(* Sequential algorithms of algorithm/ that call themselves or fill tables:  *)
(* heap sort (heap_sort.py), the order of a chain of matrix products       *)
(* (matrix.py and matrix_chain_multiply_optical.py), and on graphs         *)
(* (graph.c) the depth-first search of bfs_dfs.c and the spanning trees of *)
(* kruscal.c.  A behaviour chooses an algorithm and its input and runs it  *)
(* in one step; the property compares with a reference.                    *)
(*                                                                         *)
(* Arrays start at 0 and vertices at 1, as in the code.  insert_edge gives *)
(* every edge the weight 0.  What the functions print as they go is left   *)
(* out, as are process_vertex_* and process_edge, which graph.h leaves to  *)
(* the user.  graph.c defines read_graph twice, with the same body.        *)
(***************************************************************************)
EXTENDS Integers, Sequences, FiniteSets, SequencesExt

CONSTANTS Vertices,   (* bound: vertices of a graph                        *)
          Edges       (* bound: edges of a graph                           *)

VARIABLES algorithm, input,   (* what runs on what                          *)
          output, ran         (* what it returns, once it has run           *)

algoVars == <<algorithm, input, output, ran>>

UpTo(a, b)     == [k \in 1 .. (b - a + 1) |-> a + k - 1]
DownTo(a, b)   == [k \in 1 .. (a - b + 1) |-> a - k + 1]
Swap(s, i, j)  == [s EXCEPT ![i] = s[j], ![j] = s[i]]
-----------------------------------------------------------------------------
(* heap_sort.py *)

RECURSIVE heapify(_, _, _)
heapify(arr, n, i) ==
  LET l == 2 * i + 1
      r == 2 * i + 2
      left    == IF l < n /\ arr[i] < arr[l] THEN l ELSE i
      largest == IF r < n /\ arr[left] < arr[r] THEN r ELSE left
  IN  IF largest # i THEN heapify(Swap(arr, i, largest), n, largest) ELSE arr

heap_sort(arr, arr_len) ==
  LET heap == FoldLeft(LAMBDA a, i : heapify(a, arr_len, i), arr,
                       DownTo(arr_len \div 2 - 1, 0))
  IN  FoldLeft(LAMBDA a, i : heapify(Swap(a, i, 0), i, 0), heap,
               DownTo(arr_len - 1, 1))
-----------------------------------------------------------------------------
(* The tables m and s of matrix.py and matrix_chain_multiply_optical.py,
   filled for longer and longer chains i .. j of the matrices 1 .. n - 1;
   the two programs differ in the number that stands for infinity. *)

TryCut(p, t, i, j, k) ==
  LET q == t.m[i, k] + t.m[k + 1, j] + p[i - 1] * p[k] * p[j]
  IN  IF q < t.m[i, j] THEN [t EXCEPT !.m[i, j] = q, !.s[i, j] = k] ELSE t

FillCell(p, t, i, j, max_int) ==
  FoldLeft(LAMBDA u, k : TryCut(p, u, i, j, k), [t EXCEPT !.m[i, j] = max_int],
           UpTo(i, j - 1))

FillTables(p, n, max_int) ==
  LET cells == (1 .. n - 1) \X (1 .. n - 1)
      empty == [m |-> [c \in cells |-> 0], s |-> [c \in cells |-> 0]]
      Row(t, l) == FoldLeft(LAMBDA u, i : FillCell(p, u, i, i + l - 1, max_int),
                            t, UpTo(1, n - l))
  IN  FoldLeft(Row, empty, UpTo(2, n - 1))

MatrixChainOrder(p, n) == FillTables(p, n, 1000000007)
calculate(p, n)        == FillTables(p, n, 2147483647)

(* The number of products in the order that print_optimal_parens prints. *)
RECURSIVE ParensCost(_, _, _, _)
ParensCost(p, s, i, j) ==
  IF i = j THEN 0
  ELSE ParensCost(p, s, i, s[i, j]) + ParensCost(p, s, s[i, j] + 1, j)
       + p[i - 1] * p[s[i, j]] * p[j]
-----------------------------------------------------------------------------
(* graph.c *)

initialize_graph(n) == [edges |-> [v \in 1 .. n |-> <<>>], nvertices |-> n,
                        nedges |-> 0]

InsertArc(g, x, y) == [g EXCEPT !.edges[x] = <<y>> \o @]

insert_edge(g, x, y, directed) ==
  LET h == IF directed THEN InsertArc(g, x, y)
                       ELSE InsertArc(InsertArc(g, x, y), y, x)
  IN  [h EXCEPT !.nedges = @ + 1]

read_graph(n, pairs, directed) ==
  FoldLeft(LAMBDA g, e : insert_edge(g, e[1], e[2], directed),
           initialize_graph(n), pairs)
-----------------------------------------------------------------------------
(* bfs_dfs.c *)

initialize_search(g) ==
  [discovered |-> {}, processed |-> {}, time |-> 0,
   parent |-> [v \in 1 .. g.nvertices |-> -1],
   entry_time |-> [v \in 1 .. g.nvertices |-> 0],
   exit_time |-> [v \in 1 .. g.nvertices |-> 0],
   classes |-> {}]

edge_classification(st, x, y) ==
  IF st.parent[y] = x THEN "TREE"
  ELSE IF y \notin st.processed THEN "BACK"
  ELSE IF st.entry_time[y] > st.entry_time[x] THEN "FORWARD" ELSE "CROSS"

(* The search of a directed graph; process_edge classifies the edge. *)
Classify(st, x, y) ==
  [st EXCEPT !.classes = @ \cup {edge_classification(st, x, y)}]

RECURSIVE dfs(_, _, _)
dfs(g, st, v) ==
  LET in == [st EXCEPT !.discovered = @ \cup {v}, !.time = @ + 1,
                       !.entry_time[v] = st.time + 1]
      Edge(s, y) == IF y \in s.discovered
                    THEN Classify(s, v, y)
                    ELSE dfs(g, Classify([s EXCEPT !.parent[y] = v], v, y), y)
      out == FoldLeft(Edge, in, g.edges[v])
  IN  [out EXCEPT !.processed = @ \cup {v}, !.time = @ + 1,
                  !.exit_time[v] = out.time + 1]

RECURSIVE find_path(_, _, _)
find_path(start, end, parents) ==
  IF start = end \/ end = -1 THEN <<start>>
  ELSE Append(find_path(start, parents[end], parents), end)
-----------------------------------------------------------------------------
(* kruscal.c *)

set_union_init(n) == [p |-> [i \in 1 .. n |-> i], size |-> [i \in 1 .. n |-> 1]]

RECURSIVE find(_, _)
find(s, x) == IF s.p[x] = x THEN x ELSE find(s, s.p[x])

same_component(s, s1, s2) == find(s, s1) = find(s, s2)

(* Fault: the vertices are joined, not their roots. *)
UnionOfVertices(s, s1, s2) ==
  [s EXCEPT !.size[s1] = @ + s.size[s2], !.p[s2] = s1]

union_sets(s, s1, s2) ==
  LET r1 == find(s, s1)
      r2 == find(s, s2)
      both == s.size[r1] + s.size[r2]
  IN  CASE r1 = r2                              -> s
        [] r1 # r2 /\ s.size[r1] >= s.size[r2] ->
             [s EXCEPT !.size[r1] = both, !.p[r2] = r1]
        [] OTHER -> [s EXCEPT !.size[r2] = both, !.p[r1] = r2]

to_edge_array(g) ==
  LET Later(i) == SelectSeq(g.edges[i], LAMBDA y : y > i)
      Pairs(i) == [k \in DOMAIN Later(i) |-> <<i, Later(i)[k]>>]
  IN  FoldLeft(LAMBDA e, i : e \o Pairs(i), <<>>, UpTo(1, g.nvertices))

KruskalEdge(st, e) ==
  IF same_component(st.s, e[1], e[2]) THEN st
  ELSE [s |-> union_sets(st.s, e[1], e[2]), tree |-> st.tree \cup {e}]

(* qsort leaves edges of equal weight, here all of them, in any order.  A
   loop is counted in nedges but is not in the array: such graphs, and those
   of more than MAXV + 1 edges, make kruskal read what nobody wrote. *)
Orders(e) == {[i \in DOMAIN e |-> e[f[i]]] : f \in Permutations(DOMAIN e)}

kruskal(g) ==
  {FoldLeft(KruskalEdge, [s |-> set_union_init(g.nvertices), tree |-> {}], e) :
     e \in Orders(to_edge_array(g))}
-----------------------------------------------------------------------------
(* An algorithm and its input, then its output. *)

SomeArrays(lengths, values) ==
  UNION {{[n |-> n, array |-> a] : a \in [0 .. n - 1 -> values]} : n \in lengths}

Pairs   == (1 .. Vertices) \X (1 .. Vertices)
NoLoops == {e \in Pairs : e[1] # e[2]}
Upward  == {e \in Pairs : e[1] < e[2]}
SomeGraphs(pairs, directed) ==
  {read_graph(Vertices, e, directed) :
     e \in UNION {[1 .. m -> pairs] : m \in 0 .. Edges}}

Inputs(a) ==
  CASE a = "heap_sort" -> SomeArrays(0 .. 5, 1 .. 3)
    [] a = "matrix"    -> SomeArrays(2 .. 5, 1 .. 3)
    [] a = "dfs"       -> SomeGraphs(NoLoops, TRUE)
    [] a = "kruskal"   -> SomeGraphs(Upward, FALSE)

Run(a, in) ==
  CASE a = "heap_sort" -> {heap_sort(in.array, in.n)}
    [] a = "matrix"    -> {calculate(in.array, in.n),
                           MatrixChainOrder(in.array, in.n)}
    [] a = "dfs"       -> {dfs(in, initialize_search(in), 1)}
    [] a = "kruskal"   -> kruskal(in)

Names == {"heap_sort", "matrix", "dfs", "kruskal"}

AlgoInit == /\ algorithm \in Names
            /\ input \in Inputs(algorithm)
            /\ output = <<>> /\ ran = FALSE

AlgoNext == /\ ~ran /\ ran' = TRUE
            /\ output' \in Run(algorithm, input)
            /\ UNCHANGED <<algorithm, input>>

AlgoSpec == AlgoInit /\ [][AlgoNext]_algoVars
-----------------------------------------------------------------------------
(* The references. *)

SortedCopy(a, b) ==
  /\ \A i, j \in DOMAIN b : i < j => b[i] <= b[j]
  /\ \A x \in {a[i] : i \in DOMAIN a} :
       Cardinality({i \in DOMAIN a : a[i] = x})
         = Cardinality({i \in DOMAIN b : b[i] = x})

(* The costs of all ways to put parentheses round the matrices i .. j. *)
RECURSIVE Costs(_, _, _)
Costs(p, i, j) ==
  IF i = j THEN {0}
  ELSE UNION {{x + y + p[i - 1] * p[k] * p[j] :
                 x \in Costs(p, i, k), y \in Costs(p, k + 1, j)} :
                k \in i .. j - 1}

Arcs(g) == {e \in Pairs : \E k \in DOMAIN g.edges[e[1]] : g.edges[e[1]][k] = e[2]}

(* The vertices at most k arcs away from one of the set s. *)
RECURSIVE Within(_, _, _)
Within(arcs, s, k) ==
  IF k = 0 THEN s
  ELSE LET r == Within(arcs, s, k - 1) IN r \cup {e[2] : e \in {a \in arcs : a[1] \in r}}

Reached(arcs, v)  == Within(arcs, {v}, Vertices)
After(arcs, v)    == Within(arcs, {e[2] : e \in {a \in arcs : a[1] = v}}, Vertices)

FindsCheapestOrder ==
  LET n == input.n - 1
      p == input.array
  IN  /\ output.m[1, n] = Min(Costs(p, 1, n))
      /\ output.m[1, n] = ParensCost(p, output.s, 1, n)

(* Two visits are nested when one vertex is below the other in the tree,
   else they are apart; a back edge is found just when there is a cycle. *)
SearchesDeep ==
  LET arcs == Arcs(input)
      Below(x, y) == \E i \in DOMAIN find_path(1, y, output.parent) :
                       find_path(1, y, output.parent)[i] = x
  IN
  /\ output.discovered = Reached(arcs, 1)
  /\ \A x, y \in output.discovered :
       LET in == output.entry_time  out == output.exit_time
       IN  IF Below(x, y) THEN in[x] <= in[y] /\ out[y] <= out[x]
           ELSE Below(y, x) \/ out[x] < in[y] \/ out[y] < in[x]
  /\ "BACK" \in output.classes
       <=> \E v \in output.discovered : v \in After(arcs, v)

SpansComponents ==
  LET arcs == Arcs(input) IN
  /\ \A x, y \in 1 .. Vertices :
       same_component(output.s, x, y) <=> y \in Reached(arcs, x)
  /\ \A x \in 1 .. Vertices :
       output.s.size[find(output.s, x)] = Cardinality(Reached(arcs, x))
  /\ output.tree \subseteq arcs
  /\ Cardinality(output.tree)
       = Vertices - Cardinality({Reached(arcs, x) : x \in 1 .. Vertices})

(* What each algorithm is for, on every input: heap sort returns the same
   numbers in order, the tables give the cheapest order of the products, dfs
   finds the cycles, and kruskal gives trees that connect what is connected. *)
AgreesWithReference ==
  ran =>
    CASE algorithm = "heap_sort" -> SortedCopy(input.array, output)
      [] algorithm = "matrix"    -> FindsCheapestOrder
      [] algorithm = "dfs"       -> SearchesDeep
      [] algorithm = "kruskal"   -> SpansComponents
=============================================================================
