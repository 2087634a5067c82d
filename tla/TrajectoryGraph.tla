--------------------------- MODULE TrajectoryGraph --------------------------
(***************************************************************************)
(* The trajectory program: parse_trajectory_csv and                        *)
(* TrajectoryGraph::summarize of trajectory_graph.cpp, as main of          *)
(* trajectory_graph_cli.cpp calls them.                                    *)
(*                                                                         *)
(* Coordinates are integers, so that angles are compared exactly.  The     *)
(* search visits points_, an unordered_map, in any order.  Distances,      *)
(* which are sums of square roots, are left out.                           *)
(***************************************************************************)
EXTENDS Integers, Sequences, FiniteSets, FiniteSetsExt

CONSTANTS
    Files,          \* the sequences of lines a file may hold
    Blank, Header,  \* lines that are no rows
    BadText,        \* a text std::stoull or std::stod throws on
    NoNext          \* an empty next column or -1

Row == [id : Nat \cup {BadText}, x : Int \cup {BadText}, y : Int \cup {BadText},
        next : Nat \cup {BadText, NoNext}]

ASSUME TrajectoryConstants == Files \subseteq Seq({Blank, Header} \cup Row)

VARIABLES
    file,
    state,                      \* "parse", "edges", "search", "exit0" or "exit1"
    line, first_line,
    points_, adjacency_, edges_,
    route, pending_edges,
    unvisited,                  \* points the outer loop has not come to yet
    visited, components, pending,
    neighbors,                  \* of the point last popped, those still to see
    summary                     \* what main prints, empty before

parser == <<line, first_line, route, pending_edges>>
graph  == <<points_, adjacency_, edges_>>
search == <<unvisited, visited, components, pending, neighbors>>
vars   == <<file, state, parser, graph, search, summary>>

Init ==
    /\ file \in Files
    /\ state = "parse" /\ line = 0 /\ first_line = TRUE
    /\ points_ = <<>> /\ adjacency_ = <<>> /\ edges_ = <<>>
    /\ route = <<>> /\ pending_edges = <<>>
    /\ unvisited = {} /\ visited = {} /\ components = 0
    /\ pending = <<>> /\ neighbors = <<>>
    /\ summary = <<>>

node_ids == DOMAIN points_
has_point(id) == id \in node_ids

\* Insert or overwrite, as map[key] = value does.
Put(f, key, value) == [k \in DOMAIN f \cup {key} |-> IF k = key THEN value ELSE f[k]]
-----------------------------------------------------------------------------
(* parse_trajectory_csv.                                                   *)

OpenFails ==
    /\ state = "parse" /\ line = 0
    /\ state' = "exit1"
    /\ UNCHANGED <<file, parser, graph, search, summary>>

Reading == state = "parse" /\ line < Len(file)
NextLine == file[line + 1]

SkipLine ==
    /\ Reading
    /\ NextLine = Blank \/ (NextLine = Header /\ first_line)
    /\ line' = line + 1
    /\ first_line' = (first_line /\ NextLine = Blank)
    /\ UNCHANGED <<file, state, route, pending_edges, graph, search, summary>>

RowParses(row) == BadText \notin {row.id, row.x, row.y, row.next}

\* Mutant: emplace, which does not overwrite the point of an earlier row.
add_point_KeepsFirst(row) ==
    /\ points_' = IF has_point(row.id) THEN points_
                  ELSE Put(points_, row.id, <<row.x, row.y>>)
    /\ adjacency_' = IF has_point(row.id) THEN adjacency_
                     ELSE Put(adjacency_, row.id, <<>>)

add_point(row) ==
    /\ points_' = Put(points_, row.id, <<row.x, row.y>>)
    /\ adjacency_' = IF row.id \in DOMAIN adjacency_ THEN adjacency_
                     ELSE Put(adjacency_, row.id, <<>>)

AddRow ==
    /\ Reading /\ NextLine \notin {Blank, Header} /\ RowParses(NextLine)
    /\ add_point(NextLine)
    /\ route' = Append(route, NextLine.id)
    /\ pending_edges' = IF NextLine.next = NoNext THEN pending_edges
                        ELSE Append(pending_edges, <<NextLine.id, NextLine.next>>)
    /\ line' = line + 1 /\ first_line' = FALSE
    /\ UNCHANGED <<file, state, edges_, search, summary>>

RejectRow ==
    /\ Reading /\ NextLine # Blank
    /\ IF NextLine = Header THEN ~first_line ELSE ~RowParses(NextLine)
    /\ state' = "exit1"
    /\ UNCHANGED <<file, parser, graph, search, summary>>

EndOfFile ==
    /\ state = "parse" /\ line = Len(file)
    /\ state' = "edges"
    /\ UNCHANGED <<file, parser, graph, search, summary>>

\* Mutant: the edge is entered on one side only.
Linked_OneWay(from, to) == Put(adjacency_, from, Append(adjacency_[from], to))

Linked(from, to) ==
    LET there == Put(adjacency_, from, Append(adjacency_[from], to)) IN
    Put(there, to, Append(there[to], from))

\* add_edge of the next pending edge.
AddEdge ==
    /\ state = "edges" /\ Len(edges_) < Len(pending_edges)
    /\ LET edge == pending_edges[Len(edges_) + 1] IN
       /\ has_point(edge[1]) /\ has_point(edge[2])
       /\ edges_' = Append(edges_, edge)
       /\ adjacency_' = Linked(edge[1], edge[2])
    /\ UNCHANGED <<file, state, parser, points_, search, summary>>

UnknownPoint ==
    /\ state = "edges" /\ Len(edges_) < Len(pending_edges)
    /\ LET edge == pending_edges[Len(edges_) + 1] IN
       ~(has_point(edge[1]) /\ has_point(edge[2]))
    /\ state' = "exit1"
    /\ UNCHANGED <<file, parser, graph, search, summary>>

EdgesDone ==
    /\ state = "edges" /\ Len(edges_) = Len(pending_edges)
    /\ state' = "search" /\ unvisited' = node_ids
    /\ UNCHANGED <<file, parser, graph, visited, components, pending, neighbors, summary>>
-----------------------------------------------------------------------------
(* connected_components.                                                   *)

\* An iteration of the outer loop, once the queue of the last one is empty.
Visit(id) ==
    /\ state = "search" /\ pending = <<>> /\ neighbors = <<>>
    /\ unvisited' = unvisited \ {id}
    /\ IF id \in visited THEN UNCHANGED <<visited, components, pending>>
       ELSE /\ components' = components + 1
            /\ pending' = <<id>> /\ visited' = visited \cup {id}
    /\ UNCHANGED <<file, state, parser, graph, neighbors, summary>>

\* The inner loop takes the front off the queue; add_point has entered every
\* point in adjacency_.
Expand ==
    /\ state = "search" /\ neighbors = <<>> /\ pending # <<>>
    /\ pending' = Tail(pending) /\ neighbors' = adjacency_[Head(pending)]
    /\ UNCHANGED <<file, state, parser, graph, unvisited, visited, components, summary>>

\* One neighbor of it: a new one is visited and queued.
SeeNeighbor ==
    /\ state = "search" /\ neighbors # <<>>
    /\ neighbors' = Tail(neighbors)
    /\ IF Head(neighbors) \in visited THEN UNCHANGED <<visited, pending>>
       ELSE /\ visited' = visited \cup {Head(neighbors)}
            /\ pending' = Append(pending, Head(neighbors))
    /\ UNCHANGED <<file, state, parser, graph, unvisited, components, summary>>
-----------------------------------------------------------------------------
(* The other parts of the summary.                                         *)

disconnected_nodes == {id \in node_ids : adjacency_[id] = <<>>}

Minus(p, q) == <<p[1] - q[1], p[2] - q[2]>>
Dot(v, w) == v[1] * w[1] + v[2] * w[2]

\* acos(v1.v2 / (|v1| |v2|)) >= 20 degrees, and 0 for a segment of length 0.
\* The square of the cosine of 20 degrees is 0.883022.
IsTurn(a, b, c) ==
    LET v1 == Minus(b, a)
        v2 == Minus(c, b)
        d  == Dot(v1, v2)
        squares == Dot(v1, v1) * Dot(v2, v2) IN
    /\ squares # 0
    /\ d <= 0 \/ 1000000 * d * d <= 883022 * squares

\* Every id of the route is a point, so the exception for one is not reached.
MiddlePoints == 2..(Len(route) - 1)

turn_transitions ==
    Cardinality({i \in MiddlePoints : IsTurn(points_[route[i - 1]],
                                             points_[route[i]], points_[route[i + 1]])})

Summarize ==
    /\ state = "search" /\ pending = <<>> /\ neighbors = <<>> /\ unvisited = {}
    /\ summary' = << [node_count |-> Cardinality(node_ids), edge_count |-> Len(edges_),
                      connected_components |-> components,
                      disconnected_segments |-> IF components > 0 THEN components - 1 ELSE 0,
                      turn_transitions |-> turn_transitions] >>
    /\ state' = "exit0"
    /\ UNCHANGED <<file, parser, graph, search>>

Next ==
    \/ OpenFails \/ SkipLine \/ AddRow \/ RejectRow \/ EndOfFile
    \/ AddEdge \/ UnknownPoint \/ EdgesDone
    \/ (\E id \in unvisited : Visit(id)) \/ Expand \/ SeeNeighbor
    \/ Summarize

Spec == Init /\ [][Next]_vars
-----------------------------------------------------------------------------
(* Properties.                                                             *)

TextLines == {k \in DOMAIN file : file[k] # Blank}
DataLines ==
    {k \in TextLines : ~(file[k] = Header /\ \A j \in TextLines : k <= j)}

\* The graph that the rows of the file describe, each edge in both directions.
FileGraph ==
    LET out == {<<file[k].id, file[k].next>> :
                   k \in {j \in DataLines : file[j].next # NoNext}} IN
    [node |-> {file[k].id : k \in DataLines},
     edge |-> out \cup {<<e[2], e[1]>> : e \in out}]

\* A set that no edge of the file leaves, and the points connected to n: those
\* in every such set that n is in.
Closed(S) == \A e \in FileGraph.edge : e[1] \in S => e[2] \in S
Class(n) ==
    {m \in FileGraph.node : \A S \in SUBSET FileGraph.node : n \in S /\ Closed(S) => m \in S}

\* connected_components counts the classes of connected points of the file,
\* whatever order the hash table is walked in and wherever in a class the
\* search starts, and disconnected_nodes are the points without any edge.
ComponentsAreClasses ==
    summary # <<>> =>
        LET classes == {Class(n) : n \in FileGraph.node} IN
        /\ summary[1].connected_components = Cardinality(classes)
        /\ summary[1].disconnected_segments =
              IF classes = {} THEN 0 ELSE Cardinality(classes) - 1
        /\ disconnected_nodes =
              {n \in FileGraph.node : \A m \in FileGraph.node : <<n, m>> \notin FileGraph.edge}

\* Where the file puts a point: in the last row with its id.
Position(id) ==
    LET last == file[Max({k \in DataLines : file[k].id = id})] IN <<last.x, last.y>>

\* The angle between two segments of the route by its tangent: the square of
\* the tangent of 20 degrees is 0.116978 / 0.883022.
Bends(a, b, c) ==
    LET v == Minus(b, a)
        w == Minus(c, b)
        cross == v[1] * w[2] - v[2] * w[1] IN
    /\ a # b /\ b # c
    /\ Dot(v, w) <= 0 \/ 883022 * cross * cross >= 116978 * Dot(v, w) * Dot(v, w)

\* The ids of the rows, one after another.
Path == [i \in 1..Cardinality(DataLines) |->
            file[CHOOSE k \in DataLines : Cardinality({j \in DataLines : j <= k}) = i].id]

Turns == {i \in 2..(Len(Path) - 1) :
             Bends(Position(Path[i - 1]), Position(Path[i]), Position(Path[i + 1]))}

\* A summary is printed only for a file in which every row parses and every
\* next names a row above or below it, and it counts that file: rows with the
\* same id are one point, at the place the last of them says for all edges and
\* turns, and each visit of it is a step of the route.
SummaryMatchesFile ==
    summary # <<>> =>
        /\ \A k \in DataLines :
              /\ file[k] # Header /\ RowParses(file[k])
              /\ file[k].next \in FileGraph.node \cup {NoNext}
        /\ summary[1].node_count = Cardinality(FileGraph.node)
        /\ summary[1].edge_count = Cardinality({k \in DataLines : file[k].next # NoNext})
        /\ summary[1].turn_transitions = Cardinality(Turns)
=============================================================================
