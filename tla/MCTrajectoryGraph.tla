------------------------- MODULE MCTrajectoryGraph --------------------------
(***************************************************************************)
(* Graphs: four rows that link up to four points in every way, a repeated  *)
(* id and an unknown one included.  Routes: four points of a grid with     *)
(* angles on both sides of 20 degrees, an id visited twice, standstills.   *)
(* Texts: up to three lines with blanks, headers and rows that do not      *)
(* parse.                                                                  *)
(***************************************************************************)
EXTENDS TrajectoryGraph, SequencesExt

MCRow(id, x, y, next) == [id |-> id, x |-> x, y |-> y, next |-> next]

Links(ids) == {MCRow(id, id, 0, next) : id \in ids, next \in {NoNext, 1, 2, 3, 4}}
GraphFiles == {<<a, b, c, d>> : a \in Links({1}), b \in Links({2}),
                                c \in Links({3}), d \in Links({4, 1})}

Steps(ids) == {MCRow(id, p[1], p[2], NoNext) :
                  id \in ids, p \in {<<0, 0>>, <<3, 0>>, <<6, 1>>, <<5, 1>>, <<0, 2>>}}
RouteFiles == {<<a, b, c, d>> : a \in Steps({1}), b \in Steps({2}),
                                c \in Steps({3}), d \in Steps({4, 1})}

TextFiles ==
    BoundedSeq({Blank, Header, MCRow(1, 0, 0, 2), MCRow(2, 0, 1, 1),
                MCRow(BadText, 0, 0, NoNext), MCRow(1, BadText, 0, 2),
                MCRow(1, 1, 0, BadText)}, 3)

MCFiles == GraphFiles \cup RouteFiles \cup TextFiles
=============================================================================
