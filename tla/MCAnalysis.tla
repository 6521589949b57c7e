---------------------------- MODULE MCAnalysis ----------------------------
(* Instance of Analysis for TLC: one operation of two pieces, two lines.   *)
EXTENDS Analysis, TLC

Two == [op \in Ops |-> 2]

Piece(op, i) == [op |-> op, from |-> i, to |-> i + 1]
Line(money, claims) == [money |-> money, claims |-> claims]

(* The first piece in line 1, its price unknown and known; no piece, or    *)
(* both, in line 2; one in each line, for the same sum as the first alone. *)
FiveForms ==
    {1 :> Line(NULL, {Piece(1, 0)}),
     1 :> Line(3, {Piece(1, 0)}),
     2 :> Line(1, {}),
     2 :> Line(1, {Piece(1, 0), Piece(1, 1)}),
     (1 :> Line(2, {Piece(1, 0)})) @@ (2 :> Line(1, {Piece(1, 1)}))}

Symmetry == Permutations(Requests) \cup Permutations(Keys) \cup Permutations(Groups)
===========================================================================
