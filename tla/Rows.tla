---------------------------------- MODULE Rows ----------------------------------
(***************************************************************************)
(* The list comprehension: the elements of a list that pass a test, in the *)
(* order they have there.                                                  *)
(***************************************************************************)
EXTENDS Integers, Sequences

RowsAt(rows, at) ==
    LET upTo[i \in 0..Len(rows)] ==
          IF i = 0 THEN <<>>
          ELSE IF i \in at THEN Append(upTo[i - 1], rows[i]) ELSE upTo[i - 1]
    IN upTo[Len(rows)]

Kept(rows, Test(_)) == RowsAt(rows, {i \in 1..Len(rows) : Test(rows[i])})
================================================================================
