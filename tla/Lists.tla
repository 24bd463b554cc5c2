--------------------------------- MODULE Lists ---------------------------------
(***************************************************************************)
(* What the editor's loops over lists compute, as recursive functions.     *)
(***************************************************************************)
EXTENDS Naturals, Sequences

(* The elements of a list that are in a set, in their order.               *)
Only(list, kept) ==
    LET only[i \in 0 .. Len(list)] ==
            IF i = 0 THEN <<>>
            ELSE IF list[i] \in kept THEN Append(only[i - 1], list[i]) ELSE only[i - 1]
    IN  only[Len(list)]

(* What a pass for each element of a list makes of a start.                *)
Loop(list, start, pass) ==
    LET made[i \in 0 .. Len(list)] ==
            IF i = 0 THEN start ELSE pass[made[i - 1]][list[i]]
    IN  made[Len(list)]
================================================================================
