------------------------------- MODULE Lists -------------------------------
(***************************************************************************)
(* Array.filter as the services use it, to take an element off a list.     *)
(***************************************************************************)
EXTENDS Integers, Sequences

\* list.filter(e => e !== x), from the first element to the last.
Filtered(list, x) ==
  LET kept[n \in 0..Len(list)] ==
        IF n = 0 THEN <<>>
        ELSE IF list[n] = x THEN kept[n - 1]
        ELSE Append(kept[n - 1], list[n])
  IN kept[Len(list)]
=============================================================================
