-------------------------------- MODULE Lists --------------------------------
(***************************************************************************)
(* Array.prototype.filter and flatMap, written as recursive functions,     *)
(* which can be reasoned about.                                            *)
(***************************************************************************)
EXTENDS Naturals, Sequences

\* The elements of list s that are in set S, in their order.
Kept(s, S) ==
  LET kept[n \in 0..Len(s)] ==
        IF n = 0 THEN <<>>
        ELSE IF s[n] \in S THEN Append(kept[n - 1], s[n]) ELSE kept[n - 1]
  IN  kept[Len(s)]

\* f[e] for each element e of list s, one after the other.
FlatMap(s, f) ==
  LET flat[n \in 0..Len(s)] == IF n = 0 THEN <<>> ELSE flat[n - 1] \o f[s[n]]
  IN  flat[Len(s)]
==============================================================================
