------------------------------ MODULE MCRouter ------------------------------
(* The router for TLC: identifiers, requests and engines are interchangeable *)
(* (the one CHOOSE the handlers make is from a singleton).                   *)
EXTENDS Router, TLC

RouterSymmetry ==
    Permutations(Ids) \union Permutations(Requests) \union Permutations(Engines)
=============================================================================
