--------------------------- MODULE MC_ForwardTable ---------------------------
(* Small instances of ForwardTable: chains up to 1 -> 2 -> 3 -> 4, keys that *)
(* collide in every table, and a table that fills and grows.                *)
EXTENDS ForwardTable

MCCopies == [k \in Keys |-> CASE k = 1 -> {2, 5} [] k = 2 -> {3, 6} [] OTHER -> {4}]
MCHash   == [k \in Keys |-> IF k = 3 THEN 0 ELSE 1]
=============================================================================
