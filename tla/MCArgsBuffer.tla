---------------------------- MODULE MCArgsBuffer ----------------------------
(* Parameter lists of up to 17 values of 4 or 8 bytes (16 flattened        *)
(* parameters and a return pointer), and at most one result.               *)
EXTENDS ArgsBuffer

Width == {4, 8}
ListsOf(n) == {[bytes |-> b, count |-> n] : b \in {w * n : w \in Width}}
MCParams == UNION {ListsOf(n) : n \in 0..17}
MCResults == ListsOf(0) \cup ListsOf(1)
=============================================================================
