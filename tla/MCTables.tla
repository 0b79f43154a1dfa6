------------------------------- MODULE MCTables -------------------------------
(* FileCache and Tables with addresses of 12 bits: networks of length 10 and *)
(* 2, one of no valid length, one of the other family, and the addresses at  *)
(* their edges.                                                              *)
EXTENDS Tables
Lines ==
  <<[net |-> 2564, bits |-> 10, family |-> "same"],
    [net |-> 1024, bits |-> 2, family |-> "same"],
    [net |-> 0, bits |-> 64, family |-> "same"],
    [net |-> 0, bits |-> 0, family |-> "other"]>>
Edges == {0, 1023, 1024, 2047, 2048, 2563, 2564, 2567, 2568, 4095}
===============================================================================
