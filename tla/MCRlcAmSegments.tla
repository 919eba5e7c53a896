---------------------------- MODULE MCRlcAmSegments ----------------------------
(* All tables of up to two length indicators, one of three, and one of six,     *)
(* for which a grant can be smaller than what is kept for the table.            *)
EXTENDS RlcAmSegments

Tables ==
    UNION {[1 .. n -> {1, 4}] : n \in 0 .. 2}
      \union {<<1, 1, 8>>, <<1, 1, 1, 1, 1, 1>>}
=============================================================================
