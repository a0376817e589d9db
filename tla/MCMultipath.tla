---------------------------- MODULE MCMultipath ----------------------------
(* One client with two further paths, and two clients, on one node or on   *)
(* two, with and without a further path.                                   *)
EXTENDS Multipath

MCSetups ==
    {[home |-> <<1>>, paths |-> 2, data |-> 3]}
        \cup {[home |-> h, paths |-> n, data |-> 1] :
                   h \in {<<1, 1>>, <<1, 2>>}, n \in 0..1}

(* Two clients on nodes of their own, and a further path. *)
MCTwoNodes == {[home |-> <<1, 2>>, paths |-> 1, data |-> 0]}
=============================================================================
