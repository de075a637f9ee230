------------------------------- MODULE MCLink -------------------------------
(***************************************************************************)
(* Channel sets for the runs of Link.                                      *)
(***************************************************************************)
EXTENDS Link, TLC

OneOrdered == 0 :> "ReliableOrdered"
OneBlock == 0 :> 1

AllKinds == (0 :> "ReliableOrdered") @@ (1 :> "ReliableUnordered")
            @@ (2 :> "UnreliableSequenced") @@ (3 :> "Unreliable")
OneBlockEach == [ch \in Chan |-> 1]

=============================================================================
