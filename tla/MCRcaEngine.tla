----------------------------- MODULE MCRcaEngine -----------------------------
(* A ticket of checkout while payment is sick, where the rules are sure, or *)
(* while nothing is to be seen and Tempo is garbled, where they are not.    *)
EXTENDS RcaEngine, MCShop

MCServiceOf == [i \in Incidents |-> "checkout"]

MCShown ==
  [cascade |->
     [FineDay EXCEPT !.rates["checkout"].err = 20, !.rates["payment"].err = 40,
                    !.logs["payment"] = <<Row({"timeout"}, TRUE, "payment", "t2", "none")>>],
   blind |-> [FineDay EXCEPT !.garbled = {"tempo"}]]

Model(confidence) ==
  [causes |-> <<[kind |-> "model", service |-> "checkout"]>>,
   confidence |-> confidence, actions |-> <<Action({"check"}, "checkout")>>,
   trace |-> "none"]

MCAnswers == {Model(35), Model(80)}
=============================================================================
