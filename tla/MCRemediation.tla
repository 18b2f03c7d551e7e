--------------------------- MODULE MCRemediation ----------------------------
(* Checkout has an endpoint of its own; "unknown" is sent to checkout.     *)
EXTENDS Remediation, TLC

CONSTANTS errors, slow, other, restart, scale, custom, look, fp,
          checkout, unknown, inc

MCKind ==
  errors :> "reset_error_rate" @@ slow :> "reset_latency"
  @@ other :> "reset_error_rate" @@ restart :> "restart_service"
  @@ scale :> "scale_deployment" @@ custom :> "custom"
  @@ look :> "log_only" @@ fp :> "mark_false_positive"

MCKindOf == [a \in Actions |-> MCKind[a]]

MCTarget == [a \in Actions |-> IF a = other THEN unknown ELSE checkout]

MCTicketOf == [a \in Actions |-> inc]

MCEndpoint == [n \in Names |-> checkout]

MCThreads == Permutations(Workers)
=============================================================================
