----------------------------- MODULE MCGateway -----------------------------
(* The policy of GatewayPolicy, and scores on both sides of its thresholds.*)
EXTENDS Gateway
MCConfidences == {24, 25, 79, 80}
=============================================================================
