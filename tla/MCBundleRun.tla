---------------------------- MODULE MCBundleRun -----------------------------
(* Values for the constants of BundleRun.  The other classes have the plan *)
(* of "ok", which is that of "ap_deauth" without its last two steps.       *)
EXTENDS BundleRun

LongPlans == {"dhcp_no_server", "ap_full", "ap_deauth"}
PlainPlan == {"ok"}
ShortestPlan == {"dhcp_no_server"}
=============================================================================
