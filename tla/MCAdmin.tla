--------------------------------- MODULE MCAdmin ---------------------------------
(***************************************************************************)
(* Constant values for checking module Admin: the registry is walked       *)
(* through with the histograms before the counters, the order in which a   *)
(* page may show more requests than durations.                             *)
(***************************************************************************)
EXTENDS Admin

MCGatherOrder ==
    <<"gungho_request_duration_seconds", "gungho_requests_total", "gungho_config_reload_total">>
=================================================================================
