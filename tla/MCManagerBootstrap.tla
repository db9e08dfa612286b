------------------------- MODULE MCManagerBootstrap -------------------------
(* The three image variables settings.Load reads, in the order it reads   *)
(* them, and WATCH_NAMESPACE read by main.                                *)
EXTENDS ManagerBootstrap

CONSTANTS DEVICE_PLUGIN_IMAGE, DRIVER_HABANA_IMAGE_BASENAME, NODE_METRICS_IMAGE

MCImageVars == <<DEVICE_PLUGIN_IMAGE, DRIVER_HABANA_IMAGE_BASENAME, NODE_METRICS_IMAGE>>
=============================================================================
