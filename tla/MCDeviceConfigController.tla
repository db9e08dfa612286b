--------------------- MODULE MCDeviceConfigController ---------------------
(* Two DeviceConfigs and two nodes: n1 and n2 both carry the device       *)
(* label, SelA picks n1 and SelB picks n2, so an unset selector overlaps  *)
(* every other one while SelA and SelB partition the nodes.              *)
EXTENDS DeviceConfigController

CONSTANTS n1, n2, SelA, SelB

MCSelectedBy == (DefaultSelector :> {n1, n2}) @@ (SelA :> {n1}) @@ (SelB :> {n2})
=============================================================================
