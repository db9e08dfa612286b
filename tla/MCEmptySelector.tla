------------------------- MODULE MCEmptySelector -------------------------
(* A cluster with a node that lacks the device label: n1 and n2 carry    *)
(* it and form the default selector's nodes, n3 is picked only by the    *)
(* user's selector SelC.  A DeviceConfig may be written with no selector,*)
(* with an empty one, or with SelC.                                      *)
EXTENDS DeviceConfigController

CONSTANTS n1, n2, n3, SelC

MCSelectedBy == (DefaultSelector :> {n1, n2}) @@ (SelC :> {n3})
=============================================================================
