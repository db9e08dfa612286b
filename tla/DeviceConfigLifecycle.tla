------------------------- MODULE DeviceConfigLifecycle -------------------------
(***************************************************************************)
(* What the DeviceConfig engine promises about one DeviceConfig and its    *)
(* driver Module, with no reconcile passes in it: each change the engine  *)
(* makes is one atomic step.                                               *)
(*                                                                         *)
(*  - the deletion guard (finalizer) is taken before a Module is deployed; *)
(*  - a Module is deployed only for a selector the user has written;       *)
(*  - a DeviceConfig marked for deletion loses its guard, and disappears,  *)
(*    only once its Module is gone;                                        *)
(*  - the status becomes Ready only while the Module realises the current  *)
(*    selector; it never returns to Unset.                                 *)
(***************************************************************************)
CONSTANTS DCs, UserSelectors, NilSelector, EmptySelector, DefaultSelector, NoChild

VARIABLES
    dc,      \* [DCs -> [phase, sel, guarded, status]]
    module   \* [DCs -> resolved selector of the deployed Module, or NoChild]

avars == <<dc, module>>

(* An unset or empty selector stands for the default one.                *)
Resolve(s) == IF s \in {NilSelector, EmptySelector} THEN DefaultSelector ELSE s

Exists(d) == dc[d].phase \in {"Live", "Deleting"}

Init ==
    /\ dc = [d \in DCs |-> [phase |-> "Absent", sel |-> NilSelector,
                            guarded |-> FALSE, status |-> "Unset"]]
    /\ module = [d \in DCs |-> NoChild]

(* The user.                                                              *)
Create(d) ==
    /\ dc[d].phase \in {"Absent", "Gone"}
    /\ \E s \in UserSelectors :
          dc' = [dc EXCEPT ![d] = [phase |-> "Live", sel |-> s,
                                   guarded |-> FALSE, status |-> "Unset"]]
    /\ UNCHANGED module

Edit(d) ==
    /\ Exists(d)
    /\ \E s \in UserSelectors \ {dc[d].sel} : dc' = [dc EXCEPT ![d].sel = s]
    /\ UNCHANGED module

Delete(d) ==
    /\ dc[d].phase = "Live"
    /\ dc' = [dc EXCEPT ![d].phase = IF dc[d].guarded THEN "Deleting" ELSE "Gone"]
    /\ UNCHANGED module

(* The engine.                                                            *)
Guard(d) ==
    /\ dc[d].phase = "Live"
    /\ ~dc[d].guarded
    /\ dc' = [dc EXCEPT ![d].guarded = TRUE]
    /\ UNCHANGED module

(* A pass may deploy the selector of a copy read before a later edit.     *)
Deploy(d) ==
    /\ Exists(d)
    /\ dc[d].guarded
    /\ \E s \in UserSelectors : module' = [module EXCEPT ![d] = Resolve(s)]
    /\ UNCHANGED dc

Undeploy(d) ==
    /\ dc[d].phase = "Deleting"
    /\ module' = [module EXCEPT ![d] = NoChild]
    /\ UNCHANGED dc

Release(d) ==
    /\ dc[d].phase = "Deleting"
    /\ module[d] = NoChild
    /\ dc' = [dc EXCEPT ![d].phase = "Gone", ![d].guarded = FALSE]
    /\ UNCHANGED module

SetReady(d) ==
    /\ dc[d].phase = "Live"
    /\ module[d] = Resolve(dc[d].sel)
    /\ dc' = [dc EXCEPT ![d].status = "Ready"]
    /\ UNCHANGED module

SetErrored(d) ==
    /\ Exists(d)
    /\ dc' = [dc EXCEPT ![d].status = "Errored"]
    /\ UNCHANGED module

(* Owner-reference garbage collection.                                    *)
Collect(d) ==
    /\ ~Exists(d)
    /\ module' = [module EXCEPT ![d] = NoChild]
    /\ UNCHANGED dc

Next ==
    \E d \in DCs :
        \/ Create(d) \/ Edit(d) \/ Delete(d)
        \/ Guard(d) \/ Deploy(d) \/ Undeploy(d) \/ Release(d)
        \/ SetReady(d) \/ SetErrored(d) \/ Collect(d)

Spec == Init /\ [][Next]_avars

=============================================================================
