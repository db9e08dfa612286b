--------------------------- MODULE ManagerBootstrap ---------------------------
(***************************************************************************)
(* Start-up of the operator process (main.go, main) and the settings       *)
(* loader it reaches through SetupWithManager (internal/settings, Load).   *)
(* The process runs its steps in order; each call that can fail either     *)
(* succeeds or ends the process with exit code 1.  The environment is any  *)
(* assignment of the variables the process reads: unset, set to the empty  *)
(* string, or set to an image reference.                                  *)
(***************************************************************************)
EXTENDS Naturals, Sequences, SequencesExt

CONSTANTS
    ImageVars,     \* <<DEVICE_PLUGIN_IMAGE, DRIVER_HABANA_IMAGE_BASENAME, NODE_METRICS_IMAGE>>
    NamespaceVar   \* WATCH_NAMESPACE

EnvValues == {"Unset", "Empty", "Value"}
Vars == ToSet(ImageVars) \cup {NamespaceVar}
Steps == {"GetNamespace", "NewManager", "SetupWithManager", "AddChecks",
          "Start", "Running", "Exited"}

ASSUME /\ IsInjective(ImageVars) /\ Len(ImageVars) = 3
       /\ NamespaceVar \notin ToSet(ImageVars)

VARIABLES
    env,        \* the process environment
    pc,         \* the next step of main
    namespace,  \* the Namespace option of the manager: "All" or "Watched"
    settings,   \* [image variable -> "Empty" | "Value"]: settings.Settings
    loadErrs,   \* the errors Load aggregated, in the order it found them
    exitCode    \* 0, or 1 after os.Exit(1)

bvars == <<env, pc, namespace, settings, loadErrs, exitCode>>

TypeOK ==
    /\ env \in [Vars -> EnvValues]
    /\ pc \in Steps
    /\ namespace \in {"All", "Watched"}
    /\ settings \in [ToSet(ImageVars) -> {"Empty", "Value"}]
    /\ loadErrs \in Seq(ToSet(ImageVars))
    /\ exitCode \in {0, 1}

(* Mutant: the lookup's unset marker is stored as the setting.          *)
LookupEnvRaw(v) == env[v]

(* os.LookupEnv: the value, "" when unset; found is FALSE only when unset. *)
LookupEnv(v) == IF env[v] = "Value" THEN "Value" ELSE "Empty"
Found(v) == env[v] /= "Unset"

(* Mutant: Load returns at the first variable that is not set.           *)
LoadFirstError ==
    LET missing == SelectSeq(ImageVars, LAMBDA v : ~Found(v))
    IN  IF missing = <<>> THEN <<>> ELSE <<Head(missing)>>

(* ControllerSettings.Load: every variable is looked up and assigned,     *)
(* found or not; one error is appended per unset variable, in order.     *)
LoadErrors == SelectSeq(ImageVars, LAMBDA v : ~Found(v))

Exit == pc' = "Exited" /\ exitCode' = 1

Init ==
    /\ env \in [Vars -> EnvValues]
    /\ pc = "GetNamespace"
    /\ namespace = "All"
    /\ settings = [v \in ToSet(ImageVars) |-> "Empty"]
    /\ loadErrs = <<>>
    /\ exitCode = 0

(* getWatchNamespace: an unset WATCH_NAMESPACE is logged, and the manager *)
(* is built with Namespace "" (all namespaces), as with an empty one.     *)
GetWatchNamespace ==
    /\ pc = "GetNamespace"
    /\ namespace' = IF LookupEnv(NamespaceVar) = "Value" THEN "Watched" ELSE "All"
    /\ pc' = "NewManager"
    /\ UNCHANGED <<env, settings, loadErrs, exitCode>>

(* ctrl.NewManager may fail (no kubeconfig, bad options): os.Exit(1).      *)
NewManager ==
    /\ pc = "NewManager"
    /\ \/ pc' = "SetupWithManager" /\ UNCHANGED exitCode
       \/ Exit
    /\ UNCHANGED <<env, namespace, settings, loadErrs>>

(* The collaborators are built on mgr.GetClient(); dcc.SetupWithManager   *)
(* calls Settings.Load and returns its error before building the         *)
(* controller; the builder's Complete may fail as well.  Any error:      *)
(* os.Exit(1).                                                            *)
SetupWithManager ==
    /\ pc = "SetupWithManager"
    /\ settings' = [v \in ToSet(ImageVars) |-> LookupEnv(v)]
    /\ loadErrs' = LoadErrors
    /\ IF LoadErrors /= <<>>
         THEN Exit
         ELSE \/ pc' = "AddChecks" /\ UNCHANGED exitCode
              \/ Exit
    /\ UNCHANGED <<env, namespace>>

(* AddHealthzCheck and AddReadyzCheck; an error ends the process.         *)
AddChecks ==
    /\ pc = "AddChecks"
    /\ \/ pc' = "Start" /\ UNCHANGED exitCode
       \/ Exit
    /\ UNCHANGED <<env, namespace, settings, loadErrs>>

(* mgr.Start runs the controllers until a signal; an error exits with 1,  *)
(* a clean stop returns from main.                                        *)
Start ==
    /\ pc = "Start"
    /\ pc' = "Running"
    /\ UNCHANGED <<env, namespace, settings, loadErrs, exitCode>>

Stop ==
    /\ pc = "Running"
    /\ \/ pc' = "Exited" /\ UNCHANGED exitCode
       \/ Exit
    /\ UNCHANGED <<env, namespace, settings, loadErrs>>

BNext == GetWatchNamespace \/ NewManager \/ SetupWithManager \/ AddChecks
         \/ Start \/ Stop

BSpec == Init /\ [][BNext]_bvars

-----------------------------------------------------------------------------
(* Spec section 5: a settings-load failure is fatal, and Load aggregates  *)
(* every missing-variable error instead of stopping at the first.  So a   *)
(* process that gets to mgr.Start has every image variable set, and one   *)
(* that Load stopped has exited having reported all the unset variables. *)
StartsOnlyConfigured ==
    /\ pc \in {"AddChecks", "Start", "Running"} => \A v \in ToSet(ImageVars) : Found(v)
    /\ loadErrs /= <<>> =>
           /\ pc = "Exited" /\ exitCode = 1
           /\ ToSet(loadErrs) = {v \in ToSet(ImageVars) : ~Found(v)}

=============================================================================
