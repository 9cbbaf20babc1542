-------------------------- MODULE MCProviderLifecycle --------------------------
(***************************************************************************)
(* Instances of ProviderLifecycle for TLC: small graphs of installations.  *)
(***************************************************************************)
EXTENDS ProviderLifecycle, TLC

CONSTANTS host, plugin, successor,       \* installations
          service, action,               \* contributions
          offer,                         \* the successor's service
          cap                            \* the capability

(* A host service, and a plugin with an action that requires it. *)
PairInstallation == {host, plugin}
PairContribution == {service, action}
PairParts == (host :> <<service>>) @@ (plugin :> <<action>>)
PairProvides == (service :> {cap}) @@ (action :> {})
PairRequires == (service :> {}) @@ (action :> {cap})

(* One contribution alone: more calls, later generations. *)
AloneInstallation == {plugin}
AloneContribution == {action}
AloneParts == plugin :> <<action>>
AloneProvides == action :> {}
AloneRequires == action :> {}

(* A second host service that takes the first one's place under the same   *)
(* plugin.                                                                 *)
TurnInstallation == {host, successor, plugin}
TurnContribution == {service, offer, action}
TurnParts == (host :> <<service>>) @@ (successor :> <<offer>>) @@ (plugin :> <<action>>)
TurnProvides == (service :> {cap}) @@ (offer :> {cap}) @@ (action :> {})
TurnRequires == (service :> {}) @@ (offer :> {}) @@ (action :> {cap})
===============================================================================
