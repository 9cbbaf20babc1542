------------------------------- MODULE MCExamples -------------------------------
(***************************************************************************)
(* The examples for TLC.  They share nothing, nor do the background and    *)
(* the servers of the page but for its close: a behaviour is of one of     *)
(* them, and `example` says of which.                                      *)
(***************************************************************************)
EXTENDS ExtensionPage, ProductionPublication, HostLifetime, RendererPage, NativeInspector,
        NativeRules, TLC

CONSTANTS k1, k2

(* Three mounts of the replaceable view, each after the other, and another *)
(* view whose failure ends the startup of both.                            *)
MCMaxMounts == k1 :> 3 @@ k2 :> 1

VARIABLE example

vars == <<pageVars, publicationVars, hostVars, rendererVars, inspectorVars, ruleVars, example>>

Init ==
  /\ PageInit /\ PublicationInit /\ HostInit /\ RendererInit /\ InspectorInit /\ RulesInit
  /\ example \in {"views", "servers", "publication", "host", "renderer", "inspector", "rules"}
  /\ example # "views" => index = {}
  /\ example # "publication" => status = Initial
  /\ example # "renderer" => publication.listed /\ doc.choice = "custom"

Next ==
  /\ \/ /\ \/ example = "views" /\ BackgroundSteps
           \/ example = "servers" /\ ServerSteps
           \/ example \in {"views", "servers"} /\ Close
        /\ UNCHANGED <<publicationVars, hostVars, rendererVars, inspectorVars, ruleVars>>
     \/ /\ example = "publication" /\ PublicationNext
        /\ UNCHANGED <<pageVars, hostVars, rendererVars, inspectorVars, ruleVars>>
     \/ /\ example = "host" /\ HostNext
        /\ UNCHANGED <<pageVars, publicationVars, rendererVars, inspectorVars, ruleVars>>
     \/ /\ example = "renderer" /\ RendererNext
        /\ UNCHANGED <<pageVars, publicationVars, hostVars, inspectorVars, ruleVars>>
     \/ /\ example = "inspector" /\ InspectorNext
        /\ UNCHANGED <<pageVars, publicationVars, hostVars, rendererVars, ruleVars>>
     \/ /\ example = "rules" /\ RulesNext
        /\ UNCHANGED <<pageVars, publicationVars, hostVars, rendererVars, inspectorVars>>
  /\ UNCHANGED example

Spec == Init /\ [][Next]_vars
===============================================================================
