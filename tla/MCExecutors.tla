---------------------------- MODULE MCExecutors -----------------------------
(***************************************************************************)
(* The components around the gateway's runtime on small sets: delivery,    *)
(* remedy, stage worker, agent packages, operation evidence and the code   *)
(* graph with its two projections.                                         *)
(* None of them shares state with another, so a behaviour is one of a      *)
(* single component, chosen at the start; their interleavings would only   *)
(* multiply the states.  For the same reason several calls at once run     *)
(* without exporters, and the exporters beside few calls.                  *)
(***************************************************************************)
EXTENDS DeliveryEffects, RemedyEffects, StageWorker, AgentPackages, OperationTrace, CodeGraph, TLC

CONSTANTS
    s1, s2, s3,
    ExportedCalls   \* the calls that run beside the exporters

VARIABLE part   \* the component the behaviour is of

NoExpectation == [d \in Deliveries |-> None]

Graph(ents, rels) == [ents |-> ents, rels |-> rels]
SomeSnapshots ==
    {Graph({s1, s3}, {{s1, s3}}), Graph({s1, s2, s3}, {{s1, s2}, {s2, s3}}),
     Graph({s2}, {}),
     Graph({s1}, {{s1, s2}})}   \* not a graph

\* The calls with a commit record are attempts of one request.
OneRequest == [c \in ToolCalls |-> IF c \in UnauditedCalls THEN <<c>> ELSE << >>]

Symmetry == Permutations(PackageOwners)

Init ==
    /\ part \in {"delivery", "remedy", "stage", "packages", "calls", "exports", "code graph", "vectors"}
    /\ DeliveryInit /\ RemedyInit /\ StageInit /\ PackagesInit /\ TraceInit /\ CodeInit

Next ==
    /\ UNCHANGED part
    /\ \/ /\ part = "delivery" /\ DeliveryNext
          /\ UNCHANGED <<remedyVars, stageVars, packageVars, traceVars, codeVars>>
       \/ /\ part = "remedy" /\ RemedyNext
          /\ UNCHANGED <<deliveryVars, stageVars, packageVars, traceVars, codeVars>>
       \/ /\ part = "stage" /\ StageNext
          /\ UNCHANGED <<deliveryVars, remedyVars, packageVars, traceVars, codeVars>>
       \/ /\ part = "packages" /\ PackagesNext
          /\ UNCHANGED <<deliveryVars, remedyVars, stageVars, traceVars, codeVars>>
       \/ /\ part = "calls" /\ CallNext
          /\ UNCHANGED <<deliveryVars, remedyVars, stageVars, packageVars, codeVars>>
       \/ /\ part = "exports" /\ TraceNext /\ \A c \in ToolCalls \ ExportedCalls : UNCHANGED call[c]
          /\ UNCHANGED <<deliveryVars, remedyVars, stageVars, packageVars, codeVars>>
       \/ /\ part = "code graph" /\ GraphNext
          /\ UNCHANGED <<deliveryVars, remedyVars, stageVars, packageVars, traceVars>>
       \/ /\ part = "vectors" /\ VectorNext
          /\ UNCHANGED <<deliveryVars, remedyVars, stageVars, packageVars, traceVars>>

Spec == Init /\ [][Next]_<<part, deliveryVars, remedyVars, stageVars, packageVars, traceVars, codeVars>>

\* The component at work keeps its rows, requests and external state inside
\* their types; each part says which shape beyond the Go types the code
\* maintains.
ExecutorsTypeOK ==
    CASE part = "delivery" -> DeliveryTypeOK
      [] part = "remedy" -> RemedyTypeOK
      [] part = "stage" -> StageTypeOK
      [] part = "packages" -> PackagesTypeOK
      [] part \in {"calls", "exports"} -> TraceTypeOK
      [] part \in {"code graph", "vectors"} -> CodeTypeOK
=============================================================================
