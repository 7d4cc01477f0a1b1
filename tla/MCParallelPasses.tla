-------------------------- MODULE MCParallelPasses --------------------------
(***************************************************************************)
(* Two files that define a function of the same qualified name, with a     *)
(* route each of them also calls; both call routes that nobody registers.  *)
(***************************************************************************)
EXTENDS ParallelPasses

Edge(a, b, t) == [from |-> a, to |-> b, type |-> t]

FileNames == <<"file1", "file2">>
LargestFirst == <<2, 1>>

Definitions == <<
  <<Node("f"), Node("/r"), Edge("f", "/r", "HANDLES")>>,
  <<Node("f"), Node("/r"), Edge("f", "/r", "HANDLES"), Node("g")>> >>

Defines == <<
  <<Edge("file1", "f", "DEFINES")>>,
  <<Edge("file2", "f", "DEFINES"), Edge("file2", "g", "DEFINES")>> >>

Calls == <<
  <<Edge("f", "g", "CALLS"), Node("/s"), Edge("f", "/s", "HTTP_CALLS")>>,
  <<Node("/s"), Edge("g", "/s", "HTTP_CALLS"), Node("/r"), Edge("g", "/r", "HTTP_CALLS")>> >>

InfraRoutes == << <<Node("/t"), Edge("/s", "/t", "INFRA_MAPS")>>, <<>> >>

\* The passes of the instance are of the kind that the theorems are about.
ASSUME PassesOfTheKind == RegistryMakesNoNodes /\ EndsAreMadeBefore
=============================================================================
