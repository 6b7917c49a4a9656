--------------------------- MODULE OperationTable ---------------------------
(***************************************************************************)
(* The operations of the kernel: their handlers, the tables generated from *)
(* the protocol (kernel/include/generated.hpp), and what the courses of    *)
(* the handlers have in common.                                            *)
(***************************************************************************)
EXTENDS ModelingHandlers, AlgorithmHandlers, GeometryHandlers, MeshHandlers,
        ExchangeHandlers, Integers, TLC

Handlers ==
  ModelingHandlers @@ AlgorithmHandlers @@ GeometryHandlers
    @@ TopologyQueryHandlers @@ TessellationHandlers @@ MeshHandlers
    @@ ExchangeHandlers

\* kHistorySupport: "full" or "partial".
HistorySupport ==
  {"booleanCommon", "booleanCut", "booleanFuse", "cylindricalHole", "defeature",
   "extrude", "fillet", "fixShape", "generalTransform", "loft", "revolve", "sew",
   "sweepPipe", "sweepPipeShell", "transform", "unifySameDomain", "chamfer",
   "translate", "rotate", "scale", "mirror"}

\* kOperationFailurePolicies.
BooleanOperations ==
  {"booleanCut", "booleanFuse", "booleanCommon", "generalFuse",
   "selectGeneralFuseCells", "section", "split", "defeature"}
HealingOperations ==
  {"repairTriangulation", "hollow", "offsetShape", "sew", "fixShape",
   "unifySameDomain", "shapeUpgrade"}
ConstructionOperations ==
  (DOMAIN ModelingHandlers
     \ {"defeature", "fillet", "chamfer", "hollow", "middlePath", "revolutionForm"})
  \cup
  {"replaceTriangulation", "approximateCurveBSpline", "approximateSurfaceBSpline",
   "reduceCurveDegree", "reduceSurfaceDegree", "extendCurve", "extendSurface",
   "makeVertex", "makePolygon", "makeWire", "makeFace",
   "makeSurfaceFace", "makeSurfaceBezier", "makeSurfaceBSpline",
   "makeSurfaceExtrusion", "makeSurfaceOffset", "makeSurfaceRevolution",
   "makeSurfaceRuled", "surfaceIsoCurve", "makeEdgeArc", "makeEdgeBezier",
   "makeEdgeBSpline", "makeEdgeCircle", "makeEdgeEllipse", "makeEdgeHelix",
   "makeEdgeHyperbola", "makeEdgeLine", "makeEdgeOffset", "makeEdgeParabola",
   "trimCurve", "trimSurface", "convertCurveToBSpline", "convertSurfaceToBSpline",
   "updateCurvePole", "updateSurfacePole", "sweepPipeShell", "offsetWire2D"}
ExchangeOperations == DOMAIN ExchangeHandlers \ {"probeFormat"}
\* Mutant of operationFailureCode: the table has no entries for healing.
operationFailureCodeUnhealed(o) ==
  CASE o \in BooleanOperations -> BF
    [] o \in {"fillet", "chamfer"} -> FF
    [] o \in DOMAIN TessellationHandlers \cup {"validateTriangulation"} -> TF
    [] o \in ExchangeOperations -> XF
    [] o \in ConstructionOperations -> CF
    [] OTHER -> KE
operationFailureCode(o) ==
  CASE o \in BooleanOperations -> BF
    [] o \in {"fillet", "chamfer"} -> FF
    [] o \in DOMAIN TessellationHandlers \cup {"validateTriangulation"} -> TF
    [] o \in HealingOperations -> HF
    [] o \in ExchangeOperations -> XF
    [] o \in ConstructionOperations -> CF
    [] OTHER -> KE

-----------------------------------------------------------------------------
(* Operations that are an exception to one of the properties of module     *)
(* Operations.                                                             *)

\* These test the result of a call that may break off before they poll.
TestsFirst == {"exportIGESDocument"}
\* These have a code of their own for a failure that OCCT reports.
TwoCodes ==
  {"repairTriangulation", "middlePath", "glue", "revolutionForm", "sectionAnalysis",
   "setTolerance", "editCurveBSpline", "editSurfaceBSpline", "reparameterizeCurve",
   "reparameterizeSurface", "makeSurfaceFilling", "makeFaceOnSurface",
   "exportSTL", "exportPLY", "exportOBJ", "exportGLTF", "exportVRML"}
\* These drop the mesh of a shape they are given and make another.
Meshing ==
  {"tessellate", "triangulationData", "exportSTL", "exportPLY", "exportOBJ", "exportGLTF"}
\* These take a list of handles without checking their range.
Unchecked ==
  {"makeWire", "makeFace", "makeSurfaceFilling", "makeFaceOnSurface", "loft",
   "booleanFuse", "booleanCommon", "booleanCut", "sew", "sweepPipeShell",
   "exportSTEP", "exportIGES"}

-----------------------------------------------------------------------------
(* The order of the steps of a course.                                     *)

\* Steps that read the shapes held.
Reading == {"call", "occt", "transfer", "duplicate", "edit", "history"}

\* No shape is read after one was stored if a reference was taken before.
ReadsFirst(c) ==
  \A i, j, k \in DOMAIN c :
    i < j /\ j < k /\ c[i].do = "get" /\ c[i].by = "reference" /\ c[j].do = "add"
      => c[k].do \notin Reading
\* Between a call that may break off and a test of its result, or another
\* handler, there is a poll.
PollsFirst(c) ==
  \A i, k \in DOMAIN c :
    i < k /\ c[i].do = "transfer" /\ c[k].do \in {"occt", "dispatch"}
      => \E j \in i + 1 .. k - 1 : c[j].do = "poll"
\* The history is recorded, or left to another handler, before the course ends,
\* and what is thrown is an error.
Records(c) ==
  /\ \E i \in 1 .. Len(c) :
       1 .. i \subseteq DOMAIN c /\ c[i].do \in {"history", "dispatch"}
  /\ \A i \in DOMAIN c : c[i].do \in {"occt", "verify"} => c[i].code \in ErrorCode
\* What a handler throws for a failure of OCCT is the code of the operation, and
\* it hands over to operations of the same code.
ThrowsCode(c, code) ==
  \A i \in DOMAIN c :
    /\ c[i].do = "occt" => c[i].code = code
    /\ c[i].do = "dispatch" => operationFailureCode(c[i].op) = code
\* What is edited is a duplicate of the shape got last.
DuplicatesFirst(c) ==
  \A k \in DOMAIN c : c[k].do = "edit" =>
    \E j \in 1 .. k - 1 : /\ j \in DOMAIN c /\ c[j].do = "duplicate"
                          /\ \A i \in j + 1 .. k - 1 : c[i].do # "get"
\* No handle is cut to its low bits.
ReadsWhole(c) == \A i \in DOMAIN c : c[i].do = "get" => ~c[i].wraps

\* The operations of S hand over to operations of S only.
Closed(S) ==
  \A o \in S : \A c \in Handlers[o] : \A i \in DOMAIN c :
    c[i].do = "dispatch" /\ c[i].op \in DOMAIN Handlers => c[i].op \in S

ReadersFirst == {o \in DOMAIN Handlers : \A c \in Handlers[o] : ReadsFirst(c)}
PollersFirst == {o \in DOMAIN Handlers : \A c \in Handlers[o] : PollsFirst(c)}
OneCoders ==
  {o \in DOMAIN Handlers : \A c \in Handlers[o] : ThrowsCode(c, operationFailureCode(o))}
DuplicatorsFirst == {o \in DOMAIN Handlers : \A c \in Handlers[o] : DuplicatesFirst(c)}
WholeReaders == {o \in DOMAIN Handlers : \A c \in Handlers[o] : ReadsWhole(c)}

\* What holds of the handlers, whatever is requested: the hypotheses of theorems
\* in OperationsProofs, which MCKernel evaluates.
HandlersRecord ==
  \A o \in HistorySupport \cap DOMAIN Handlers : \A c \in Handlers[o] : Records(c)
HandlersThrowOneCode ==
  DOMAIN Handlers \ TwoCodes \subseteq OneCoders /\ Closed(OneCoders)
HandlersDuplicateFirst ==
  DOMAIN Handlers \ Meshing \subseteq DuplicatorsFirst /\ Closed(DuplicatorsFirst)
HandlersReadWhole ==
  DOMAIN Handlers \ Unchecked \subseteq WholeReaders /\ Closed(WholeReaders)
=============================================================================
