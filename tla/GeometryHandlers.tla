-------------------------- MODULE GeometryHandlers --------------------------
(***************************************************************************)
(* The operations of the semantic module "geometry_topology": vertices,    *)
(* wires and faces, curves, surfaces, their approximation and analysis     *)
(* (kernel/operations/topology.cpp, geometry_*.cpp and the helpers in      *)
(* kernel/runtime/geometry_helpers.cpp).                                   *)
(***************************************************************************)
EXTENDS HandlerSteps

(* Helpers.                                                                *)

curveForEdge == Check ** Check
surfaceForFace == Check ** Check
makeRectangularFace == Check ** Occt(CF)
\* The face's topology is copied before its pcurves and edges are rebuilt.
makeSurfaceFacePreservingWires ==
  Check ** Occt(CF) ** Duplicate ** Edit ** Occt(CF) ** Occt(CF)

h_makeVertex == Check ** Occt(CF) ** Add
h_makePolygon == Check ** Occt(CF) ** Add
\* BRepBuilderAPI_MakeWire.Add keeps the first failure until IsDone is asked.
h_makeWire == Check ** Loop1(RefLow32) ** Occt(CF) ** Add
h_makeFace == Check ** Copy ** Loop(CopyLow32 ** Occt(CF)) ** Occt(CF) ** Add
h_isValid == Ref ** Call
h_diagnoseShape == Ref ** Call
h_inspectTolerances == Ref ** Call
h_setTolerance == Check ** Ref ** Check ** Occt(CF) ** Duplicate ** Edit ** Add

-----------------------------------------------------------------------------
(* Curves.                                                                 *)

\* An arc by its center, by three points, or a line.
makeEdgeLineOrArc ==
  Check ** (Skip \cup Check \cup Occt(CF)) ** Occt(CF) ** Add
h_makeEdgeLine == makeEdgeLineOrArc
h_makeEdgeArc == makeEdgeLineOrArc
makeEdgeCircleOrEllipse == Check ** Occt(CF) ** Add
h_makeEdgeCircle == makeEdgeCircleOrEllipse
h_makeEdgeEllipse == makeEdgeCircleOrEllipse
makeEdgeHyperbolaOrParabola == Check ** Occt(CF) ** Add
h_makeEdgeHyperbola == makeEdgeHyperbolaOrParabola
h_makeEdgeParabola == makeEdgeHyperbolaOrParabola
h_makeEdgeHelix == Check ** Occt(CF) ** Occt(CF) ** Add
h_makeEdgeOffset == Check ** Ref ** curveForEdge ** Check ** Occt(CF) ** Add

\* The poles come in the arguments or in an input buffer.
readCurvePoles == Check
h_makeEdgeBezier == Check ** readCurvePoles ** Check ** Occt(CF) ** Add
h_makeEdgeBSpline ==
  Check ** readCurvePoles ** (Check \cup Occt(CF)) ** Occt(CF) ** Add

h_curveControlData == Ref ** Check ** Call ** Check
h_updateCurvePole ==
  Check ** Ref ** Check ** Duplicate ** Check ** Edit ** Occt(CF) ** Add
\* A net that does not fit is noticed half way, a knot may stay: the copy is lost.
h_editCurveBSpline ==
  Check ** Ref ** Check ** Duplicate ** Check ** Edit ** Opt(Check \cup Occt(CF))
    ** Occt(CF) ** Add
h_reparameterizeCurve == Check ** Ref ** Check ** Duplicate ** Edit ** Occt(CF) ** Add
h_trimCurve == Check ** Ref ** curveForEdge ** Check ** Occt(CF) ** Add
h_convertCurveToBSpline ==
  Check ** Ref ** curveForEdge ** Occt(CF) ** Occt(CF) ** Add

-----------------------------------------------------------------------------
(* Surfaces.                                                               *)

\* A constraint names a support face for one edge of the boundary.
h_makeSurfaceFilling ==
  Check ** Ref ** Check ** Loop(Check ** RefLow32 ** Check) ** Check
    ** Occt(CF) ** Add
\* A wire is copied before pcurves are added to its edges.
projectWire == Check ** Occt(CF) ** Duplicate ** Edit ** Occt(CF)
h_makeFaceOnSurface ==
  Check ** Ref ** Check ** Ref ** projectWire ** Loop(RefLow32 ** projectWire)
    ** Occt(CF) ** Add

readSurfacePoles == Check ** Opt(Check)
h_makeSurfaceBezier == Check ** readSurfacePoles ** Check ** makeRectangularFace ** Add
h_makeSurfaceBSpline == Check ** readSurfacePoles ** Check ** makeRectangularFace ** Add
h_makeSurfaceRuled ==
  Check ** Ref ** Ref ** curveForEdge ** curveForEdge ** Occt(CF) ** Add
h_makeSurfaceOffset == Check ** Ref ** Check ** makeSurfaceFacePreservingWires ** Add
h_makeSurfaceFace == Check ** Occt(CF) ** Add
h_makeSurfaceExtrusion == Check ** Ref ** curveForEdge ** makeRectangularFace ** Add
h_makeSurfaceRevolution ==
  Check ** Ref ** curveForEdge ** Check ** makeRectangularFace ** Add

h_surfaceControlData == Ref ** Check ** Call ** Check
h_updateSurfacePole ==
  Check ** Ref ** Check ** Duplicate ** Check ** Edit
    ** makeSurfaceFacePreservingWires ** Add
h_editSurfaceBSpline ==
  Check ** Ref ** Check ** Duplicate ** Check ** Edit ** Opt(Check \cup Occt(CF))
    ** makeSurfaceFacePreservingWires ** Add
h_reparameterizeSurface ==
  Check ** Ref ** Check ** Duplicate ** Edit ** Occt(CF) ** Duplicate ** Edit
    ** Occt(CF) ** Occt(CF) ** Add
h_trimSurface == Check ** Ref ** Check ** Check ** makeRectangularFace ** Add
h_convertSurfaceToBSpline ==
  Check ** Ref ** Check ** Occt(CF) ** makeSurfaceFacePreservingWires ** Add

-----------------------------------------------------------------------------
(* Approximation, extension and analysis.                                  *)

approximateBSpline == Check ** Check ** Occt(CF) ** Occt(CF) ** Add
h_approximateCurveBSpline == approximateBSpline
h_approximateSurfaceBSpline == approximateBSpline
h_reduceCurveDegree ==
  Check ** Ref ** Check ** curveForEdge ** Occt(CF) ** Occt(CF) ** Add
h_reduceSurfaceDegree ==
  Check ** Ref ** Check ** surfaceForFace ** Occt(CF)
    ** makeSurfaceFacePreservingWires ** Add
h_extendCurve ==
  Check ** Ref ** Check ** Duplicate ** Check ** Edit ** Occt(CF) ** Add
h_extendSurface ==
  Check ** Ref ** Check ** Duplicate ** Edit ** makeSurfaceFacePreservingWires ** Add

queryCurve == Ref ** Check ** Opt(Check) ** Call
h_curveContinuity == queryCurve
h_curveDomain == queryCurve
h_curveGeometry == queryCurve
h_evaluateCurve == queryCurve
querySurface == Ref ** Check ** Opt(Check) ** Call
h_surfaceContinuity == querySurface
h_surfaceDomain == querySurface
h_surfaceGeometry == querySurface
h_evaluateSurface == querySurface
\* The pieces of the iso-curve inside the face, which may be none.
h_surfaceIsoCurve ==
  Check ** Ref ** surfaceForFace ** Check ** Occt(CF) ** Occt(CF) ** Loop(Add)

GeometryHandlers ==
  [ makeVertex |-> h_makeVertex, makePolygon |-> h_makePolygon,
    makeWire |-> h_makeWire, makeFace |-> h_makeFace, isValid |-> h_isValid,
    diagnoseShape |-> h_diagnoseShape,
    inspectTolerances |-> h_inspectTolerances,
    setTolerance |-> h_setTolerance, makeEdgeLine |-> h_makeEdgeLine,
    makeEdgeArc |-> h_makeEdgeArc, makeEdgeCircle |-> h_makeEdgeCircle,
    makeEdgeEllipse |-> h_makeEdgeEllipse,
    makeEdgeHyperbola |-> h_makeEdgeHyperbola,
    makeEdgeParabola |-> h_makeEdgeParabola, makeEdgeHelix |-> h_makeEdgeHelix,
    makeEdgeOffset |-> h_makeEdgeOffset, makeEdgeBezier |-> h_makeEdgeBezier,
    makeEdgeBSpline |-> h_makeEdgeBSpline,
    curveControlData |-> h_curveControlData,
    updateCurvePole |-> h_updateCurvePole,
    editCurveBSpline |-> h_editCurveBSpline,
    reparameterizeCurve |-> h_reparameterizeCurve, trimCurve |-> h_trimCurve,
    convertCurveToBSpline |-> h_convertCurveToBSpline,
    makeSurfaceFilling |-> h_makeSurfaceFilling,
    makeFaceOnSurface |-> h_makeFaceOnSurface,
    makeSurfaceBezier |-> h_makeSurfaceBezier,
    makeSurfaceBSpline |-> h_makeSurfaceBSpline,
    makeSurfaceRuled |-> h_makeSurfaceRuled,
    makeSurfaceOffset |-> h_makeSurfaceOffset,
    makeSurfaceFace |-> h_makeSurfaceFace,
    makeSurfaceExtrusion |-> h_makeSurfaceExtrusion,
    makeSurfaceRevolution |-> h_makeSurfaceRevolution,
    surfaceControlData |-> h_surfaceControlData,
    updateSurfacePole |-> h_updateSurfacePole,
    editSurfaceBSpline |-> h_editSurfaceBSpline,
    reparameterizeSurface |-> h_reparameterizeSurface,
    trimSurface |-> h_trimSurface,
    convertSurfaceToBSpline |-> h_convertSurfaceToBSpline,
    approximateCurveBSpline |-> h_approximateCurveBSpline,
    approximateSurfaceBSpline |-> h_approximateSurfaceBSpline,
    reduceCurveDegree |-> h_reduceCurveDegree,
    reduceSurfaceDegree |-> h_reduceSurfaceDegree,
    extendCurve |-> h_extendCurve, extendSurface |-> h_extendSurface,
    curveContinuity |-> h_curveContinuity, curveDomain |-> h_curveDomain,
    curveGeometry |-> h_curveGeometry, evaluateCurve |-> h_evaluateCurve,
    surfaceContinuity |-> h_surfaceContinuity,
    surfaceDomain |-> h_surfaceDomain, surfaceGeometry |-> h_surfaceGeometry,
    evaluateSurface |-> h_evaluateSurface,
    surfaceIsoCurve |-> h_surfaceIsoCurve ]
=============================================================================
