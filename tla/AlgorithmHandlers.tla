------------------------- MODULE AlgorithmHandlers --------------------------
(***************************************************************************)
(* The operations of the semantic module "algorithms": booleans, sections, *)
(* projections, extrema, intersections, healing and shape upgrades         *)
(* (kernel/operations/algorithms.cpp, analysis_algorithms.cpp,             *)
(* shape_upgrade.cpp).                                                     *)
(***************************************************************************)
EXTENDS HandlerSteps

h_middlePath == Check ** Ref ** Ref ** Ref ** Check ** Occt(CF) ** Add

\* The frame may need arguments or an auxiliary spine.
h_sweepPipeShell ==
  Check ** Copy ** Opt(Check \cup Copy) ** Check ** Loop1(CopyLow32)
    ** Occt(CF) ** History ** Add

h_offsetShape == Check ** Ref ** Occt(HF) ** Add
h_offsetWire2D == Check ** Ref ** Occt(CF) ** Add

\* The references to base and tools are only read to copy the shapes.
runBooleanMerge ==
  Check ** Copy ** Check ** Loop1(CopyLow32) ** Occt(BF) ** Add ** History
h_booleanFuse == runBooleanMerge
h_booleanCommon == runBooleanMerge
h_booleanCut ==
  Check ** Copy ** Check ** Loop1(Check ** CopyLow32) ** Occt(BF) ** Add ** History

h_section == Check ** Ref ** Ref ** Occt(BF) ** Add
h_sectionAnalysis == Check ** Ref ** Ref ** Check ** Occt(BF) ** Call ** Add
\* The visible and the hidden edges.
h_projectHLR == Check ** Ref ** Check ** Call ** Add ** Add
\* Mutant of h_split: the range of the handles is not checked.
h_splitUnchecked == Check ** Loop1(Check ** CopyLow32) ** Occt(BF) ** Add
h_split == Check ** Loop1(Check ** Copy) ** Occt(BF) ** Add
h_glue == Check ** Ref ** Ref ** Check ** Call ** Check ** Occt(CF) ** Add

\* One result for every cell.
h_generalFuse ==
  Check ** Copy ** Copy ** Check ** Occt(BF) ** Occt(BF) ** Loop1(Add)
h_selectGeneralFuseCells ==
  Check ** Copy ** Copy ** Check ** Occt(BF) ** Loop1(Check ** Call)
    ** Occt(BF) ** Add

h_sew == Check ** Loop1(CopyLow32) ** Occt(HF) ** Add ** History
\* Mutant of h_fixShape: the shape itself is fixed.
h_fixShapeInPlace ==
  Check ** Copy ** Occt(HF) ** Check ** Edit ** Occt(HF) ** Add ** History
\* It is a duplicate of the shape that is fixed.
h_fixShape ==
  Check ** Copy ** Occt(HF) ** Duplicate ** Check ** Edit ** Occt(HF) ** Add ** History
h_unifySameDomain == Check ** Copy ** Check ** Occt(HF) ** Add ** History

-----------------------------------------------------------------------------
(* Queries: nothing is stored.                                             *)

h_massProps == Ref ** Check ** Call
h_distance == Ref ** Ref ** Occt(KE) ** Call
h_classifyPoint == Check ** Ref ** Call
h_projectPointCurve == Ref ** Check ** Call
h_projectPointSurface == Ref ** Check ** Call

\* Parallel inputs fall back on the distance between the shapes.
Extrema == Ref ** Ref ** Check ** Call ** Opt(Occt(KE)) ** Call
h_extremaCurveCurve == Extrema
h_extremaCurveSurface == Extrema
h_extremaSurfaceSurface == Extrema

\* The edges of the intersection, then its vertices on no edge, are stored.
Intersection == Check ** Ref ** Ref ** Check ** Occt(KE) ** Loop(Add)
h_intersectCurveCurve == Intersection
h_intersectSurfaceSurface == Intersection
\* Every point and segment is found again on the curve and on the surface.
h_intersectCurveSurface == Ref ** Ref ** Check ** Occt(KE) ** Loop(Occt(KE))

-----------------------------------------------------------------------------
(* shapeUpgrade.                                                           *)

performDivide == Check ** Occt(HF)
upgradeContinuity == Check ** performDivide ** Add
upgradeAngle == Check ** performDivide ** Add
upgradeArea == Check ** performDivide ** Add
upgradeClosedFaces == Opt(Check) ** performDivide ** Add
upgradeClosedEdges == performDivide ** Add
convertToBezier == Check ** performDivide ** Add
removeInternalWires == Check ** Occt(HF) ** Add
removeLocations == Check ** Occt(HF) ** Add
h_shapeUpgrade ==
  Check ** Ref ** Check
    ** (upgradeContinuity \cup upgradeAngle \cup upgradeArea
          \cup upgradeClosedFaces \cup upgradeClosedEdges \cup convertToBezier
          \cup removeInternalWires \cup removeLocations)

AlgorithmHandlers ==
  [ middlePath |-> h_middlePath, sweepPipeShell |-> h_sweepPipeShell,
    offsetShape |-> h_offsetShape, offsetWire2D |-> h_offsetWire2D,
    booleanFuse |-> h_booleanFuse, booleanCommon |-> h_booleanCommon,
    booleanCut |-> h_booleanCut, section |-> h_section,
    sectionAnalysis |-> h_sectionAnalysis, projectHLR |-> h_projectHLR,
    split |-> h_split, glue |-> h_glue, generalFuse |-> h_generalFuse,
    selectGeneralFuseCells |-> h_selectGeneralFuseCells, sew |-> h_sew,
    fixShape |-> h_fixShape, unifySameDomain |-> h_unifySameDomain,
    massProps |-> h_massProps, distance |-> h_distance,
    classifyPoint |-> h_classifyPoint,
    projectPointCurve |-> h_projectPointCurve,
    projectPointSurface |-> h_projectPointSurface,
    extremaCurveCurve |-> h_extremaCurveCurve,
    extremaCurveSurface |-> h_extremaCurveSurface,
    extremaSurfaceSurface |-> h_extremaSurfaceSurface,
    intersectCurveCurve |-> h_intersectCurveCurve,
    intersectCurveSurface |-> h_intersectCurveSurface,
    intersectSurfaceSurface |-> h_intersectSurfaceSurface,
    shapeUpgrade |-> h_shapeUpgrade ]
=============================================================================
