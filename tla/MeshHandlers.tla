---------------------------- MODULE MeshHandlers ----------------------------
(***************************************************************************)
(* The operations of the semantic modules "topology_query", "tessellation" *)
(* and "mesh" (kernel/operations/topology_query.cpp, tessellation.cpp,     *)
(* mesh.cpp).                                                              *)
(***************************************************************************)
EXTENDS HandlerSteps

h_topologyCounts == Ref ** Call
h_getSubShapes == Ref ** Check ** Call
h_getSubShape == Check ** Ref ** Check ** Call ** Check ** Add
h_getAdjacency == Ref ** Check ** Call
h_shapeType == Ref ** Call
h_isSameShape == Ref ** Ref ** Call
\* A void box is a KernelError.
h_bbox == Ref ** Occt(KE)
h_obb == Ref ** Check ** Occt(KE)

TopologyQueryHandlers ==
  [ topologyCounts |-> h_topologyCounts, getSubShapes |-> h_getSubShapes,
    getSubShape |-> h_getSubShape, getAdjacency |-> h_getAdjacency,
    shapeType |-> h_shapeType, isSameShape |-> h_isSameShape,
    bbox |-> h_bbox, obb |-> h_obb ]

-----------------------------------------------------------------------------
(* A triangulation belongs to the geometry, which the copy of a shape      *)
(* shares with it.                                                         *)

\* The mesh of a shape as buffers: normals that are missing are added to the
\* triangulation itself, UVs that are missing are a failure; the UVs are a
\* fifth buffer.
tessellation ==
  Edit ** Occt(TF) ** Buffer ** Buffer ** Buffer ** Buffer ** Opt(Buffer)
h_triangulationData == Ref ** Check ** tessellation
\* BRepTools::Clean drops the mesh there is before the new one is made.
h_tessellate == Copy ** Check ** Edit ** Transfer ** Poll ** Occt(TF) ** tessellation
\* Polled before every edge.
h_tessellateEdges ==
  Check ** Ref ** Loop(Poll ** Call) ** Buffer ** Buffer

TessellationHandlers ==
  [ triangulationData |-> h_triangulationData, tessellate |-> h_tessellate,
    tessellateEdges |-> h_tessellateEdges ]

h_validateTriangulation == Ref ** Check ** Call
h_repairTriangulation ==
  Check ** Ref ** Check ** Occt(CF) ** Duplicate ** Edit ** Occt(TF) ** Edit
    ** Occt(TF) ** Add
h_replaceTriangulation ==
  Check ** Ref ** Check ** Occt(CF) ** Duplicate ** Check ** Edit ** Occt(CF) ** Add

MeshHandlers ==
  [ validateTriangulation |-> h_validateTriangulation,
    repairTriangulation |-> h_repairTriangulation,
    replaceTriangulation |-> h_replaceTriangulation ]
=============================================================================
