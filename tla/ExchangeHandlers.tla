-------------------------- MODULE ExchangeHandlers --------------------------
(***************************************************************************)
(* The operations of the semantic modules "exchange_mesh",                 *)
(* "step_shape_exchange" and "cad_document_exchange"                       *)
(* (kernel/operations/exchange_*.cpp, with what they call in               *)
(* kernel/runtime/mesh_codecs.cpp and document_dispatch.cpp), and BREP     *)
(* (shape_transfer.cpp).  A codec is one step that succeeds or fails.      *)
(* Which trees a document may consist of is in module DocumentTree.        *)
(***************************************************************************)
EXTENDS HandlerSteps

Shapes == Copy \cup Loop1(CopyLow32)
Format == Occt(XF)

h_exportSTEP ==
  Shapes ** Check ** Loop1(Transfer ** Poll ** Format) ** Format ** Buffer
h_importSTEP ==
  Check ** Format ** Transfer ** Poll ** Format ** Loop(Add) ** Add
h_exportIGES ==
  Shapes ** Check ** Poll ** Loop1(Transfer ** Poll ** Format) ** Format ** Buffer
h_importIGES ==
  Check ** Format ** Poll ** Transfer ** Poll ** Format ** Loop(Add) ** Add
h_probeFormat == Check

h_exportBREP == Ref ** Call ** Buffer
h_importBREP == Check ** Format ** Add

-----------------------------------------------------------------------------
(* Meshes.                                                                 *)

\* The shape is copied, which shares the geometry: its mesh is dropped and
\* made anew in place.
buildTriangleMesh == Check ** Edit ** Occt(TF) ** Format
\* Index buffers given by the client instead of a shape.
parseIndexedTriangleMesh == Check ** Check
makeTriangleShape == Format

h_exportSTL ==
  Check ** (parseIndexedTriangleMesh \cup (Ref ** buildTriangleMesh)) ** Poll ** Poll
    ** Format ** Poll ** Buffer
\* The last report may still cancel, when the shape is stored.
h_importSTL ==
  Check ** Format ** Poll ** Opt(Format ** Buffer ** Buffer ** Buffer ** Opt(Buffer))
    ** Poll ** Add ** Poll

h_exportVRML ==
  Check ** ((parseIndexedTriangleMesh ** makeTriangleShape) \cup Copy) ** Duplicate
    ** Edit ** Transfer ** Poll ** Occt(TF) ** Format ** Poll ** Buffer
h_importVRML ==
  Check ** Format ** Poll ** Format ** makeTriangleShape ** Add
    ** Opt(Buffer ** Buffer ** Buffer ** Opt(Buffer))

exportTriangleMesh ==
  Check ** (Check \cup (Ref ** buildTriangleMesh)) ** Poll ** Check ** Poll ** Buffer
    ** Poll
dispatchExportOBJDocument == Check ** Poll ** Buffer ** Opt(Buffer) ** Poll
dispatchExportGLTFDocument == Check ** Poll ** Buffer ** Loop(Buffer) ** Poll
h_exportPLY == exportTriangleMesh
h_exportOBJ == dispatchExportOBJDocument \cup exportTriangleMesh
h_exportGLTF == dispatchExportGLTFDocument \cup exportTriangleMesh

\* A file without triangles has no shape.
importTriangleMesh ==
  Check ** Format ** Poll ** Opt(makeTriangleShape ** Add)
    ** Opt(Buffer ** Buffer ** Loop(Buffer)) ** Poll ** Poll
h_importPLY == importTriangleMesh
h_importOBJ == importTriangleMesh
h_importGLTF == importTriangleMesh

-----------------------------------------------------------------------------
(* Documents.                                                              *)

validateDocumentTree == Check ** Loop1(Check ** Ref) ** Check
buildExportDocument ==
  validateDocumentTree ** Loop1(Ref ** Check ** Format) ** Check ** Format
applyDocumentAnnotations == Loop(Check ** Opt(Ref) ** Opt(Format))

writeSTEPDocument == Check ** Transfer ** Poll ** Format ** Buffer
writeXCAFDocument == Format ** Buffer
\* Whether the transfer succeeded is asked before whether it was cancelled.
writeIGESDocument ==
  Check ** Transfer ** Format ** Poll ** Format ** Buffer

h_exportSTEPDocument ==
  Check ** buildExportDocument ** applyDocumentAnnotations ** writeSTEPDocument
h_exportXCAF ==
  Check ** buildExportDocument ** applyDocumentAnnotations ** writeXCAFDocument
h_exportIGESDocument ==
  Verify(XF) ** buildExportDocument ** applyDocumentAnnotations ** writeIGESDocument

\* One shape for every node, one for every annotation's presentation.
inspectImportedDocument == Format
extractDocumentNodes == Loop1(Format ** Add)
extractDocumentAnnotations == Loop(Add)
importedDocumentResult ==
  inspectImportedDocument ** extractDocumentNodes ** extractDocumentAnnotations ** Add

h_importSTEPDocument ==
  Check ** Format ** Transfer ** Poll ** Format ** importedDocumentResult
h_importXCAF == Check ** Format ** importedDocumentResult
\* The nodes of the metadata marker are read when the shapes are stored.
h_importIGESDocument ==
  Check ** Verify(XF) ** Format ** Transfer ** Poll ** Format ** importedDocumentResult
    ** Loop(Verify(XF))

ExchangeHandlers ==
  [ exportBREP |-> h_exportBREP, importBREP |-> h_importBREP,
    exportSTEP |-> h_exportSTEP, importSTEP |-> h_importSTEP,
    exportIGES |-> h_exportIGES, importIGES |-> h_importIGES,
    probeFormat |-> h_probeFormat,
    exportSTL |-> h_exportSTL, importSTL |-> h_importSTL,
    exportVRML |-> h_exportVRML, importVRML |-> h_importVRML,
    exportPLY |-> h_exportPLY, importPLY |-> h_importPLY,
    exportOBJ |-> h_exportOBJ, importOBJ |-> h_importOBJ,
    exportGLTF |-> h_exportGLTF, importGLTF |-> h_importGLTF,
    exportSTEPDocument |-> h_exportSTEPDocument,
    importSTEPDocument |-> h_importSTEPDocument,
    exportXCAF |-> h_exportXCAF, importXCAF |-> h_importXCAF,
    exportIGESDocument |-> h_exportIGESDocument,
    importIGESDocument |-> h_importIGESDocument ]
=============================================================================
