-------------------------- MODULE ModelingHandlers --------------------------
(***************************************************************************)
(* The operations of the semantic module "modeling": primitives, sweeps,   *)
(* local features, blends and transforms (kernel/operations/modeling.cpp,  *)
(* modeling_fillet.cpp, modeling_transform.cpp).                           *)
(***************************************************************************)
EXTENDS HandlerSteps

\* Numbers are read and checked, one builder runs, its shape is stored.
Primitive == Check ** Occt(CF) ** Add

h_makeBox == Primitive
h_makeCylinder == Primitive
h_makeWedge == Primitive
makeRoundedPrimitive == Primitive
h_makeSphere == makeRoundedPrimitive
h_makeCone == makeRoundedPrimitive
h_makeTorus == makeRoundedPrimitive

makeAggregate == Check ** Loop1(Check ** Ref ** Check ** Call) ** Add
h_makeCompound == makeAggregate
h_makeShell == makeAggregate
h_makeCompSolid == makeAggregate

h_makeHalfSpace == Check ** Ref ** Check ** Occt(CF) ** Add
\* Whether the shell is closed and valid is asked of OCCT first.
h_makeSolidFromShell == Check ** Ref ** Check ** Call ** Check ** Occt(CF) ** Add

h_extrude == Check ** Copy ** Check ** Occt(CF) ** History ** Add
h_revolve == Check ** Copy ** Check ** Occt(CF) ** History ** Add
h_sweepPipe == Check ** Copy ** Copy ** Occt(CF) ** History ** Add
h_loft == Check ** Loop1(CopyLow32) ** Occt(CF) ** History ** Add

\* The limit is a length or an end of the shape, or the shapes until, from.
Limit == Check \cup Skip \cup Ref \cup (Ref ** Ref)
h_localPrism == Check ** Ref ** Check ** Call ** Limit ** Occt(CF) ** Add
h_localRevolution == Check ** Ref ** Check ** Call ** Limit ** Occt(CF) ** Add
h_linearForm == Check ** Ref ** Ref ** Check ** Occt(CF) ** Occt(CF) ** Add
h_revolutionForm == Check ** Ref ** Ref ** Check ** Occt(CF) ** Occt(CF) ** Add

\* throughAll, blind and between know their interval; throughNext and untilEnd
\* intersect the axis with the shape.  Validation is the default, after the
\* history.
h_cylindricalHole ==
  Check ** Ref ** Check ** Call ** (Check \cup Occt(CF))
    ** Occt(CF) ** Occt(CF) ** History ** Opt(Occt(CF)) ** Add

h_defeature == Check ** Ref ** Check ** Occt(BF) ** History ** Add
h_draftAngle ==
  Check ** Ref ** Check ** Loop1(Check ** Occt(CF)) ** Occt(CF) ** Add
h_hollow == Check ** Ref ** Check ** Occt(HF) ** Add

\* Fillet and chamfer: each edge is checked and added to the builder.
applyEdgeBlend ==
  Check ** Copy ** Check ** Loop1(Check ** Call) ** Occt(FF) ** Add ** History
h_fillet == applyEdgeBlend
h_chamfer == applyEdgeBlend

applySimpleTransform == Check ** Dispatch("transform")
h_translate == applySimpleTransform
h_rotate == applySimpleTransform
h_scale == applySimpleTransform
h_mirror == applySimpleTransform
\* Mutant of h_transform: the history is not built.
h_transformForgetful == Check ** Copy ** Check ** Occt(CF) ** Add
h_transform == Check ** Copy ** Check ** Occt(CF) ** History ** Add
h_generalTransform == Check ** Copy ** Check ** Occt(CF) ** Add ** History
h_batchTransformCopy == Check ** Ref ** Check ** Loop1(Occt(CF) ** Add)

ModelingHandlers ==
  [ makeBox |-> h_makeBox, makeCylinder |-> h_makeCylinder,
    makeSphere |-> h_makeSphere, makeCone |-> h_makeCone,
    makeTorus |-> h_makeTorus, makeWedge |-> h_makeWedge,
    makeCompound |-> h_makeCompound, makeShell |-> h_makeShell,
    makeCompSolid |-> h_makeCompSolid, makeHalfSpace |-> h_makeHalfSpace,
    makeSolidFromShell |-> h_makeSolidFromShell,
    extrude |-> h_extrude, revolve |-> h_revolve, loft |-> h_loft,
    sweepPipe |-> h_sweepPipe, localPrism |-> h_localPrism,
    localRevolution |-> h_localRevolution, linearForm |-> h_linearForm,
    revolutionForm |-> h_revolutionForm,
    cylindricalHole |-> h_cylindricalHole, defeature |-> h_defeature,
    draftAngle |-> h_draftAngle, hollow |-> h_hollow,
    fillet |-> h_fillet, chamfer |-> h_chamfer,
    translate |-> h_translate, rotate |-> h_rotate, scale |-> h_scale,
    mirror |-> h_mirror, transform |-> h_transform,
    generalTransform |-> h_generalTransform,
    batchTransformCopy |-> h_batchTransformCopy ]
=============================================================================
