----------------------- MODULE MCCompositeTransformer -----------------------
(* Four stages, the second asynchronous (as type annotation with an I/O   *)
(* discovery step between synchronous passes), the third a null stage    *)
(* (TNullTransformer, as a pass that is switched off), two root nodes.   *)
EXTENDS CompositeTransformer

MCStages == 1 .. 4
MCAsyncStages == {2}
MCNullStages == {3}
=============================================================================
