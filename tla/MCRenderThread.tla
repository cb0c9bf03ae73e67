--------------------------- MODULE MCRenderThread ---------------------------
\* Instances of RenderThread for TLC and the mutated definitions its
\* properties are tested against.
EXTENDS RenderThread
=============================================================================
