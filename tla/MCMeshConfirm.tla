--------------------------- MODULE MCMeshConfirm ---------------------------
EXTENDS MeshConfirm
CONSTANTS on, off
OnOff == {on, off}
=============================================================================
