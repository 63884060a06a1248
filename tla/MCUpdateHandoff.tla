-------------------------- MODULE MCUpdateHandoff --------------------------
EXTENDS UpdateHandoff
=============================================================================
