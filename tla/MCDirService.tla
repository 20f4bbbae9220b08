---------------------------- MODULE MCDirService ----------------------------
EXTENDS DirService
=============================================================================
