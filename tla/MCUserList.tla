----------------------------- MODULE MCUserList -----------------------------
EXTENDS UserList
=============================================================================
