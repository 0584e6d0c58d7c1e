------------------------------ MODULE MCFsTree -------------------------------
EXTENDS FsTree

MCPaths == {<<>>, <<"a">>, <<"b">>, <<"a", "b">>}
=============================================================================
