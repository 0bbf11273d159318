------------------------------ MODULE MCRunner ------------------------------
EXTENDS Runner
CONSTANTS granted, other
MCPaths == {granted, other}
MCGranted == {granted}
MCContents == {"head", "edit"}
=============================================================================
