------------------------------- MODULE MCPil -------------------------------
EXTENDS Pil
=============================================================================
