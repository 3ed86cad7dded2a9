----------------------------- MODULE MCPgBridge -----------------------------
\* The bridge under TLC; the bounds are in the cfgs.
EXTENDS PgBridge
=============================================================================
