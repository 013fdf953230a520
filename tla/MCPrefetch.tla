------------------------------ MODULE MCPrefetch ------------------------------
\* Instance of Prefetch for TLC.
EXTENDS Prefetch
=============================================================================
