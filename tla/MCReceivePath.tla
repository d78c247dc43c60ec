--------------------------- MODULE MCReceivePath ---------------------------
\* ReceivePath on a ring of six bytes.
EXTENDS ReceivePath, MCBytes
=============================================================================
