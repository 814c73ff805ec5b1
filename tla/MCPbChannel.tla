---------------------------- MODULE MCPbChannel -----------------------------
\* Two servers, so that one switch of mode or a cancelled one happens in either
\* order with two requests and a stream, and one dropped connection, so that a
\* request is retried on the connection after it.
EXTENDS PbChannel

=============================================================================
