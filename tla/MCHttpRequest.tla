--------------------------- MODULE MCHttpRequest ----------------------------
EXTENDS HttpRequest
=============================================================================
