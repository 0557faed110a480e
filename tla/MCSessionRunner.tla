---------------------------- MODULE MCSessionRunner ----------------------------
EXTENDS SessionRunner

AllOthers == {"error", "exit", "overflow"}

\* An image in budgeted steps, a request cut in two or sent whole, and in its tail another
\* request and a query with its reply.
MixedOutputs == {<<"image">>, <<"half">>, <<"rest", "request", "query">>}
===============================================================================
