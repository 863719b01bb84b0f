------------------------- MODULE MCAdapterTransport -------------------------
(***************************************************************************)
(* AdapterTransport for TLC: a tunnel, what writes to it, closes it and    *)
(* cancels it, and requests of the other kinds.                            *)
(***************************************************************************)
EXTENDS AdapterTransport

CONSTANTS none

\* Requests are named after what they ask for.
MCOp == [r \in Requests |-> IF r = "abort" THEN "cancel" ELSE r]

\* A send, a close and the abort name the tunnel, the cancel the plain request.
MCTarget == [r \in Requests |-> IF r = "cancel" THEN "http" ELSE "tunnel"]

\* A tunnel with what disturbs it, a request that is repeated or cancelled,
\* and one of each other kind.
MCScripts ==
    {<<<<"tunnel", "sse", -1>>, <<"send", "sse", -1>>, <<"send", "sse", -1>>>>,
     <<<<"tunnel", "sse", -1>>, <<"send", "json", -1>>, <<"close", "sse", -1>>>>,
     <<<<"tunnel", "sse", -1>>, <<"abort", "json", -1>>, <<"send", "sse", -1>>>>,
     <<<<"tunnel", "json", -1>>, <<"tunnel", "sse", 0>>, <<"send", "sse", -1>>>>,
     <<<<"http", "sse", -1>>, <<"http", "sse", 1>>, <<"http", "json", -1>>>>,
     <<<<"http", "sse", 1>>, <<"http", "json", -1>>>>,
     <<<<"http", "json", -2>>, <<"http", "json", -1>>>>,
     <<<<"http", "json", -1>>, <<"cancel", "frame", -1>>, <<"http", "json", 1>>>>,
     <<<<"http", "json", -1>>, <<"http", "frame", -1>>>>,
     <<<<"pin", "json", -1>>>>, <<<<"sse", "sse", -1>>>>, <<<<"denied", "sse", -1>>>>,
     <<<<"synthetic", "json", -1>>>>}

============================================================================
