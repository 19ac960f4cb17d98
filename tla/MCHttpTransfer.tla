-------------------------- MODULE MCHttpTransfer ---------------------------
(* Model-checking instances of HttpTransfer.                               *)
EXTENDS HttpTransfer

x == <<"byte", 1>>
y == <<"byte", 2>>
Response(kind, status_code, chunks) ==
    [kind |-> kind, code |-> status_code, chunks |-> chunks]

\* Bodies with a line end, an empty line, nothing, and a line that starts with '\r'.
Texts == {<<<<x, y, x>>>>, <<<<x, LF>>, <<LF, y>>>>, <<>>, <<<<x, LF, CR>>, <<LF, NUL, y>>>>}

MCFramed   ==
    {Response("length", 200, <<<<x, LF>>, <<LF, y, x>>>>), Response("length", 200, <<<<x>>, <<LF, y>>>>), Response("length", 200, <<>>),
     Response("chunked", 200, <<<<x, LF, CR>>, <<LF, NUL>>>>), Response("chunked", 200, <<>>)}
MCRedirect == {Response("redirect", 302, <<>>)}
MCNone     == {Response("plain", 204, <<>>), Response("garbage", 0, <<>>)}
MCAll      == MCFramed \cup MCRedirect \cup MCNone
MCChunked  == {Response("chunked", 200, t) : t \in Texts}
=============================================================================
