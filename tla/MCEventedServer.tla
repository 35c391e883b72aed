--------------------------- MODULE MCEventedServer ---------------------------
(****************************************************************************)
(* Instances of EventedServer for the model checker.                        *)
(****************************************************************************)
EXTENDS ServerExchange, TLC

Clients == Permutations(Conn)

(* One request per client, in one segment: what the tests of a browser do.  *)
OneLine == {<<<<l>>>> : l \in Line \ {"part"}}
OneStatic  == {<<<<"static">>>>}
Mixed      == OneStatic \cup {<<<<"dynamic">>>>, <<<<"broken">>>>}

(* A request line with its header lines, in one segment.                    *)
Headers == OneLine \cup {<<<<"static", "malformed">>>>, <<<<"missing", "malformed">>>>,
                         <<<<"part">>>>}

(* Two requests in one segment, and a request followed by its header lines  *)
(* or by a second request.                                                  *)
Pipelined == {<<<<"static", "static">>, <<"static">>>>, <<<<"static">>, <<"static">>>>,
              <<<<"static">>, <<"malformed">>>>, <<<<"static">>>>}

(* A request whose line arrives in two parts, one that answers a refused    *)
(* line, and files between other lines, which epoll never reads.            *)
Segmented == {<<<<"part">>, <<"dynamic">>>>, <<<<"malformed">>, <<"static">>>>,
              <<<<"static">>, <<"missing">>>>, <<<<"broken">>>>}
=============================================================================
