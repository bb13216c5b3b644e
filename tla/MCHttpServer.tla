---------------------------- MODULE MCHttpServer ----------------------------
(* HttpServer with a plain request, one with a repeated header and a query, *)
(* one whose body is a request, one with a line without a colon among its   *)
(* headers, and one of an unknown version.                                  *)
EXTENDS HttpServer

Line(method, target, minor) ==
  [method |-> method, target |-> target, version |-> <<"HTTP/", "1", minor>>]

Header(key, value) == Token("header", [key |-> key, value |-> value])

Request(line, headers, body) == [line |-> line, headers |-> headers, body |-> body]

FiveRequests ==
  {Request(Line("GET", <<"/">>, "0"), <<>>, <<>>),
   Request(Line("GET", <<"/", "?", "q">>, "1"),
           <<Header("a", <<" ", "x", " ", "y", " ">>), Header("b", <<" ">>),
             Header("a", <<"z">>)>>, <<>>),
   Request(Line("POST", <<"/">>, "1"), <<Header("a", <<" ", "x", " ">>)>>,
           <<Token("line", Line("GET", <<"/", "b">>, "1")), CRLF, CRLF>>),
   Request(Line("PUT", <<"/">>, "1"), <<Header("a", <<"x">>), Text>>, <<>>),
   Request(Line("GET", <<"/">>, "2"), <<>>, <<>>)}

TwoResponses ==
  {[code |-> 200, keep |-> TRUE, body |-> 2], [code |-> 404, keep |-> FALSE, body |-> 0]}
=============================================================================
