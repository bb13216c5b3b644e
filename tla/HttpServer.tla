----------------------------- MODULE HttpServer -----------------------------
(***************************************************************************)
(* HttpServer, HttpRequest and HttpResponse (src/src/net/http) on one      *)
(* connection: requests of a peer arrive cut into reads, each read starts  *)
(* a new HttpRequest on what the input buffer holds, and the callback's    *)
(* responses go out.                                                       *)
(*                                                                         *)
(* The stream is a sequence of tokens: a request line, a header, a line    *)
(* end or a piece of other text.  A read may end between any two.  A body  *)
(* is any sequence of them, another request included, and among the        *)
(* headers may be lines without a colon.  The connection is that of        *)
(* TcpConnection.tla, which drops what is sent after shutdown().           *)
(***************************************************************************)
EXTENDS Naturals, Sequences, SequencesExt, FiniteSetsExt

CONSTANTS
  Requests,         \* what the peer may send
  Responses,        \* what HttpCallback_ may make of one
  MaxRequests       \* bound on the number of requests sent

\* The tokens; targets, versions and values are sequences of characters.
Lines == [method : STRING, target : Seq(STRING), version : Seq(STRING)]
Headers == [key : STRING, value : Seq(STRING)]

Token(kind, data) == [kind |-> kind, data |-> data]
CRLF == [kind |-> "crlf"]
Text == [kind |-> "text"]

HeadLines == [kind : {"header"}, data : Headers] \cup {Text}
Tokens == [kind : {"line"}, data : Lines] \cup HeadLines \cup {CRLF}

\* Of the tokens only headers have a colon, and they are lines of their own.
ColonsInHeaders(r) ==
  /\ ":" \notin Range(r.line.target)
  /\ \A i \in DOMAIN r.body :
       /\ r.body[i].kind = "line" => ":" \notin Range(r.body[i].data.target)
       /\ r.body[i].kind = "header" =>
            /\ i = 1 \/ r.body[i - 1].kind = "crlf"
            /\ i < Len(r.body) /\ r.body[i + 1].kind = "crlf"

ASSUME HttpAssumption ==
  /\ MaxRequests \in Nat
  /\ Requests \subseteq [line : Lines, headers : Seq(HeadLines), body : Seq(Tokens)]
  /\ \A r \in Requests : ColonsInHeaders(r)
  /\ Responses \subseteq [code : Nat, keep : BOOLEAN, body : Nat]

VARIABLES
  inbox,            \* tokens sent by the peer and not yet read
  InputBuffer_,
  place,            \* the loop: "poll", "parsing" or "parsed"
  ok,               \* the result of parse()
  request,          \* the members of the HttpRequest
  state_,           \* of the connection
  answers,          \* what was sent: responses, the close of the 400 included
  sent,             \* history: the requests of the peer
  handed,           \* history: the requests HttpCallback_ was given
  cut,              \* history: a read ended in a head, behind its first line
  piled             \* history: a read brought the ends of two heads

peerVars == <<inbox, sent>>
parseVars == <<place, ok, request>>
outVars == <<state_, answers, handed>>
vars == <<peerVars, InputBuffer_, parseVars, outVars, cut, piled>>

-----------------------------------------------------------------------------
(* The stream.                                                             *)

\* A request as the peer writes it.
HeaderLines(headers) ==
  [i \in 1..2 * Len(headers) |-> IF i % 2 = 0 THEN CRLF ELSE headers[(i + 1) \div 2]]

Wire(r) ==
  <<Token("line", r.line), CRLF>> \o HeaderLines(r.headers) \o <<CRLF>> \o r.body

\* The place of the first line end; 0 is NULL.
findCRLF(buf) ==
  LET ends == {i \in DOMAIN buf : buf[i].kind = "crlf"}
  IN  IF ends = {} THEN 0 ELSE Min(ends)

-----------------------------------------------------------------------------
(* HttpRequest.                                                            *)

NewRequest ==
  [state_ |-> "kParseLine", method_ |-> "Unknown", version_ |-> "http11",
   url_ |-> <<>>, query_ |-> <<>>, headers_ |-> <<>>]

SetMethod(m) ==
  IF m \in {"GET", "HEAD", "POST", "PUT", "DELETE"} THEN m ELSE "Unknown"

\* A version is <<"HTTP/", major, minor>> or anything else; of the major
\* number only 2 is told apart.
SetVersion(v) ==
  CASE Len(v) # 3 \/ v[1] # "HTTP/" -> "Unknown"
    [] v[2] = "2" -> "http20"
    [] v[3] = "0" -> "http10"
    [] v[3] = "1" -> "http11"
    [] OTHER -> "Unknown"

\* The line is a request line alone and its parts are understood.
ParseLine(line) ==
  /\ Len(line) = 1 /\ line[1].kind = "line"
  /\ SetMethod(line[1].data.method) # "Unknown"
  /\ SetVersion(line[1].data.version) # "Unknown"

\* SetUrl and SetQuery: the query begins with the question mark.
Parsed(line) ==
  LET question == SelectInSeq(line.target, LAMBDA c : c = "?")
      urlEnd == IF question = 0 THEN Len(line.target) ELSE question - 1
  IN  [NewRequest EXCEPT
         !.state_ = "kParseHeader",
         !.method_ = SetMethod(line.method),
         !.version_ = SetVersion(line.version),
         !.url_ = SubSeq(line.target, 1, urlEnd),
         !.query_ = SubSeq(line.target, urlEnd + 1, Len(line.target))]

\* Mutant: the spaces before the value are kept.
TrimmedRight(v) ==
  LET inside == {i \in DOMAIN v : v[i] # " "}
  IN  IF inside = {} THEN <<>> ELSE SubSeq(v, 1, Max(inside) - 1)

\* end starts on the '\r', which is a space, so that it comes to stand on the
\* last character of the value and not behind it.
Trimmed(v) ==
  LET inside == {i \in DOMAIN v : v[i] # " "}
  IN  IF inside = {} THEN <<>> ELSE SubSeq(v, Min(inside), Max(inside) - 1)

\* headers_ is a function from keys, the empty one at first.
AddHeader(headers, h) ==
  [k \in DOMAIN headers \cup {h.key} |-> IF k = h.key THEN Trimmed(h.value) ELSE headers[k]]

-----------------------------------------------------------------------------

Init ==
  /\ inbox = <<>> /\ sent = <<>>
  /\ InputBuffer_ = <<>>
  /\ place = "poll" /\ ok = TRUE /\ request = NewRequest
  /\ state_ = "kConnected" /\ answers = <<>> /\ handed = <<>>
  /\ cut = FALSE /\ piled = FALSE

PeerSends(r) ==
  /\ Len(sent) < MaxRequests
  /\ sent' = Append(sent, r)
  /\ inbox' = inbox \o Wire(r)
  /\ UNCHANGED <<InputBuffer_, parseVars, outVars, cut, piled>>

\* What follows the last token read belongs to a head whose line is read.
InsideHead(last, next) ==
  next.kind = "header" \/ (next.kind = "crlf" /\ last.kind # "line")

\* HeadleRead calls OnMessage with the first n tokens more in the buffer.
OnMessage(n) ==
  /\ place = "poll" /\ n \in DOMAIN inbox
  /\ InputBuffer_' = InputBuffer_ \o SubSeq(inbox, 1, n)
  /\ inbox' = SubSeq(inbox, n + 1, Len(inbox))
  /\ place' = "parsing" /\ ok' = TRUE /\ request' = NewRequest
  /\ cut' = (cut \/ (n < Len(inbox) /\ InsideHead(inbox[n], inbox[n + 1])))
  /\ piled' = (piled \/ Cardinality({i \in 2..n : inbox[i].kind = "crlf"
                                               /\ inbox[i - 1].kind = "crlf"}) > 1)
  /\ UNCHANGED <<sent, outVars>>

RetrieveUntil(i) == InputBuffer_' = SubSeq(InputBuffer_, i + 1, Len(InputBuffer_))

\* Mutant: without a line end the loop of parse() is not left.
ParseRequestLineSpinning ==
  /\ place = "parsing" /\ request.state_ = "kParseLine"
  /\ LET crlf == findCRLF(InputBuffer_)
         line == SubSeq(InputBuffer_, 1, crlf - 1)
     IN  /\ crlf # 0
         /\ IF ParseLine(line)
            THEN request' = Parsed(line[1].data) /\ RetrieveUntil(crlf) /\ UNCHANGED <<place, ok>>
            ELSE place' = "parsed" /\ ok' = FALSE /\ UNCHANGED <<InputBuffer_, request>>
  /\ UNCHANGED <<peerVars, outVars, cut, piled>>

\* A pass of parse() in kParseLine.  A line that is refused stays where it is.
ParseRequestLine ==
  /\ place = "parsing" /\ request.state_ = "kParseLine"
  /\ LET crlf == findCRLF(InputBuffer_)
         line == SubSeq(InputBuffer_, 1, crlf - 1)
     IN  IF crlf # 0 /\ ParseLine(line)
         THEN /\ request' = Parsed(line[1].data)
              /\ RetrieveUntil(crlf)
              /\ UNCHANGED <<place, ok>>
         ELSE /\ place' = "parsed" /\ ok' = (crlf = 0)
              /\ UNCHANGED <<InputBuffer_, request>>
  /\ UNCHANGED <<peerVars, outVars, cut, piled>>

\* Mutant: the empty line stays in the buffer.
ParseHeaderLeavingEnd ==
  /\ place = "parsing" /\ request.state_ = "kParseHeader"
  /\ LET crlf == findCRLF(InputBuffer_)
     IN  IF crlf # 0 /\ InputBuffer_[1].kind = "header"
         THEN /\ request' = [request EXCEPT !.headers_ = AddHeader(@, InputBuffer_[1].data)]
              /\ RetrieveUntil(crlf) /\ UNCHANGED place
         ELSE /\ place' = "parsed"
              /\ request' = IF crlf = 0 THEN request ELSE [request EXCEPT !.state_ = "kdown"]
              /\ UNCHANGED InputBuffer_
  /\ UNCHANGED <<ok, peerVars, outVars, cut, piled>>

\* A pass in kParseHeader.  The first line without a colon ends the head, also
\* when it is not empty.
ParseHeader ==
  /\ place = "parsing" /\ request.state_ = "kParseHeader"
  /\ LET crlf == findCRLF(InputBuffer_)
     IN  IF crlf = 0
         THEN place' = "parsed" /\ UNCHANGED <<InputBuffer_, request>>
         ELSE /\ RetrieveUntil(crlf)
              /\ IF InputBuffer_[1].kind = "header"
                 THEN /\ request' = [request EXCEPT !.headers_ = AddHeader(@, InputBuffer_[1].data)]
                      /\ UNCHANGED place
                 ELSE /\ request' = [request EXCEPT !.state_ = "kdown"]
                      /\ place' = "parsed"
  /\ UNCHANGED <<ok, peerVars, outVars, cut, piled>>

-----------------------------------------------------------------------------
(* The answer.                                                             *)

BadRequest == [code |-> 400, keep |-> FALSE, length |-> 0, body |-> 0]

\* HttpResponse::response: the length is that of the body, whatever header the
\* callback has set.
response(res) ==
  [code |-> res.code, keep |-> res.keep, length |-> res.body, body |-> res.body]

\* Mutant: the connection is not shut down.
SendKeeping(answer) ==
  /\ answers' = IF state_ = "kConnected" THEN Append(answers, answer) ELSE answers
  /\ UNCHANGED state_

\* send() and, unless the connection is to be kept, shutdown(): both do
\* nothing once it is kDisconnecting.
Send(answer) ==
  /\ answers' = IF state_ = "kConnected" THEN Append(answers, answer) ELSE answers
  /\ state_' = IF answer.keep THEN state_ ELSE "kDisconnecting"

Refuse ==
  /\ place = "parsed" /\ ~ok
  /\ Send(BadRequest)
  /\ place' = "poll"
  /\ UNCHANGED <<peerVars, InputBuffer_, ok, request, handed, cut, piled>>

\* The request is not complete: what has been parsed of it is forgotten.
Forget ==
  /\ place = "parsed" /\ ok /\ request.state_ # "kdown"
  /\ place' = "poll"
  /\ UNCHANGED <<peerVars, InputBuffer_, ok, request, outVars, cut, piled>>

OnRequest(res) ==
  /\ place = "parsed" /\ ok /\ request.state_ = "kdown"
  /\ handed' = Append(handed, request)
  /\ Send(response(res))
  /\ place' = "poll"
  /\ UNCHANGED <<peerVars, InputBuffer_, ok, request, cut, piled>>

-----------------------------------------------------------------------------

LoopStep ==
  \/ \E n \in DOMAIN inbox : OnMessage(n)
  \/ ParseRequestLine \/ ParseHeader \/ Refuse \/ Forget
  \/ \E res \in Responses : OnRequest(res)

Next == LoopStep \/ \E r \in Requests : PeerSends(r)

SafeSpec == Init /\ [][Next]_vars

\* The loop reads what has arrived and its handlers return.
Spec == SafeSpec /\ WF_vars(LoopStep)

-----------------------------------------------------------------------------
(* Properties.                                                             *)

\* Type invariant.
TypeOK ==
  /\ Len(sent) <= MaxRequests /\ sent \in Seq(Requests)
  /\ place \in {"poll", "parsing", "parsed"}
  /\ {ok, cut, piled} \subseteq BOOLEAN
  /\ request.state_ \in {"kParseLine", "kParseHeader", "kdown"}
  /\ request.method_ \in {"Unknown", "GET", "HEAD", "POST", "PUT", "DELETE"}
  /\ request.version_ \in {"http10", "http11", "http20"}
  /\ state_ \in {"kConnected", "kDisconnecting"}

\* parse() takes out of the buffer what the peer has written of the request: it
\* has no body, and the empty line is the only one without a colon.
Tame(r) ==
  r.body = <<>> /\ \A j \in DOMAIN r.headers : r.headers[j].kind = "header"

\* Some request was malformed or left something in the buffer.
Dirty ==
  \E i \in DOMAIN sent : ~Tame(sent[i]) \/ ~ParseLine(<<Token("line", sent[i].line)>>)

Spaces(v) == \A i \in DOMAIN v : v[i] = " "

\* What the callback gets of a header: the value without the spaces around it
\* and without its last character.
ValueOf(v, given) ==
  IF Spaces(v) THEN given = <<>>
  ELSE \E a, b \in 0..Len(v) :
         /\ a < b /\ v[a + 1] # " " /\ v[b] # " "
         /\ Spaces(SubSeq(v, 1, a)) /\ Spaces(SubSeq(v, b + 1, Len(v)))
         /\ given = SubSeq(v, a + 1, b - 1)

\* q is made of the line of r and of its first n headers, of a repeated one
\* the last.
MadeOf(q, r, n) ==
  /\ q.method_ = r.line.method /\ q.url_ \o q.query_ = r.line.target
  /\ "?" \notin Range(q.url_)
  /\ q.query_ # <<>> => Head(q.query_) = "?"
  /\ \A j \in 1..n : r.headers[j].kind = "header"
  /\ DOMAIN q.headers_ = {r.headers[j].data.key : j \in 1..n}
  /\ \A j \in 1..n :
       (\A k \in (j + 1)..n : r.headers[k].data.key # r.headers[j].data.key) =>
         ValueOf(r.headers[j].data.value, q.headers_[r.headers[j].data.key])

\* The head of r ends behind its first n headers: the next line has no colon.
HeadEnds(r, n) == n < Len(r.headers) => r.headers[n + 1].kind # "header"

\* Up to the first request that is not Tame, the callback gets the requests of
\* the peer in their order, none twice and none left out, however they are cut
\* into reads: what a refused or forgotten request leaves behind is never taken
\* for another one.  Each comes with its method, its target and the headers in
\* front of the first line without a colon, their values as in ValueOf.  Of
\* what follows a body or such a line nothing is said, for the code takes what
\* is left of them for the next request.
HandedInOrder ==
  /\ TypeOK
  /\ \A i \in DOMAIN handed :
       (\A j \in DOMAIN sent : j < i => Tame(sent[j])) =>
         /\ i <= Len(sent)
         /\ \E n \in 0..Len(sent[i].headers) :
              HeadEnds(sent[i], n) /\ MadeOf(handed[i], sent[i], n)

\* parse() fails, and an answer that belongs to no request goes out, only to a
\* peer that has sent something malformed, a body or a line without a colon, or
\* whose request was cut by the end of a read behind its first line.
RefusedForCause ==
  (place = "parsed" /\ ~ok) \/ Len(answers) > Len(handed) => Dirty \/ cut

\* There is one answer to each request that was handed over, in order, until
\* one closes the connection; that is the last thing sent.  Its length is right.
OneAnswerEach ==
  /\ \A i \in DOMAIN answers : answers[i].length = answers[i].body
  /\ \A i \in 1..(Len(answers) - 1) : answers[i].keep
  /\ state_ = "kConnected" => Len(answers) = Len(handed)
  /\ Len(answers) <= Len(handed) + 1
  /\ Len(answers) > Len(handed) => answers[Len(answers)].code = 400

\* A request is answered, or an earlier answer has closed the connection,
\* whatever follows or does not follow it, if none is malformed or not Tame, cut
\* behind its first line, or read together with the end of another.
RequestsAnswered ==
  \A k \in 1..MaxRequests :
    Len(sent) >= k ~>
      Len(answers) >= k \/ state_ = "kDisconnecting" \/ Dirty \/ cut \/ piled
=============================================================================
