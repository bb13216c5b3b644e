-------------------------- MODULE HttpServerProofs --------------------------
(***************************************************************************)
(* Proofs about the way of a request into the callback of an HttpServer:   *)
(* about the parser, for every set of requests, of responses and every way *)
(* to cut the stream into reads, and about the Buffer below it, for every  *)
(* size, every length of a call and every set of bytes.                    *)
(*                                                                         *)
(* The two specifications share no variable.  HttpServer has of its input  *)
(* buffer the tokens in it, which is what the theorems about Buffer say it *)
(* is: a queue, until a call overruns the vector.                          *)
(*                                                                         *)
(* A body, or a line without a colon, stays in the buffer and is parsed as *)
(* a request.  Where the parser stands is known up to the first request of *)
(* this kind; behind it (Astray) only that there has been one.             *)
(***************************************************************************)
EXTENDS HttpServer, Buffer, SequenceTheorems, WellFoundedInduction, TLAPS

-----------------------------------------------------------------------------
(* Requests.                                                               *)

\* What headers_ may be.
HeaderMaps == UNION {[D -> Seq(STRING)] : D \in SUBSET STRING}

Versions == {"http10", "http11", "http20"}

Methods == {"Unknown", "GET", "HEAD", "POST", "PUT", "DELETE"}

HttpRequests ==
  [state_ : {"kParseLine", "kParseHeader", "kdown"}, method_ : Methods, version_ : Versions,
   url_ : Seq(STRING), query_ : Seq(STRING), headers_ : HeaderMaps]

Answers == [code : Nat, keep : BOOLEAN, length : Nat, body : Nat]

\* What the peer has sent and parse() has not taken out of the buffer.
Rest == InputBuffer_ \o inbox

\* c[n] is the stream behind the first n requests.
Stream(c) ==
  /\ c \in [0..Len(sent) -> Seq(Tokens)]
  /\ c[Len(sent)] = <<>>
  /\ \A n \in 1..Len(sent) : c[n - 1] = Wire(sent[n]) \o c[n]

\* The stream from the place p of a request on.
From(p, r, behind) == SubSeq(Wire(r), p, Len(Wire(r))) \o behind

\* The next line is refused, now and whatever follows.
Refused(s) == s # <<>> /\ ~ParseLine(<<s[1]>>)

\* Some request that was handed over has left something in the buffer.  From
\* then on parse() no longer goes by the requests of the peer.
Astray == \E i \in DOMAIN sent : i <= Len(handed) /\ ~Tame(sent[i])

\* q is what parse() makes of the line of r and of its first n headers.
Understood(q, r, n) ==
  /\ q.method_ = r.line.method /\ q.url_ \o q.query_ = r.line.target
  /\ "?" \notin Range(q.url_) /\ (q.query_ # <<>> => Head(q.query_) = "?")
  /\ \A i \in 1..n : r.headers[i].kind = "header"
  /\ DOMAIN q.headers_ = {r.headers[i].data.key : i \in 1..n}
  /\ \A i \in 1..n :
       (\A k \in (i + 1)..n : r.headers[k].data.key # r.headers[i].data.key) =>
         q.headers_[r.headers[i].data.key] = Trimmed(r.headers[i].data.value)

\* Where parse() is in the stream: before a request, in the head of one behind
\* n of its headers, or behind what it takes for the end of the head.
AtLine(c) == Rest = c[Len(handed)]

InHead(c, n) ==
  LET r == sent[Len(handed) + 1]
  IN  /\ n <= Len(r.headers)
      /\ Rest = From(2 * n + 3, r, c[Len(handed) + 1])
      /\ Understood(request, r, n)

AtEnd(c, n) ==
  LET r == sent[Len(handed) + 1]
  IN  /\ HeadEnds(r, n) /\ Understood(request, r, n)
      /\ n = Len(r.headers) => Rest = From(2 * n + 4, r, c[Len(handed) + 1])

Placed(c) ==
  /\ Len(handed) <= Len(sent)
  /\ IF place = "poll" \/ request.state_ = "kParseLine"
     THEN AtLine(c) \/ (Refused(Rest) /\ (Dirty \/ cut))
     ELSE /\ Len(handed) < Len(sent)
          /\ request.state_ = "kParseHeader" =>
               \E n \in 0..Len(sent[Len(handed) + 1].headers) : InHead(c, n)
          /\ request.state_ = "kdown" =>
               \E n \in 0..Len(sent[Len(handed) + 1].headers) : AtEnd(c, n)

StreamInv == Astray \/ \E c : Stream(c) /\ Placed(c)

TypeInv ==
  /\ TypeOK
  /\ inbox \in Seq(Tokens) /\ InputBuffer_ \in Seq(Tokens)
  /\ request \in HttpRequests /\ handed \in Seq(HttpRequests) /\ answers \in Seq(Answers)

PlaceInv ==
  /\ ok \/ (place # "parsing" /\ request.state_ = "kParseLine")
  /\ place = "parsing" => request.state_ # "kdown"
  /\ place = "parsed" /\ request.state_ = "kParseHeader" => Dirty \/ cut

\* Unless a read has cut a head, what is still to come does not begin inside one.
CutInv ==
  ~cut /\ inbox # <<>> =>
    /\ inbox[1].kind # "header"
    /\ inbox[1].kind = "crlf" =>
         InputBuffer_ # <<>> /\ InputBuffer_[Len(InputBuffer_)].kind = "line"

HandedInv ==
  \A i \in DOMAIN handed :
    (\A j \in DOMAIN sent : j < i => Tame(sent[j])) =>
      /\ i <= Len(sent)
      /\ \E n \in 0..Len(sent[i].headers) :
           HeadEnds(sent[i], n) /\ Understood(handed[i], sent[i], n)

AnswerInv ==
  OneAnswerEach /\ (state_ = "kConnected" => \A i \in DOMAIN answers : answers[i].keep)

Inv == TypeInv /\ PlaceInv /\ StreamInv /\ CutInv /\ HandedInv /\ RefusedForCause /\ AnswerInv

-----------------------------------------------------------------------------
(* Numbers and sequences.                                                  *)

\* A set of natural numbers has a least element.
LEMMA LeastNat ==
  ASSUME NEW T \in SUBSET Nat, T # {}
  PROVE  \E m \in T : \A k \in T : m <= k
<1> DEFINE less == {ss \in Nat \X Nat : ss[1] < ss[2]}
<1>1. IsWellFoundedOn(less, Nat)
  BY NatLessThanWellFounded DEF OpToRel
<1>2. \E x \in T : \A y \in T : <<y, x>> \notin less
  <2> HIDE DEF less
  <2> QED BY <1>1, WFMin
<1>3. PICK x \in T : \A y \in T : <<y, x>> \notin less
  BY <1>2
<1>4. \A y \in T : ~(y < x)
  BY <1>3
<1> QED BY <1>4

\* Min chooses it.
LEMMA MinFacts ==
  ASSUME NEW T \in SUBSET Nat, T # {}
  PROVE  Min(T) \in T /\ \A k \in T : Min(T) <= k
BY LeastNat DEF Min

\* A set of places has a last one, which Max chooses.
LEMMA MaxFacts ==
  ASSUME NEW n \in Nat, NEW T \in SUBSET (1..n), T # {}
  PROVE  Max(T) \in T /\ \A k \in T : k <= Max(T)
<1> DEFINE U == {i \in 0..n : n - i \in T}
<1>1. U \in SUBSET Nat
  OBVIOUS
<1>2. U # {}
  <2>1. PICK k \in T : TRUE
    OBVIOUS
  <2>2. n - k \in 0..n /\ n - (n - k) = k
    OBVIOUS
  <2> QED BY <2>2
<1>3. PICK m \in U : \A k \in U : m <= k
  <2> HIDE DEF U
  <2> QED BY <1>1, <1>2, LeastNat
<1>4. n - m \in T
  BY <1>3
<1>5. ASSUME NEW k \in T PROVE n - m >= k
  <2>1. n - k \in 0..n /\ n - (n - k) = k
    OBVIOUS
  <2>2. n - k \in U
    BY <2>1
  <2>3. m \in 0..n /\ m <= n - k
    BY <1>3, <2>2
  <2> QED BY <2>1, <2>3
<1>6. \E x \in T : \A y \in T : x >= y
  BY <1>4, <1>5
<1>7. Max(T) \in T /\ \A k \in T : Max(T) >= k
  BY <1>6 DEF Max
<1> QED BY <1>7

\* The first line end.
LEMMA FindFacts ==
  ASSUME NEW inp \in Seq(Tokens)
  PROVE  /\ findCRLF(inp) = 0 => \A i \in 1..Len(inp) : inp[i].kind # "crlf"
         /\ findCRLF(inp) # 0 =>
              /\ findCRLF(inp) \in 1..Len(inp) /\ inp[findCRLF(inp)].kind = "crlf"
              /\ \A i \in 1..Len(inp) : inp[i].kind = "crlf" => findCRLF(inp) <= i
<1> DEFINE ends == {i \in DOMAIN inp : inp[i].kind = "crlf"}
<1>1. DOMAIN inp = 1..Len(inp) /\ Len(inp) \in Nat
  OBVIOUS
<1>2. ends \in SUBSET Nat /\ 0 \notin ends
  BY <1>1
<1>3. findCRLF(inp) = IF ends = {} THEN 0 ELSE Min(ends)
  BY DEF findCRLF
<1>4. ends # {} => Min(ends) \in ends /\ \A i \in ends : Min(ends) <= i
  <2> HIDE DEF ends
  <2> QED BY <1>2, MinFacts
<1>5. CASE ends = {}
  BY <1>1, <1>3, <1>5
<1>6. CASE ends # {}
  <2>1. findCRLF(inp) = Min(ends) /\ findCRLF(inp) \in ends
    BY <1>3, <1>4, <1>6
  <2> QED BY <1>1, <1>2, <1>4, <1>6, <2>1
<1> QED BY <1>5, <1>6

\* Parentheses may be moved.
LEMMA Associative ==
  ASSUME NEW s \in Seq(Tokens), NEW t \in Seq(Tokens), NEW u \in Seq(Tokens)
  PROVE  (s \o t) \o u = s \o (t \o u)
BY ConcatAssociative

\* The first token alone.
LEMMA FirstOnly ==
  ASSUME NEW s \in Seq(Tokens), 1 \in 1..Len(s), NEW e, e = 1
  PROVE  SubSeq(s, 1, e) = <<s[1]>>
<1> DEFINE a == SubSeq(s, 1, e)  b == <<s[1]>>
<1>1. b \in Seq(Tokens) /\ Len(b) = 1 /\ b[1] = s[1]
  OBVIOUS
<1>2. a \in Seq(Tokens) /\ Len(a) = 1 /\ a[1] = s[1]
  <2>1. \A i \in 1..e : s[i] \in Tokens
    OBVIOUS
  <2>2. /\ a \in Seq(Tokens) /\ Len(a) = IF 1 <= e THEN e - 1 + 1 ELSE 0
        /\ \A i \in 1..e - 1 + 1 : a[i] = s[1 + i - 1]
    BY <2>1, SubSeqProperties
  <2> HIDE DEF a
  <2>3. Len(a) = 1
    BY <2>2
  <2>4. a[1] = s[1]
    <3>1. PICK i : i = 1
      OBVIOUS
    <3>2. i \in 1..e - 1 + 1 /\ 1 + i - 1 = 1
      BY <3>1
    <3> QED BY <2>2, <3>1, <3>2
  <2> QED BY <2>2, <2>3, <2>4
<1> HIDE DEF a, b
<1>3. \A i \in 1..Len(a) : a[i] = b[i]
  BY <1>1, <1>2
<1>4. a = b
  BY <1>1, <1>2, <1>3, SeqEqual
<1> QED BY <1>4 DEF a, b

\* Dropping the first m tokens of the buffer drops them of the stream.
LEMMA DropFacts ==
  ASSUME NEW s \in Seq(Tokens), NEW t \in Seq(Tokens), NEW m \in 1..Len(s)
  PROVE  /\ SubSeq(s, m + 1, Len(s)) \in Seq(Tokens)
         /\ Len(SubSeq(s, m + 1, Len(s))) = Len(s) - m
         /\ SubSeq(s, m + 1, Len(s)) \o t = SubSeq(s \o t, m + 1, Len(s \o t))
<1> DEFINE a == SubSeq(s, m + 1, Len(s))  u == s \o t  b == SubSeq(u, m + 1, Len(u))  v == a \o t
<1>1. Len(s) \in Nat /\ Len(t) \in Nat /\ m \in Int /\ m + 1 \in Int /\ m <= Len(s)
  OBVIOUS
<1>2. /\ a \in Seq(Tokens) /\ Len(a) = Len(s) - m
      /\ \A i \in 1..Len(s) - m : a[i] = s[m + i]
  <2>1. \A i \in m + 1..Len(s) : s[i] \in Tokens
    BY <1>1
  <2>2. /\ a \in Seq(Tokens) /\ Len(a) = IF m + 1 <= Len(s) THEN Len(s) - (m + 1) + 1 ELSE 0
        /\ \A i \in 1..Len(s) - (m + 1) + 1 : a[i] = s[m + 1 + i - 1]
    BY <1>1, <2>1, SubSeqProperties
  <2> HIDE DEF a
  <2> QED BY <1>1, <2>2
<1>3. /\ u \in Seq(Tokens) /\ Len(u) = Len(s) + Len(t)
      /\ \A i \in 1..Len(s) + Len(t) : u[i] = IF i <= Len(s) THEN s[i] ELSE t[i - Len(s)]
  BY ConcatProperties
<1>4. /\ b \in Seq(Tokens) /\ Len(b) = Len(u) - m
      /\ \A i \in 1..Len(u) - m : b[i] = u[m + i]
  <2> HIDE DEF u
  <2>1. \A i \in m + 1..Len(u) : u[i] \in Tokens
    BY <1>1, <1>3
  <2>2. /\ b \in Seq(Tokens) /\ Len(b) = IF m + 1 <= Len(u) THEN Len(u) - (m + 1) + 1 ELSE 0
        /\ \A i \in 1..Len(u) - (m + 1) + 1 : b[i] = u[m + 1 + i - 1]
    BY <1>1, <1>3, <2>1, SubSeqProperties
  <2> HIDE DEF b
  <2> QED BY <1>1, <1>3, <2>2
<1> HIDE DEF a, u, b
<1>5. /\ v \in Seq(Tokens) /\ Len(v) = Len(a) + Len(t)
      /\ \A i \in 1..Len(a) + Len(t) : v[i] = IF i <= Len(a) THEN a[i] ELSE t[i - Len(a)]
  BY <1>2, ConcatProperties
<1> HIDE DEF v
<1>6. Len(v) = Len(b)
  BY <1>1, <1>2, <1>3, <1>4, <1>5
<1>7. ASSUME NEW i \in 1..Len(v) PROVE v[i] = b[i]
  <2>0. Len(v) = Len(s) - m + Len(t) /\ i \in Nat
    BY <1>1, <1>2, <1>5
  <2>1. CASE i <= Len(a)
    <3>1. i \in 1..Len(s) - m /\ i \in 1..Len(u) - m /\ m + i \in 1..Len(s) + Len(t) /\ m + i <= Len(s)
      BY <1>1, <1>2, <1>3, <2>0, <2>1
    <3>2. v[i] = a[i] /\ a[i] = s[m + i]
      BY <1>2, <1>5, <2>1, <3>1
    <3>3. b[i] = u[m + i] /\ u[m + i] = s[m + i]
      BY <1>3, <1>4, <3>1
    <3> QED BY <3>2, <3>3
  <2>2. CASE ~(i <= Len(a))
    <3>1. /\ i \in 1..Len(u) - m /\ m + i \in 1..Len(s) + Len(t) /\ ~(m + i <= Len(s))
          /\ i - Len(a) = (m + i) - Len(s)
      BY <1>1, <1>2, <1>3, <2>0, <2>2
    <3>2. v[i] = t[i - Len(a)]
      BY <1>5, <2>2
    <3>3. b[i] = u[m + i] /\ u[m + i] = t[(m + i) - Len(s)]
      BY <1>3, <1>4, <3>1
    <3> QED BY <3>1, <3>2, <3>3
  <2> QED BY <2>1, <2>2
<1>8. v = b
  BY <1>4, <1>5, <1>6, <1>7, SeqEqual
<1> QED BY <1>2, <1>8 DEF a, b, u, v

-----------------------------------------------------------------------------
(* A request on the wire.                                                  *)

\* The lines of a head.
LEMMA HeadLineFacts ==
  ASSUME NEW h \in HeadLines
  PROVE  /\ h \in Tokens /\ h.kind \in {"header", "text"}
         /\ h.kind = "header" =>
              h.data \in Headers /\ h.data.key \in STRING /\ h.data.value \in Seq(STRING)
<1>1. CASE h \in [kind : {"header"}, data : Headers]
  <2>1. h.kind = "header" /\ h.data \in Headers
    BY <1>1
  <2> QED BY <2>1 DEF Tokens, Headers
<1>2. CASE h = Text
  BY <1>2 DEF Text, Tokens
<1> QED BY <1>1, <1>2 DEF HeadLines

\* The parts of a request of the peer have their types.
LEMMA RequestParts ==
  ASSUME NEW r \in Requests
  PROVE  /\ r.line \in Lines /\ r.headers \in Seq(HeadLines) /\ r.body \in Seq(Tokens)
         /\ Len(r.headers) \in Nat /\ Len(r.body) \in Nat
         /\ DOMAIN r.headers = 1..Len(r.headers)
         /\ \A n \in 1..Len(r.headers) : r.headers[n] \in HeadLines
<1>1. r \in [line : Lines, headers : Seq(HeadLines), body : Seq(Tokens)]
  BY HttpAssumption
<1>2. r.line \in Lines /\ r.headers \in Seq(HeadLines) /\ r.body \in Seq(Tokens)
  BY <1>1
<1>3. DOMAIN r.headers = 1..Len(r.headers) /\ \A n \in 1..Len(r.headers) : r.headers[n] \in HeadLines
  BY <1>2
<1> QED BY <1>2, <1>3

\* The tokens and their kinds.
LEMMA TokenFacts ==
  /\ \A l \in Lines : /\ Token("line", l) \in Tokens /\ Token("line", l).kind = "line"
                      /\ Token("line", l).data = l
  /\ CRLF \in Tokens /\ CRLF.kind = "crlf"
BY DEF Tokens, Token, CRLF

\* What comes with a token.
LEMMA DataFacts ==
  ASSUME NEW t \in Tokens
  PROVE  /\ t.kind = "line" => t.data \in Lines
         /\ t.kind = "header" => t.data \in Headers
<1>1. CASE t \in [kind : {"line"}, data : Lines]
  BY <1>1
<1>2. CASE t \in [kind : {"header"}, data : Headers]
  BY <1>2
<1>3. CASE t = Text \/ t = CRLF
  BY <1>3 DEF Text, CRLF
<1> QED BY <1>1, <1>2, <1>3 DEF Tokens, HeadLines

\* Every second token of the header lines is a line end.
LEMMA HeaderLinesFacts ==
  ASSUME NEW hs \in Seq(HeadLines)
  PROVE  /\ HeaderLines(hs) \in Seq(Tokens) /\ Len(HeaderLines(hs)) = 2 * Len(hs)
         /\ \A n \in 1..Len(hs) : /\ HeaderLines(hs)[2 * n - 1] = hs[n]
                                  /\ HeaderLines(hs)[2 * n] = CRLF
<1> DEFINE t == HeaderLines(hs)
<1>1. Len(hs) \in Nat /\ 2 * Len(hs) \in Nat /\ \A n \in 1..Len(hs) : hs[n] \in HeadLines
  OBVIOUS
<1>2. t = [i \in 1..2 * Len(hs) |-> IF i % 2 = 0 THEN CRLF ELSE hs[(i + 1) \div 2]]
  BY DEF HeaderLines
<1> HIDE DEF t
<1>3. ASSUME NEW i \in 1..2 * Len(hs) PROVE t[i] \in Tokens
  <2>1. CASE i % 2 = 0
    BY <1>2, <2>1, TokenFacts
  <2>2. CASE i % 2 # 0
    <3>1. (i + 1) \div 2 \in 1..Len(hs)
      BY <1>1, <2>2
    <3>2. hs[(i + 1) \div 2] \in Tokens
      BY <1>1, <3>1, HeadLineFacts
    <3> QED BY <1>2, <2>2, <3>2
  <2> QED BY <2>1, <2>2
<1>4. t \in [1..2 * Len(hs) -> Tokens]
  BY <1>2, <1>3
<1>5. t \in Seq(Tokens) /\ Len(t) = 2 * Len(hs)
  BY <1>1, <1>4
<1>6. ASSUME NEW n \in 1..Len(hs)
      PROVE  t[2 * n - 1] = hs[n] /\ t[2 * n] = CRLF
  <2>1. /\ 2 * n - 1 \in 1..2 * Len(hs) /\ (2 * n - 1) % 2 # 0 /\ ((2 * n - 1) + 1) \div 2 = n
        /\ 2 * n \in 1..2 * Len(hs) /\ (2 * n) % 2 = 0
    BY <1>1
  <2> QED BY <1>2, <2>1
<1> QED BY <1>5, <1>6 DEF t

\* Where what stands in a request.
LEMMA WireFacts ==
  ASSUME NEW r \in Requests
  PROVE  /\ Wire(r) \in Seq(Tokens)
         /\ Len(Wire(r)) = 2 * Len(r.headers) + 3 + Len(r.body)
         /\ Wire(r)[1] = Token("line", r.line) /\ Wire(r)[2] = CRLF
         /\ \A n \in 1..Len(r.headers) : /\ Wire(r)[2 * n + 1] = r.headers[n]
                                         /\ Wire(r)[2 * n + 2] = CRLF
         /\ Wire(r)[2 * Len(r.headers) + 3] = CRLF
<1> DEFINE N == Len(r.headers)
           L == <<Token("line", r.line), CRLF>>
           H == HeaderLines(r.headers)
           E == <<CRLF>>
           B == r.body
           s1 == L \o H  s2 == s1 \o E  s3 == s2 \o B
<1>0. /\ N \in Nat /\ r.headers \in Seq(HeadLines) /\ B \in Seq(Tokens) /\ Len(B) \in Nat
      /\ r.line \in Lines
  BY RequestParts
<1>1. /\ L \in Seq(Tokens) /\ Len(L) = 2 /\ L[1] = Token("line", r.line) /\ L[2] = CRLF
      /\ E \in Seq(Tokens) /\ Len(E) = 1 /\ E[1] = CRLF
  BY <1>0, TokenFacts
<1>2. /\ H \in Seq(Tokens) /\ Len(H) = 2 * N
      /\ \A n \in 1..N : H[2 * n - 1] = r.headers[n] /\ H[2 * n] = CRLF
  BY <1>0, HeaderLinesFacts
<1> HIDE DEF L, H, E, B, N
<1>4. /\ s1 \in Seq(Tokens) /\ Len(s1) = 2 + 2 * N
      /\ \A i \in 1..2 + 2 * N : s1[i] = IF i <= 2 THEN L[i] ELSE H[i - 2]
  <2>1. /\ s1 \in Seq(Tokens) /\ Len(s1) = Len(L) + Len(H)
        /\ \A i \in 1..Len(L) + Len(H) : s1[i] = IF i <= Len(L) THEN L[i] ELSE H[i - Len(L)]
    BY <1>1, <1>2, ConcatProperties
  <2> HIDE DEF s1
  <2> QED BY <1>0, <1>1, <1>2, <2>1
<1> HIDE DEF s1
<1>5. /\ s2 \in Seq(Tokens) /\ Len(s2) = 3 + 2 * N
      /\ \A i \in 1..3 + 2 * N : s2[i] = IF i <= 2 + 2 * N THEN s1[i] ELSE E[i - (2 + 2 * N)]
  <2>1. /\ s2 \in Seq(Tokens) /\ Len(s2) = Len(s1) + Len(E)
        /\ \A i \in 1..Len(s1) + Len(E) : s2[i] = IF i <= Len(s1) THEN s1[i] ELSE E[i - Len(s1)]
    BY <1>1, <1>4, ConcatProperties
  <2>2. Len(s1) + Len(E) = 3 + 2 * N
    BY <1>0, <1>1, <1>4
  <2> HIDE DEF s2
  <2> QED BY <1>4, <2>1, <2>2
<1> HIDE DEF s2
<1>6. /\ s3 \in Seq(Tokens) /\ Len(s3) = 2 * N + 3 + Len(B)
      /\ \A i \in 1..3 + 2 * N : s3[i] = s2[i]
  <2>1. /\ s3 \in Seq(Tokens) /\ Len(s3) = Len(s2) + Len(B)
        /\ \A i \in 1..Len(s2) + Len(B) : s3[i] = IF i <= Len(s2) THEN s2[i] ELSE B[i - Len(s2)]
    BY <1>0, <1>5, ConcatProperties
  <2> HIDE DEF s3
  <2>2. \A i \in 1..3 + 2 * N : i \in 1..Len(s2) + Len(B) /\ i <= Len(s2)
    BY <1>0, <1>5
  <2> QED BY <1>0, <1>5, <2>1, <2>2
<1> HIDE DEF s3
<1>7. s3 = Wire(r)
  BY DEF s1, s2, s3, L, H, E, B, Wire
<1>8. \A i \in 1..2 + 2 * N : s3[i] = IF i <= 2 THEN L[i] ELSE H[i - 2]
  <2> SUFFICES ASSUME NEW i \in 1..2 + 2 * N PROVE s3[i] = s1[i]
    BY <1>4
  <2>1. i \in 1..3 + 2 * N /\ i <= 2 + 2 * N
    BY <1>0
  <2> QED BY <1>5, <1>6, <2>1
<1>9. s3[1] = Token("line", r.line) /\ s3[2] = CRLF
  <2>1. 1 \in 1..2 + 2 * N /\ 2 \in 1..2 + 2 * N
    BY <1>0
  <2> QED BY <1>1, <1>8, <2>1
<1>10. ASSUME NEW n \in 1..N PROVE s3[2 * n + 1] = r.headers[n] /\ s3[2 * n + 2] = CRLF
  <2>1. /\ 2 * n + 1 \in 1..2 + 2 * N /\ ~(2 * n + 1 <= 2) /\ 2 * n + 1 - 2 = 2 * n - 1
        /\ 2 * n + 2 \in 1..2 + 2 * N /\ ~(2 * n + 2 <= 2) /\ 2 * n + 2 - 2 = 2 * n
    BY <1>0
  <2>2. s3[2 * n + 1] = H[2 * n - 1] /\ s3[2 * n + 2] = H[2 * n]
    BY <1>8, <2>1
  <2> QED BY <1>2, <2>2
<1>11. s3[2 * N + 3] = CRLF
  <2> SUFFICES ASSUME NEW j, j = 2 * N + 3 PROVE s3[j] = CRLF
    OBVIOUS
  <2>1. j \in 1..3 + 2 * N /\ ~(j <= 2 + 2 * N) /\ j - (2 + 2 * N) = 1
    BY <1>0
  <2>2. s3[j] = s2[j]
    BY <1>6, <2>1
  <2>3. s2[j] = E[j - (2 + 2 * N)]
    BY <1>5, <2>1
  <2> QED BY <1>1, <2>1, <2>2, <2>3
<1> QED BY <1>6, <1>7, <1>9, <1>10, <1>11 DEF N, B

\* There is at least the line and the empty line.
LEMMA WireLong ==
  ASSUME NEW r \in Requests
  PROVE  Len(Wire(r)) \in Nat /\ Len(Wire(r)) >= 3 /\ Len(Wire(r)) >= 2 * Len(r.headers) + 3
<1> DEFINE N == Len(r.headers)  W == Len(Wire(r))  B == Len(r.body)
<1>1. N \in Nat /\ B \in Nat
  BY RequestParts
<1>2. W = 2 * N + 3 + B
  BY WireFacts
<1> HIDE DEF N, W, B
<1>4. W \in Nat /\ W >= 3 /\ W >= 2 * N + 3
  BY <1>1, <1>2
<1> QED BY <1>4 DEF N, W

\* The stream from a place in a request on.
LEMMA FromFacts ==
  ASSUME NEW r \in Requests, NEW behind \in Seq(Tokens), NEW p \in 1..Len(Wire(r))
  PROVE  /\ From(p, r, behind) \in Seq(Tokens)
         /\ Len(From(p, r, behind)) = Len(Wire(r)) - p + 1 + Len(behind)
         /\ \A i \in 1..Len(Wire(r)) - p + 1 : From(p, r, behind)[i] = Wire(r)[p + i - 1]
<1> DEFINE W == Wire(r)  s == SubSeq(W, p, Len(W))  u == s \o behind
<1>1. W \in Seq(Tokens)
  BY WireFacts
<1> HIDE DEF W
<1>2. Len(W) \in Nat /\ p \in 1..Len(W) /\ p \in Int /\ Len(W) - p + 1 \in Nat
  BY <1>1 DEF W
<1>3. /\ s \in Seq(Tokens) /\ Len(s) = Len(W) - p + 1
      /\ \A i \in 1..Len(W) - p + 1 : s[i] = W[p + i - 1]
  <2>1. \A i \in p..Len(W) : W[i] \in Tokens
    BY <1>1, <1>2
  <2>2. /\ s \in Seq(Tokens) /\ Len(s) = IF p <= Len(W) THEN Len(W) - p + 1 ELSE 0
        /\ \A i \in 1..Len(W) - p + 1 : s[i] = W[p + i - 1]
    BY <1>2, <2>1, SubSeqProperties
  <2> QED BY <1>2, <2>2
<1> HIDE DEF s
<1>4. /\ u \in Seq(Tokens) /\ Len(u) = Len(s) + Len(behind)
      /\ \A i \in 1..Len(s) + Len(behind) : u[i] = IF i <= Len(s) THEN s[i] ELSE behind[i - Len(s)]
  BY <1>3, ConcatProperties
<1> HIDE DEF u
<1>5. ASSUME NEW i \in 1..Len(W) - p + 1 PROVE u[i] = W[p + i - 1]
  <2>1. i <= Len(s) /\ i \in 1..Len(s) + Len(behind)
    BY <1>2, <1>3
  <2> QED BY <1>3, <1>4, <2>1
<1>6. u = From(p, r, behind)
  BY DEF u, s, W, From
<1> QED BY <1>3, <1>4, <1>5, <1>6 DEF W

\* From its first place on, a request is whole; behind its last, there is
\* nothing left of it.
LEMMA FromEnds ==
  ASSUME NEW r \in Requests, NEW behind \in Seq(Tokens)
  PROVE  /\ From(1, r, behind) = Wire(r) \o behind
         /\ From(Len(Wire(r)) + 1, r, behind) = behind
<1>0. Wire(r) \in Seq(Tokens)
  BY WireFacts
<1>1. Wire(r) \in Seq(Tokens) /\ Len(Wire(r)) \in Nat
  BY <1>0
<1>2. SubSeq(Wire(r), 1, Len(Wire(r))) = Wire(r)
  BY <1>1
<1>3. SubSeq(Wire(r), Len(Wire(r)) + 1, Len(Wire(r))) = <<>>
  BY <1>1
<1>4. <<>> \o behind = behind
  BY ConcatEmptySeq
<1> QED BY <1>2, <1>3, <1>4 DEF From

\* Dropping m tokens moves the place by m.
LEMMA FromDrop ==
  ASSUME NEW r \in Requests, NEW behind \in Seq(Tokens), NEW p \in 1..Len(Wire(r)),
         NEW m \in 1..Len(Wire(r)) - p + 1
  PROVE  SubSeq(From(p, r, behind), m + 1, Len(From(p, r, behind))) = From(p + m, r, behind)
<1> DEFINE W == Wire(r)  s == SubSeq(W, p, Len(W))
           a == SubSeq(s, m + 1, Len(s))  b == SubSeq(W, p + m, Len(W))
<1>1. W \in Seq(Tokens)
  BY WireFacts
<1> HIDE DEF W
<1>2. /\ Len(W) \in Nat /\ p \in 1..Len(W) /\ p \in Int /\ m \in 1..Len(W) - p + 1 /\ m \in Int
      /\ p + m \in Int /\ m + 1 \in Int
  BY <1>1 DEF W
<1>3. /\ s \in Seq(Tokens) /\ Len(s) = Len(W) - p + 1
      /\ \A i \in 1..Len(W) - p + 1 : s[i] = W[p + i - 1]
  <2>1. \A i \in p..Len(W) : W[i] \in Tokens
    BY <1>1, <1>2
  <2>2. /\ s \in Seq(Tokens) /\ Len(s) = IF p <= Len(W) THEN Len(W) - p + 1 ELSE 0
        /\ \A i \in 1..Len(W) - p + 1 : s[i] = W[p + i - 1]
    BY <1>2, <2>1, SubSeqProperties
  <2> QED BY <1>2, <2>2
<1>4. /\ b \in Seq(Tokens) /\ Len(b) = Len(W) - (p + m) + 1
      /\ \A i \in 1..Len(W) - (p + m) + 1 : b[i] = W[(p + m) + i - 1]
  <2>1. \A i \in p + m..Len(W) : W[i] \in Tokens
    BY <1>1, <1>2
  <2>2. /\ b \in Seq(Tokens) /\ Len(b) = IF p + m <= Len(W) THEN Len(W) - (p + m) + 1 ELSE 0
        /\ \A i \in 1..Len(W) - (p + m) + 1 : b[i] = W[(p + m) + i - 1]
    BY <1>2, <2>1, SubSeqProperties
  <2> QED BY <1>2, <2>2
<1> HIDE DEF s, b
<1>5. m \in 1..Len(s)
  BY <1>2, <1>3
<1>6. /\ a \in Seq(Tokens) /\ Len(a) = Len(s) - m
      /\ a \o behind = SubSeq(s \o behind, m + 1, Len(s \o behind))
  BY <1>3, <1>5, DropFacts
<1>7. \A i \in 1..Len(s) - m : a[i] = s[m + i]
  <2>0. Len(s) \in Int /\ m + 1 \in Int
    BY <1>2, <1>3
  <2>1. \A i \in m + 1..Len(s) : s[i] \in Tokens
    BY <1>2, <1>3
  <2>2. /\ a \in Seq(Tokens) /\ Len(a) = IF m + 1 <= Len(s) THEN Len(s) - (m + 1) + 1 ELSE 0
        /\ \A i \in 1..Len(s) - (m + 1) + 1 : a[i] = s[m + 1 + i - 1]
    BY <2>0, <2>1, SubSeqProperties
  <2> HIDE DEF a
  <2> SUFFICES ASSUME NEW i \in 1..Len(s) - m PROVE a[i] = s[m + i]
    OBVIOUS
  <2>3. Len(s) \in Nat /\ i \in 1..Len(s) - (m + 1) + 1 /\ m + 1 + i - 1 = m + i
    BY <1>2, <1>3
  <2> QED BY <2>2, <2>3
<1> HIDE DEF a
<1>8. a = b
  <2>1. Len(a) = Len(b)
    <3>1. (Len(W) - p + 1) - m = Len(W) - (p + m) + 1
      BY <1>2
    <3> QED BY <1>3, <1>4, <1>6, <3>1
  <2>2. ASSUME NEW i \in 1..Len(a) PROVE a[i] = b[i]
    <3>1. /\ i \in 1..Len(s) - m /\ i \in 1..Len(W) - (p + m) + 1 /\ m + i \in 1..Len(W) - p + 1
          /\ p + (m + i) - 1 = (p + m) + i - 1
      BY <1>2, <1>3, <1>6
    <3> QED BY <1>3, <1>4, <1>7, <3>1
  <2> QED BY <1>4, <1>6, <2>1, <2>2, SeqEqual
<1> QED BY <1>6, <1>8 DEF s, b, W, From

-----------------------------------------------------------------------------
(* HttpRequest.                                                            *)

\* Only a request line is taken for one.
LEMMA LineFacts ==
  ASSUME NEW t \in Tokens
  PROVE  ParseLine(<<t>>) => t.kind = "line"
<1>1. Len(<<t>>) = 1 /\ <<t>>[1] = t
  OBVIOUS
<1> QED BY <1>1 DEF ParseLine

\* The value of a header is trimmed as ValueOf says.
LEMMA TrimmedFacts ==
  ASSUME NEW v \in Seq(STRING)
  PROVE  Trimmed(v) \in Seq(STRING) /\ ValueOf(v, Trimmed(v))
<1> DEFINE inside == {i \in DOMAIN v : v[i] # " "}  lo == Min(inside)  hi == Max(inside)
<1>1. DOMAIN v = 1..Len(v) /\ Len(v) \in Nat /\ \A i \in 1..Len(v) : v[i] \in STRING
  OBVIOUS
<1>2. CASE inside = {}
  <2>1. Spaces(v)
    BY <1>2 DEF Spaces
  <2>2. Trimmed(v) = <<>>
    BY <1>2 DEF Trimmed
  <2>3. <<>> \in Seq(STRING)
    OBVIOUS
  <2> QED BY <2>1, <2>2, <2>3 DEF ValueOf
<1>3. CASE inside # {}
  <2>0. \A i \in inside : i \in 1..Len(v)
    BY <1>1
  <2>1. inside \in SUBSET Nat /\ inside \in SUBSET (1..Len(v))
    <3> HIDE DEF inside
    <3> QED BY <1>1, <2>0
  <2>2. Trimmed(v) = SubSeq(v, lo, hi - 1)
    BY <1>3 DEF Trimmed
  <2>3. \A i \in 1..Len(v) : i \in inside <=> v[i] # " "
    BY <1>1
  <2>4. ~Spaces(v)
    BY <1>3 DEF Spaces
  <2> HIDE DEF inside
  <2>5. lo \in inside /\ \A k \in inside : lo <= k
    BY <1>3, <2>1, MinFacts
  <2>6. hi \in inside /\ \A k \in inside : k <= hi
    BY <1>1, <1>3, <2>1, MaxFacts
  <2> HIDE DEF lo, hi
  <2>7. lo \in 1..Len(v) /\ hi \in 1..Len(v) /\ lo <= hi /\ lo \in Int /\ hi \in Int
    BY <1>1, <2>1, <2>5, <2>6
  <2>8. SubSeq(v, lo, hi - 1) \in Seq(STRING)
    <3>1. \A i \in lo..hi - 1 : v[i] \in STRING
      BY <1>1, <2>7
    <3>2. hi - 1 \in Int
      BY <2>7
    <3> QED BY <2>7, <3>1, <3>2, SubSeqProperties
  <2> DEFINE a == lo - 1
  <2>9. a \in 0..Len(v) /\ hi \in 0..Len(v) /\ a < hi /\ a + 1 = lo /\ a \in Int
    BY <1>1, <2>7
  <2> HIDE DEF a
  <2>10. v[a + 1] # " " /\ v[hi] # " "
    BY <2>3, <2>5, <2>6, <2>7, <2>9
  <2>11. Spaces(SubSeq(v, 1, a))
    <3>1. \A i \in 1..a : v[i] \in STRING
      BY <1>1, <2>9
    <3>2. /\ SubSeq(v, 1, a) \in Seq(STRING)
          /\ Len(SubSeq(v, 1, a)) = IF 1 <= a THEN a - 1 + 1 ELSE 0
          /\ \A i \in 1..a - 1 + 1 : SubSeq(v, 1, a)[i] = v[1 + i - 1]
      BY <2>9, <3>1, SubSeqProperties
    <3>3. Len(SubSeq(v, 1, a)) = a
      BY <2>9, <3>2
    <3>4. DOMAIN SubSeq(v, 1, a) = 1..a
      BY <3>2, <3>3
    <3>5. ASSUME NEW i \in 1..a PROVE SubSeq(v, 1, a)[i] = " "
      <4>1. i \in 1..a - 1 + 1 /\ 1 + i - 1 = i /\ i \in 1..Len(v) /\ ~(lo <= i)
        BY <1>1, <2>7, <2>9
      <4>2. SubSeq(v, 1, a)[i] = v[i]
        BY <3>2, <4>1
      <4>3. v[i] = " "
        BY <2>3, <2>5, <4>1
      <4> QED BY <4>2, <4>3
    <3> QED BY <3>4, <3>5 DEF Spaces
  <2>12. Spaces(SubSeq(v, hi + 1, Len(v)))
    <3> DEFINE w == SubSeq(v, hi + 1, Len(v))
    <3>1. (\A i \in hi + 1..Len(v) : v[i] \in STRING) /\ hi + 1 \in Int /\ Len(v) \in Int
      BY <1>1, <2>7
    <3>2. /\ w \in Seq(STRING)
          /\ Len(w) = IF hi + 1 <= Len(v) THEN Len(v) - (hi + 1) + 1 ELSE 0
          /\ \A i \in 1..Len(v) - (hi + 1) + 1 : w[i] = v[(hi + 1) + i - 1]
      BY <3>1, SubSeqProperties
    <3> HIDE DEF w
    <3>3. Len(w) = Len(v) - hi
      <4>0. Len(v) \in Nat /\ hi \in Int /\ hi <= Len(v)
        BY <1>1, <2>7
      <4>1. CASE hi + 1 <= Len(v)
        BY <3>2, <4>0, <4>1
      <4>2. CASE ~(hi + 1 <= Len(v))
        BY <3>2, <4>0, <4>2
      <4> QED BY <4>1, <4>2
    <3>4. DOMAIN w = 1..Len(v) - hi
      BY <3>2, <3>3
    <3>5. ASSUME NEW i \in 1..Len(v) - hi PROVE w[i] = " "
      <4>1. /\ i \in 1..Len(v) - (hi + 1) + 1 /\ (hi + 1) + i - 1 = hi + i
            /\ hi + i \in 1..Len(v) /\ ~(hi + i <= hi)
        BY <1>1, <2>7
      <4>2. w[i] = v[hi + i]
        BY <3>2, <4>1
      <4>3. v[hi + i] = " "
        BY <2>3, <2>6, <4>1
      <4> QED BY <4>2, <4>3
    <3>6. Spaces(w)
      BY <3>4, <3>5 DEF Spaces
    <3> QED BY <3>6 DEF w
  <2>13. Trimmed(v) = SubSeq(v, a + 1, hi - 1)
    BY <2>2, <2>9
  <2>14. ValueOf(v, Trimmed(v))
    BY <2>4, <2>9, <2>10, <2>11, <2>12, <2>13 DEF ValueOf
  <2> QED BY <2>2, <2>8, <2>14
<1> QED BY <1>2, <1>3

\* SetUrl and SetQuery cut the target at its first question mark.
LEMMA TargetFacts ==
  ASSUME NEW s \in Seq(STRING),
         NEW q, q = SelectInSeq(s, LAMBDA c : c = "?"),
         NEW e, e = IF q = 0 THEN Len(s) ELSE q - 1
  PROVE  /\ SubSeq(s, 1, e) \in Seq(STRING) /\ SubSeq(s, e + 1, Len(s)) \in Seq(STRING)
         /\ SubSeq(s, 1, e) \o SubSeq(s, e + 1, Len(s)) = s
         /\ "?" \notin Range(SubSeq(s, 1, e))
         /\ SubSeq(s, e + 1, Len(s)) # <<>> => Head(SubSeq(s, e + 1, Len(s))) = "?"
<1> DEFINE marks == {i \in 1..Len(s) : s[i] = "?"}
<1>0. Len(s) \in Nat /\ \A i \in 1..Len(s) : s[i] \in STRING
  OBVIOUS
<1>1. q = IF marks # {} THEN Min(marks) ELSE 0
  BY DEF SelectInSeq
<1>2. marks # {} => Min(marks) \in marks /\ \A k \in marks : Min(marks) <= k
  <2>1. marks \in SUBSET Nat
    OBVIOUS
  <2> HIDE DEF marks
  <2> QED BY <2>1, MinFacts
<1>3. /\ e \in 0..Len(s) /\ e \in Int
      /\ \A i \in 1..e : s[i] # "?"
      /\ e < Len(s) => s[e + 1] = "?"
  <2>1. CASE marks = {}
    BY <1>0, <1>1, <2>1
  <2>2. CASE marks # {}
    <3>1. q \in marks /\ \A k \in marks : q <= k
      BY <1>1, <1>2, <2>2
    <3>2. q \in 1..Len(s) /\ s[q] = "?" /\ e = q - 1
      BY <1>0, <3>1
    <3>3. e \in 0..Len(s) /\ e \in Int /\ e + 1 = q
      BY <1>0, <3>2
    <3>4. ASSUME NEW i \in 1..e PROVE s[i] # "?"
      <4>1. i \in 1..Len(s) /\ ~(q <= i)
        BY <1>0, <3>2, <3>3
      <4> QED BY <3>1, <4>1
    <3> QED BY <3>2, <3>3, <3>4
  <2> QED BY <2>1, <2>2
<1> DEFINE a == SubSeq(s, 1, e)  b == SubSeq(s, e + 1, Len(s))  u == a \o b
<1>4. /\ a \in Seq(STRING) /\ Len(a) = e /\ \A i \in 1..e : a[i] = s[i]
  <2>1. \A i \in 1..e : s[i] \in STRING
    BY <1>0, <1>3
  <2>2. /\ a \in Seq(STRING) /\ Len(a) = IF 1 <= e THEN e - 1 + 1 ELSE 0
        /\ \A i \in 1..e - 1 + 1 : a[i] = s[1 + i - 1]
    BY <1>3, <2>1, SubSeqProperties
  <2> HIDE DEF a
  <2>3. ASSUME NEW i \in 1..e PROVE a[i] = s[i]
    <3>1. i \in 1..e - 1 + 1 /\ 1 + i - 1 = i
      BY <1>3
    <3> QED BY <2>2, <3>1
  <2> QED BY <1>3, <2>2, <2>3
<1>5. /\ b \in Seq(STRING) /\ Len(b) = Len(s) - e /\ \A i \in 1..Len(s) - e : b[i] = s[e + i]
  <2>1. (\A i \in e + 1..Len(s) : s[i] \in STRING) /\ e + 1 \in Int /\ Len(s) \in Int
    <3>1. ASSUME NEW i \in e + 1..Len(s) PROVE s[i] \in STRING
      <4>1. i \in 1..Len(s)
        BY <1>0, <1>3
      <4> QED BY <1>0, <4>1
    <3>2. e + 1 \in Int
      BY <1>3
    <3>3. Len(s) \in Int
      BY <1>0
    <3> QED BY <3>1, <3>2, <3>3
  <2>2. /\ b \in Seq(STRING) /\ Len(b) = IF e + 1 <= Len(s) THEN Len(s) - (e + 1) + 1 ELSE 0
        /\ \A i \in 1..Len(s) - (e + 1) + 1 : b[i] = s[(e + 1) + i - 1]
    BY <2>1, SubSeqProperties
  <2> HIDE DEF b
  <2>3. ASSUME NEW i \in 1..Len(s) - e PROVE b[i] = s[e + i]
    <3>1. i \in 1..Len(s) - (e + 1) + 1 /\ (e + 1) + i - 1 = e + i
      BY <1>0, <1>3
    <3> QED BY <2>2, <3>1
  <2>4. Len(b) = Len(s) - e
    BY <1>0, <1>3, <2>2
  <2> QED BY <2>2, <2>3, <2>4
<1> HIDE DEF a, b
<1>6. u = s
  <2>1. /\ u \in Seq(STRING) /\ Len(u) = Len(a) + Len(b)
        /\ \A i \in 1..Len(a) + Len(b) : u[i] = IF i <= Len(a) THEN a[i] ELSE b[i - Len(a)]
    BY <1>4, <1>5, ConcatProperties
  <2> HIDE DEF u
  <2>2. Len(u) = Len(s)
    BY <1>0, <1>3, <1>4, <1>5, <2>1
  <2>3. ASSUME NEW i \in 1..Len(u) PROVE u[i] = s[i]
    <3>1. i \in 1..Len(s) /\ i \in 1..Len(a) + Len(b)
      BY <2>1, <2>2
    <3>2. CASE i <= e
      BY <1>0, <1>3, <1>4, <2>1, <3>1, <3>2
    <3>3. CASE ~(i <= e)
      <4>1. i - e \in 1..Len(s) - e /\ e + (i - e) = i
        BY <1>0, <1>3, <3>1, <3>3
      <4>2. b[i - e] = s[i]
        BY <1>5, <4>1
      <4> QED BY <1>4, <2>1, <3>1, <3>3, <4>2
    <3> QED BY <3>2, <3>3
  <2> QED BY <2>1, <2>2, <2>3, SeqEqual
<1>7. "?" \notin Range(a)
  <2>1. DOMAIN a = 1..e
    BY <1>4
  <2> QED BY <1>3, <1>4, <2>1 DEF Range
<1>8. b # <<>> => Head(b) = "?"
  <2> SUFFICES ASSUME b # <<>> PROVE Head(b) = "?"
    OBVIOUS
  <2>1. Len(b) \in Nat /\ Len(b) # 0 /\ Head(b) = b[1]
    BY <1>5
  <2>2. 1 \in 1..Len(s) - e /\ e < Len(s)
    BY <1>0, <1>3, <1>5, <2>1
  <2> QED BY <1>3, <1>5, <2>1, <2>2
<1> QED BY <1>4, <1>5, <1>6, <1>7, <1>8 DEF a, b, u

\* A new HttpRequest has no headers.
LEMMA NewFacts ==
  /\ NewRequest \in HttpRequests /\ NewRequest.state_ = "kParseLine"
  /\ NewRequest.headers_ = <<>> /\ <<>> \in HeaderMaps /\ DOMAIN <<>> = {}
<1>1. DOMAIN <<>> = {}
  OBVIOUS
<1>2. <<>> \in [{} -> Seq(STRING)]
  OBVIOUS
<1>3. {} \in SUBSET STRING
  OBVIOUS
<1>4. <<>> \in HeaderMaps
  BY <1>2, <1>3 DEF HeaderMaps
<1>5. <<>> \in Seq(STRING)
  OBVIOUS
<1>6. "Unknown" \in Methods /\ "http11" \in Versions
  BY DEF Methods, Versions
<1> QED BY <1>1, <1>4, <1>5, <1>6 DEF NewRequest, HttpRequests

\* What is made of a line whose parts are known.
LEMMA ParsedTyped ==
  ASSUME NEW l \in Lines, SetMethod(l.method) # "Unknown", SetVersion(l.version) # "Unknown"
  PROVE  /\ Parsed(l) \in HttpRequests /\ Parsed(l).state_ = "kParseHeader"
         /\ Parsed(l).method_ = l.method /\ Parsed(l).url_ \o Parsed(l).query_ = l.target
         /\ "?" \notin Range(Parsed(l).url_)
         /\ Parsed(l).query_ # <<>> => Head(Parsed(l).query_) = "?"
         /\ Parsed(l).headers_ = <<>>
<1> DEFINE q == SelectInSeq(l.target, LAMBDA c : c = "?")
           e == IF q = 0 THEN Len(l.target) ELSE q - 1
           url == SubSeq(l.target, 1, e)
           query == SubSeq(l.target, e + 1, Len(l.target))
           p == Parsed(l)
<1>3. SetMethod(l.method) = l.method /\ l.method \in Methods
  BY DEF SetMethod, Methods
<1>4. SetVersion(l.version) \in Versions
  BY DEF SetVersion, Versions
<1>5. l.target \in Seq(STRING)
  BY DEF Lines
<1>6. /\ url \in Seq(STRING) /\ query \in Seq(STRING) /\ url \o query = l.target
      /\ "?" \notin Range(url) /\ (query # <<>> => Head(query) = "?")
  <2> HIDE DEF q
  <2>1. q = SelectInSeq(l.target, LAMBDA c : c = "?")
    BY DEF q
  <2> HIDE DEF e
  <2>2. e = IF q = 0 THEN Len(l.target) ELSE q - 1
    BY DEF e
  <2> QED BY <1>5, <2>1, <2>2, TargetFacts
<1>7. p = [NewRequest EXCEPT !.state_ = "kParseHeader", !.method_ = SetMethod(l.method),
             !.version_ = SetVersion(l.version), !.url_ = url, !.query_ = query]
  BY DEF Parsed
<1> HIDE DEF url, query, p
<1>8. /\ p.state_ = "kParseHeader" /\ p.method_ = l.method /\ p.version_ \in Versions
      /\ p.url_ = url /\ p.query_ = query /\ p.headers_ = <<>>
  BY <1>3, <1>4, <1>7 DEF NewRequest
<1>9. p \in HttpRequests
  BY <1>3, <1>4, <1>6, <1>7, NewFacts DEF HttpRequests
<1> QED BY <1>6, <1>8, <1>9 DEF p

\* The line of a request that ParseLine accepts.
LEMMA ParsedFacts ==
  ASSUME NEW r \in Requests, SetMethod(r.line.method) # "Unknown",
         SetVersion(r.line.version) # "Unknown"
  PROVE  Understood(Parsed(r.line), r, 0)
<1> DEFINE p == Parsed(r.line)
<1>1. r.line \in Lines
  BY RequestParts
<1>2. /\ p.method_ = r.line.method /\ p.url_ \o p.query_ = r.line.target
      /\ "?" \notin Range(p.url_) /\ (p.query_ # <<>> => Head(p.query_) = "?")
      /\ p.headers_ = <<>>
  BY <1>1, ParsedTyped
<1> HIDE DEF p
<1>3. DOMAIN p.headers_ = {r.headers[i].data.key : i \in 1..0}
  BY <1>2, NewFacts
<1>4. Understood(p, r, 0)
  BY <1>2, <1>3 DEF Understood
<1> QED BY <1>4 DEF p

\* AddHeader changes the headers alone.
LEMMA HeaderTyped ==
  ASSUME NEW q \in HttpRequests, NEW h \in Headers,
         NEW u, u = [q EXCEPT !.headers_ = AddHeader(@, h)]
  PROVE  /\ u \in HttpRequests /\ u.state_ = q.state_ /\ u.method_ = q.method_
         /\ u.version_ = q.version_ /\ u.url_ = q.url_ /\ u.query_ = q.query_
         /\ u.headers_ = [k \in DOMAIN q.headers_ \cup {h.key} |->
                            IF k = h.key THEN Trimmed(h.value) ELSE q.headers_[k]]
<1> DEFINE key == h.key  old == q.headers_  new == AddHeader(old, h)
<1>0. h.key \in STRING /\ h.value \in Seq(STRING)
  BY DEF Headers
<1>1. old \in HeaderMaps
  BY DEF HttpRequests
<1>2. PICK D \in SUBSET STRING : old \in [D -> Seq(STRING)]
  <2> HIDE DEF old
  <2> QED BY <1>1 DEF HeaderMaps
<1>3. DOMAIN old = D
  <2> HIDE DEF old
  <2> QED BY <1>2
<1>4. Trimmed(h.value) \in Seq(STRING)
  BY <1>0, TrimmedFacts
<1>5. new = [k \in D \cup {key} |-> IF k = key THEN Trimmed(h.value) ELSE old[k]]
  BY <1>3 DEF AddHeader
<1> HIDE DEF old, new
<1>6. new \in [D \cup {key} -> Seq(STRING)] /\ D \cup {key} \in SUBSET STRING
  BY <1>0, <1>2, <1>4, <1>5
<1>7. new \in HeaderMaps
  BY <1>6 DEF HeaderMaps
<1>8. u = [q EXCEPT !.headers_ = new]
  BY DEF new, old
<1>9. /\ u \in HttpRequests /\ u.state_ = q.state_ /\ u.method_ = q.method_
      /\ u.version_ = q.version_ /\ u.url_ = q.url_ /\ u.query_ = q.query_ /\ u.headers_ = new
  BY <1>7, <1>8 DEF HttpRequests
<1> QED BY <1>3, <1>5, <1>9 DEF old

\* What becomes of a request when the next header is added.
LEMMA HeaderAdded ==
  ASSUME NEW r \in Requests, NEW n \in Nat, n < Len(r.headers), r.headers[n + 1].kind = "header",
         NEW q \in HttpRequests, Understood(q, r, n),
         NEW u, u = [q EXCEPT !.headers_ = AddHeader(@, r.headers[n + 1].data)]
  PROVE  u \in HttpRequests /\ u.state_ = q.state_ /\ Understood(u, r, n + 1)
<1> DEFINE h == r.headers[n + 1].data  key == h.key  old == q.headers_  new == u.headers_
           D == DOMAIN old
<1>0. n + 1 \in 1..Len(r.headers)
  BY RequestParts
<1>1. h \in Headers
  BY <1>0, RequestParts, HeadLineFacts
<1> HIDE DEF h
<1>2. u = [q EXCEPT !.headers_ = AddHeader(@, h)]
  BY DEF h
<1>3. /\ u \in HttpRequests /\ u.state_ = q.state_ /\ u.method_ = q.method_
      /\ u.version_ = q.version_ /\ u.url_ = q.url_ /\ u.query_ = q.query_
      /\ new = [k \in D \cup {key} |-> IF k = key THEN Trimmed(h.value) ELSE old[k]]
  <2>1. /\ u \in HttpRequests /\ u.state_ = q.state_ /\ u.method_ = q.method_
        /\ u.version_ = q.version_ /\ u.url_ = q.url_ /\ u.query_ = q.query_
        /\ u.headers_ = [k \in DOMAIN q.headers_ \cup {h.key} |->
                           IF k = h.key THEN Trimmed(h.value) ELSE q.headers_[k]]
    <3>1. \A v : v = [q EXCEPT !.headers_ = AddHeader(@, h)] =>
            /\ v \in HttpRequests /\ v.state_ = q.state_ /\ v.method_ = q.method_
            /\ v.version_ = q.version_ /\ v.url_ = q.url_ /\ v.query_ = q.query_
            /\ v.headers_ = [k \in DOMAIN q.headers_ \cup {h.key} |->
                               IF k = h.key THEN Trimmed(h.value) ELSE q.headers_[k]]
      BY <1>1, HeaderTyped
    <3> QED BY <1>2, <3>1
  <2> QED BY <2>1
<1> HIDE DEF new, D, old
<1>10. D = {r.headers[i].data.key : i \in 1..n}
  BY DEF Understood, old, D
<1>4. \A i : i \in 1..n + 1 <=> (i \in 1..n \/ i = n + 1)
  OBVIOUS
<1>5. \A i \in 1..n + 1 : r.headers[i].kind = "header"
  BY <1>4 DEF Understood
<1>11. DOMAIN new = {r.headers[i].data.key : i \in 1..n + 1}
  <2>1. DOMAIN new = D \cup {key}
    BY <1>3
  <2> QED BY <1>4, <1>10, <2>1 DEF h
<1>12. ASSUME NEW i \in 1..n + 1,
              \A k \in (i + 1)..(n + 1) : r.headers[k].data.key # r.headers[i].data.key
       PROVE  new[r.headers[i].data.key] = Trimmed(r.headers[i].data.value)
  <2>1. CASE i = n + 1
    BY <1>3, <2>1 DEF h
  <2>2. CASE i # n + 1
    <3>1. /\ i \in 1..n /\ n + 1 \in (i + 1)..(n + 1)
          /\ \A k \in (i + 1)..n : k \in (i + 1)..(n + 1)
      BY <2>2
    <3>2. r.headers[i].data.key # key /\ r.headers[i].data.key \in D
      BY <1>10, <1>12, <3>1 DEF h
    <3>3. old[r.headers[i].data.key] = Trimmed(r.headers[i].data.value)
      BY <1>12, <3>1 DEF Understood, old
    <3> QED BY <1>3, <3>2, <3>3
  <2> QED BY <2>1, <2>2
<1>13. Understood(u, r, n + 1)
  BY <1>3, <1>5, <1>11, <1>12 DEF Understood, new
<1> QED BY <1>3, <1>13

-----------------------------------------------------------------------------
(* Where parse() stands.                                                   *)

\* The buffer is the beginning of the stream, what is still to come its end.
LEMMA RestFacts ==
  ASSUME inbox \in Seq(Tokens), InputBuffer_ \in Seq(Tokens)
  PROVE  /\ Rest \in Seq(Tokens) /\ Len(Rest) = Len(InputBuffer_) + Len(inbox)
         /\ \A i \in 1..Len(InputBuffer_) : Rest[i] = InputBuffer_[i]
         /\ \A i \in 1..Len(inbox) : Rest[Len(InputBuffer_) + i] = inbox[i]
         /\ Len(Rest) \in Nat /\ Len(InputBuffer_) \in Nat /\ Len(inbox) \in Nat
<1>0. Len(InputBuffer_) \in Nat /\ Len(inbox) \in Nat
  OBVIOUS
<1>1. /\ Rest \in Seq(Tokens) /\ Len(Rest) = Len(InputBuffer_) + Len(inbox)
      /\ \A i \in 1..Len(InputBuffer_) + Len(inbox) :
           Rest[i] = IF i <= Len(InputBuffer_) THEN InputBuffer_[i] ELSE inbox[i - Len(InputBuffer_)]
  BY ConcatProperties DEF Rest
<1>2. ASSUME NEW i \in 1..Len(InputBuffer_) PROVE Rest[i] = InputBuffer_[i]
  <2>1. i \in 1..Len(InputBuffer_) + Len(inbox) /\ i <= Len(InputBuffer_)
    BY <1>0
  <2> QED BY <1>1, <2>1
<1>3. ASSUME NEW i \in 1..Len(inbox) PROVE Rest[Len(InputBuffer_) + i] = inbox[i]
  <2> SUFFICES ASSUME NEW j, j = Len(InputBuffer_) + i PROVE Rest[j] = inbox[i]
    OBVIOUS
  <2>1. /\ j \in 1..Len(InputBuffer_) + Len(inbox) /\ ~(j <= Len(InputBuffer_))
        /\ j - Len(InputBuffer_) = i
    BY <1>0
  <2> QED BY <1>1, <2>1
<1> QED BY <1>0, <1>1, <1>2, <1>3

\* The next requests of the peer.
LEMMA ComingFacts ==
  ASSUME TypeInv, NEW c, Stream(c), Len(handed) < Len(sent)
  PROVE  /\ sent[Len(handed) + 1] \in Requests
         /\ c[Len(handed) + 1] \in Seq(Tokens)
         /\ c[Len(handed)] = From(1, sent[Len(handed) + 1], c[Len(handed) + 1])
<1> DEFINE k == Len(handed)
<1>0. k \in Nat /\ Len(sent) \in Nat /\ sent \in Seq(Requests) /\ k < Len(sent)
  BY DEF TypeInv, TypeOK
<1> HIDE DEF k
<1>1. k + 1 \in 1..Len(sent) /\ k + 1 \in 0..Len(sent) /\ (k + 1) - 1 = k
  BY <1>0
<1>2. sent[k + 1] \in Requests /\ c[k + 1] \in Seq(Tokens)
  BY <1>0, <1>1 DEF Stream
<1>3. c[k] = Wire(sent[k + 1]) \o c[k + 1]
  BY <1>1 DEF Stream
<1>4. c[k] = From(1, sent[k + 1], c[k + 1])
  BY <1>2, <1>3, FromEnds
<1> QED BY <1>2, <1>4 DEF k

\* Before a request, unless there is none, come its line and a line end.
LEMMA LineAhead ==
  ASSUME TypeInv, NEW c, Stream(c), Len(handed) <= Len(sent), AtLine(c), Rest # <<>>
  PROVE  /\ Len(handed) < Len(sent) /\ Len(Rest) >= 2
         /\ Rest[1] = Token("line", sent[Len(handed) + 1].line) /\ Rest[2] = CRLF
<1> DEFINE k == Len(handed)  r == sent[k + 1]
<1>0. k \in Nat /\ Len(sent) \in Nat /\ k <= Len(sent)
  BY DEF TypeInv, TypeOK
<1>1. k < Len(sent)
  <2>1. k # Len(sent)
    BY DEF Stream, AtLine
  <2> HIDE DEF k
  <2> QED BY <1>0, <2>1
<1>2. r \in Requests /\ c[k + 1] \in Seq(Tokens) /\ Rest = From(1, r, c[k + 1])
  BY <1>1, ComingFacts DEF AtLine
<1> HIDE DEF r, k
<1>3. Wire(r)[1] = Token("line", r.line) /\ Wire(r)[2] = CRLF
  BY <1>2, WireFacts
<1>5. Len(Wire(r)) \in Nat /\ Len(Wire(r)) >= 3 /\ 1 \in 1..Len(Wire(r))
  BY <1>2, WireLong
<1>6. /\ Len(Rest) = Len(Wire(r)) - 1 + 1 + Len(c[k + 1])
      /\ \A i \in 1..Len(Wire(r)) - 1 + 1 : Rest[i] = Wire(r)[1 + i - 1]
  BY <1>2, <1>5, FromFacts
<1>7. Len(Rest) >= 2
  BY <1>2, <1>5, <1>6
<1>8. Rest[1] = Wire(r)[1] /\ Rest[2] = Wire(r)[2]
  <2>1. 1 \in 1..Len(Wire(r)) - 1 + 1 /\ 2 \in 1..Len(Wire(r)) - 1 + 1
    BY <1>5
  <2> QED BY <1>6, <2>1
<1> QED BY <1>1, <1>3, <1>7, <1>8 DEF k, r

\* In a head comes a line of it and a line end, or the empty line.
LEMMA HeadAhead ==
  ASSUME TypeInv, NEW c, Stream(c), Len(handed) < Len(sent),
         NEW n \in Nat, InHead(c, n)
  PROVE  LET r == sent[Len(handed) + 1]
         IN  /\ r \in Requests /\ c[Len(handed) + 1] \in Seq(Tokens)
             /\ Len(r.headers) \in Nat /\ n <= Len(r.headers) /\ Len(Rest) >= 1
             /\ n < Len(r.headers) =>
                  /\ Len(Rest) >= 2 /\ Rest[2] = CRLF
                  /\ Rest[1] = r.headers[n + 1]
             /\ n = Len(r.headers) => Rest[1] = CRLF
<1> DEFINE r == sent[Len(handed) + 1]  b == c[Len(handed) + 1]  N == Len(r.headers)
<1>1. r \in Requests /\ b \in Seq(Tokens)
  BY ComingFacts
<1>2. n <= N /\ Rest = From(2 * n + 3, r, b)
  BY DEF InHead
<1> HIDE DEF r, b
<1>3. /\ \A i \in 1..N : /\ Wire(r)[2 * i + 1] = r.headers[i]
                         /\ Wire(r)[2 * i + 2] = CRLF
      /\ Wire(r)[2 * N + 3] = CRLF
  BY <1>1, WireFacts
<1>4. N \in Nat /\ Len(Wire(r)) \in Nat /\ Len(Wire(r)) >= 2 * N + 3
  BY <1>1, RequestParts, WireLong
<1> HIDE DEF N
<1> DEFINE p == 2 * n + 3  W == Wire(r)
<1>5. p \in Nat /\ Len(W) \in Nat /\ Len(W) >= 2 * N + 3 /\ p \in 1..Len(W)
  <2> HIDE DEF W
  <2>1. Len(W) \in Nat /\ Len(W) >= 2 * N + 3
    BY <1>4 DEF W
  <2> QED BY <1>2, <1>4, <2>1
<1>6. /\ Len(Rest) = Len(W) - p + 1 + Len(b)
      /\ \A i \in 1..Len(W) - p + 1 : Rest[i] = W[p + i - 1]
  BY <1>1, <1>2, <1>5, FromFacts
<1>7. Len(b) \in Nat
  BY <1>1
<1> HIDE DEF W
<1>8. Len(Rest) >= 1 /\ Rest[1] = W[p]
  <2>1. 1 \in 1..Len(W) - p + 1 /\ p + 1 - 1 = p
    BY <1>5
  <2>2. Rest[1] = W[p]
    BY <1>6, <2>1
  <2> HIDE DEF p
  <2> QED BY <1>5, <1>6, <1>7, <2>2
<1>9. ASSUME n < N
      PROVE  Len(Rest) >= 2 /\ Rest[2] = CRLF /\ Rest[1] = r.headers[n + 1]
  <2>1. n + 1 \in 1..N /\ 2 * (n + 1) + 1 = p /\ 2 * (n + 1) + 2 = p + 1
    BY <1>4, <1>9
  <2>2. W[p] = r.headers[n + 1] /\ W[p + 1] = CRLF
    BY <1>3, <2>1 DEF W
  <2>3. p + 1 <= Len(W)
    BY <1>4, <1>5, <1>9
  <2> HIDE DEF p
  <2>4. 2 \in 1..Len(W) - p + 1 /\ p + 2 - 1 = p + 1
    BY <1>5, <2>3
  <2>5. Rest[2] = W[p + 1]
    BY <1>6, <2>4
  <2>6. Len(Rest) >= 2
    BY <1>5, <1>6, <1>7, <2>3
  <2> QED BY <1>8, <2>2, <2>5, <2>6
<1>10. n = N => Rest[1] = CRLF
  BY <1>3, <1>8 DEF W
<1> QED BY <1>1, <1>2, <1>4, <1>8, <1>9, <1>10 DEF r, b, N

-----------------------------------------------------------------------------
(* Steps.                                                                  *)

\* The initial state.
LEMMA InitInv == Init => Inv
<1> SUFFICES ASSUME Init PROVE Inv
  OBVIOUS
<1>1. /\ \A S : <<>> \in Seq(S)
      /\ Len(<<>>) = 0 /\ DOMAIN <<>> = {}
  OBVIOUS
<1>2. TypeInv
  <2>1. MaxRequests \in Nat
    BY HttpAssumption
  <2>2. request \in HttpRequests
    BY NewFacts DEF Init
  <2>3. TypeOK
    <3>1. Len(sent) <= MaxRequests /\ sent \in Seq(Requests)
      BY <1>1, <2>1 DEF Init
    <3>2. {ok, cut, piled} \subseteq BOOLEAN
      BY DEF Init
    <3> QED BY <2>2, <3>1, <3>2 DEF Init, TypeOK, HttpRequests, Methods, Versions
  <2> QED BY <1>1, <2>2, <2>3 DEF Init, TypeInv
<1>3. PlaceInv
  BY DEF Init, PlaceInv
<1>4. StreamInv
  <2> DEFINE c == [n \in 0..0 |-> <<>>]
  <2>1. c \in [0..0 -> Seq(Tokens)] /\ c[0] = <<>>
    BY <1>1
  <2>2. Rest = <<>>
    BY <1>1, ConcatEmptySeq DEF Init, Rest
  <2> HIDE DEF c
  <2>3. Stream(c)
    BY <1>1, <2>1 DEF Init, Stream
  <2>4. Placed(c)
    BY <1>1, <2>1, <2>2 DEF Init, Placed, AtLine
  <2> QED BY <2>3, <2>4 DEF StreamInv
<1>5. CutInv
  BY DEF Init, CutInv
<1>6. HandedInv
  BY <1>1 DEF Init, HandedInv
<1>7. RefusedForCause
  BY <1>1 DEF Init, RefusedForCause
<1>8. AnswerInv
  BY <1>1 DEF Init, AnswerInv, OneAnswerEach
<1> QED BY <1>2, <1>3, <1>4, <1>5, <1>6, <1>7, <1>8 DEF Inv

\* What is said of the answers depends on these variables only.
LEMMA AnswersKept ==
  ASSUME AnswerInv, UNCHANGED outVars
  PROVE  AnswerInv'
BY DEF AnswerInv, OneAnswerEach, outVars

\* Gone astray, the peer has sent something that is not Tame.
LEMMA AstrayDirty == Astray => Dirty
BY DEF Astray, Dirty

\* A request of the peer goes to the end of the stream.
LEMMA StreamGrows ==
  ASSUME TypeInv, NEW c, Stream(c), NEW r \in Requests, sent' = Append(sent, r),
         NEW d, d = [n \in 0..Len(sent) + 1 |-> IF n <= Len(sent) THEN c[n] \o Wire(r) ELSE <<>>]
  PROVE  /\ Stream(d)'
         /\ \A n \in 0..Len(sent) : d[n] = c[n] \o Wire(r)
<1> DEFINE L == Len(sent)  W == Wire(r)
<1>0. L \in Nat /\ sent \in Seq(Requests)
  BY DEF TypeInv, TypeOK
<1>1. W \in Seq(Tokens)
  BY WireFacts
<1>2. /\ Len(sent') = L + 1 /\ sent'[L + 1] = r
      /\ \A i \in 1..L : sent'[i] = sent[i] /\ sent[i] \in Requests
  BY <1>0
<1>3. \A n \in 0..L : c[n] \in Seq(Tokens)
  BY DEF Stream
<1>4. d = [n \in 0..L + 1 |-> IF n <= L THEN c[n] \o W ELSE <<>>]
  OBVIOUS
<1> HIDE DEF L, W
<1>5. \A n \in 0..L : n \in 0..L + 1 /\ d[n] = c[n] \o W
  BY <1>0, <1>4
<1>6. d[L + 1] = <<>>
  BY <1>0, <1>4
<1>7. d \in [0..L + 1 -> Seq(Tokens)]
  <2>1. ASSUME NEW n \in 0..L PROVE c[n] \o W \in Seq(Tokens)
    BY <1>1, <1>3, ConcatProperties
  <2>2. ASSUME NEW n \in 0..L + 1 PROVE (IF n <= L THEN c[n] \o W ELSE <<>>) \in Seq(Tokens)
    <3>1. n <= L => n \in 0..L
      BY <1>0
    <3> QED BY <2>1, <3>1
  <2> QED BY <1>4, <2>2
<1>8. ASSUME NEW n \in 1..L + 1 PROVE d[n - 1] = Wire(sent'[n]) \o d[n]
  <2>1. CASE n = L + 1
    <3>1. n - 1 = L /\ L \in 0..L
      BY <1>0, <2>1
    <3>2. d[n - 1] = c[L] \o W
      BY <1>5, <3>1
    <3>3. c[L] = <<>>
      BY DEF Stream, L
    <3>4. <<>> \o W = W /\ W \o <<>> = W
      BY <1>1, ConcatEmptySeq
    <3> QED BY <1>2, <1>6, <2>1, <3>2, <3>3, <3>4 DEF W
  <2>2. CASE n # L + 1
    <3>1. n \in 1..L /\ n \in 0..L /\ n - 1 \in 0..L
      BY <1>0, <2>2
    <3>2. d[n - 1] = c[n - 1] \o W /\ d[n] = c[n] \o W
      BY <1>5, <3>1
    <3>3. c[n - 1] = Wire(sent[n]) \o c[n]
      BY <3>1 DEF Stream, L
    <3>4. Wire(sent[n]) \in Seq(Tokens)
      BY <1>2, <3>1, WireFacts
    <3>5. (Wire(sent[n]) \o c[n]) \o W = Wire(sent[n]) \o (c[n] \o W)
      <4> DEFINE x == Wire(sent[n])  y == c[n]
      <4>1. x \in Seq(Tokens) /\ y \in Seq(Tokens)
        BY <1>3, <3>1, <3>4
      <4> HIDE DEF x, y
      <4>2. (x \o y) \o W = x \o (y \o W)
        BY <1>1, <4>1, Associative
      <4> QED BY <4>2 DEF x, y
    <3> QED BY <1>2, <3>1, <3>2, <3>3, <3>5
  <2> QED BY <2>1, <2>2
<1>9. Stream(d)'
  BY <1>2, <1>6, <1>7, <1>8 DEF Stream
<1> QED BY <1>5, <1>9 DEF L, W

\* What is added behind a request is added to what follows it.
LEMMA FromGrows ==
  ASSUME NEW r \in Requests, NEW b \in Seq(Tokens), NEW w \in Seq(Tokens),
         NEW p \in Nat, p >= 1
  PROVE  From(p, r, b) \o w = From(p, r, b \o w)
<1> DEFINE W == Wire(r)  s == SubSeq(W, p, Len(W))
<1>1. W \in Seq(Tokens)
  BY WireFacts
<1> HIDE DEF W
<1>2. Len(W) \in Int /\ p \in Int /\ \A i \in p..Len(W) : W[i] \in Tokens
  <2>1. Len(W) \in Nat
    BY <1>1
  <2>2. \A i \in p..Len(W) : i \in 1..Len(W)
    BY <2>1
  <2> QED BY <1>1, <2>1, <2>2
<1>3. s \in Seq(Tokens)
  BY <1>2, SubSeqProperties
<1> HIDE DEF s
<1>4. (s \o b) \o w = s \o (b \o w)
  BY <1>3, Associative
<1> QED BY <1>4 DEF s, W, From

\* PeerSends leaves parse() where it is.
LEMMA PeerSendsInv ==
  ASSUME Inv, NEW r \in Requests, PeerSends(r)
  PROVE  Inv'
<1> DEFINE W == Wire(r)  L == Len(sent)  k == Len(handed)
<1>0. TypeInv /\ PlaceInv /\ StreamInv /\ CutInv /\ HandedInv /\ RefusedForCause /\ AnswerInv
  BY DEF Inv
<1>1. /\ L < MaxRequests /\ sent' = Append(sent, r) /\ inbox' = inbox \o W
      /\ InputBuffer_' = InputBuffer_ /\ UNCHANGED parseVars /\ UNCHANGED outVars
      /\ cut' = cut /\ piled' = piled
  BY DEF PeerSends
<1>2. place' = place /\ ok' = ok /\ request' = request /\ handed' = handed /\ answers' = answers
      /\ state_' = state_
  BY <1>1 DEF parseVars, outVars
<1>3. /\ L \in Nat /\ sent \in Seq(Requests) /\ inbox \in Seq(Tokens) /\ InputBuffer_ \in Seq(Tokens)
      /\ k \in Nat
  BY <1>0 DEF TypeInv, TypeOK
<1>4. W \in Seq(Tokens) /\ W[1].kind = "line" /\ Len(W) >= 1
  <2>1. W \in Seq(Tokens) /\ W[1].kind = "line"
    <3>1. W \in Seq(Tokens) /\ W[1] = Token("line", r.line)
      BY WireFacts
    <3>2. r.line \in Lines
      BY RequestParts
    <3> QED BY <3>1, <3>2, TokenFacts
  <2>2. Len(W) \in Nat /\ Len(W) >= 3
    BY WireLong
  <2> QED BY <2>1, <2>2
<1>5. /\ sent' \in Seq(Requests) /\ Len(sent') = L + 1 /\ sent'[L + 1] = r
      /\ \A i \in 1..L : sent'[i] = sent[i] /\ sent[i] \in Requests
  BY <1>1, <1>3
<1>6. /\ inbox' \in Seq(Tokens) /\ Len(inbox') = Len(inbox) + Len(W)
      /\ \A i \in 1..Len(inbox) + Len(W) :
           inbox'[i] = IF i <= Len(inbox) THEN inbox[i] ELSE W[i - Len(inbox)]
  <2> HIDE DEF W
  <2> QED BY <1>1, <1>3, <1>4, ConcatProperties
<1>7. Rest' = Rest \o W /\ Rest \in Seq(Tokens)
  <2> HIDE DEF W
  <2>1. (InputBuffer_ \o inbox) \o W = InputBuffer_ \o (inbox \o W)
    BY <1>3, <1>4, Associative
  <2> QED BY <1>1, <1>3, <2>1, RestFacts DEF Rest
<1>16. \A i \in DOMAIN sent : i \in 1..L /\ i \in DOMAIN sent' /\ sent'[i] = sent[i]
  <2>1. DOMAIN sent = 1..L /\ DOMAIN sent' = 1..L + 1
    BY <1>3, <1>5
  <2> HIDE DEF L
  <2>2. \A i \in 1..L : i \in 1..L + 1
    BY <1>3
  <2> QED BY <1>5, <2>1, <2>2
<1>8. Dirty => Dirty'
  BY <1>16 DEF Dirty
<1>17. Astray => Astray'
  BY <1>2, <1>16 DEF Astray
<1> HIDE DEF W, L, k
<1>9. TypeInv'
  <2>1. L + 1 <= MaxRequests
    BY <1>1, <1>3, HttpAssumption
  <2>2. TypeOK'
    BY <1>0, <1>1, <1>2, <1>5, <2>1 DEF TypeInv, TypeOK
  <2> QED BY <1>0, <1>1, <1>2, <1>6, <2>2 DEF TypeInv
<1>10. PlaceInv'
  BY <1>0, <1>1, <1>2, <1>8 DEF PlaceInv
<1>11. StreamInv'
  <2> SUFFICES ASSUME ~Astray PROVE StreamInv'
    BY <1>17 DEF StreamInv
  <2>1. PICK c : Stream(c) /\ Placed(c)
    BY <1>0 DEF StreamInv
  <2>9. k <= L /\ k <= L + 1
    <3>1. k <= L
      BY <2>1 DEF Placed, k, L
    <3> QED BY <1>3, <3>1
  <2>0. PICK d : d = [n \in 0..L + 1 |-> IF n <= L THEN c[n] \o W ELSE <<>>]
    OBVIOUS
  <2>2. Stream(d)' /\ \A n \in 0..L : d[n] = c[n] \o W
    BY <1>0, <1>1, <2>0, <2>1, StreamGrows DEF L, W
  <2>3. CASE place = "poll" \/ request.state_ = "kParseLine"
    <3>1. CASE AtLine(c)
      <4>1. k \in 0..L
        BY <1>3, <2>9
      <4>2. d[k] = Rest \o W
        BY <2>2, <3>1, <4>1 DEF AtLine, k
      <4>3. AtLine(d)'
        BY <1>2, <1>7, <4>2 DEF AtLine, k
      <4> QED BY <1>2, <1>5, <2>2, <2>3, <2>9, <4>3 DEF Placed, StreamInv, k
    <3>2. CASE Refused(Rest) /\ (Dirty \/ cut)
      <4>1. Rest # <<>> /\ Len(Rest) \in Nat /\ Len(Rest) # 0
        BY <1>7, <3>2 DEF Refused
      <4>2. /\ Len(Rest \o W) = Len(Rest) + Len(W)
            /\ \A i \in 1..Len(Rest) + Len(W) :
                 (Rest \o W)[i] = IF i <= Len(Rest) THEN Rest[i] ELSE W[i - Len(Rest)]
        BY <1>4, <1>7, ConcatProperties
      <4>3. Len(W) \in Nat /\ 1 \in 1..Len(Rest) + Len(W) /\ 1 <= Len(Rest)
        BY <1>4, <4>1
      <4>4. (Rest \o W)[1] = Rest[1] /\ Len(Rest \o W) # 0
        BY <4>1, <4>2, <4>3
      <4>5. Refused(Rest')
        <5>1. Rest \o W # <<>>
          BY <4>4
        <5> QED BY <1>7, <3>2, <4>4, <5>1 DEF Refused
      <4>6. Refused(Rest)'
        BY <4>5 DEF Refused
      <4> QED BY <1>1, <1>2, <1>5, <1>8, <2>2, <2>3, <2>9, <3>2, <4>6 DEF Placed, StreamInv, k
    <3> QED BY <2>1, <2>3, <3>1, <3>2 DEF Placed
  <2>4. CASE ~(place = "poll" \/ request.state_ = "kParseLine")
    <3>1. /\ k < L
          /\ request.state_ = "kParseHeader" => \E n \in 0..Len(sent[k + 1].headers) : InHead(c, n)
          /\ request.state_ = "kdown" => \E n \in 0..Len(sent[k + 1].headers) : AtEnd(c, n)
      BY <2>1, <2>4 DEF Placed, k, L
    <3>2. k + 1 \in 1..L /\ k + 1 \in 0..L /\ k < L + 1
      BY <1>3, <3>1
    <3>3. sent'[k + 1] = sent[k + 1] /\ d[k + 1] = c[k + 1] \o W
      BY <1>5, <2>2, <3>2
    <3> DEFINE q == sent[k + 1]  b == c[k + 1]
    <3>4. q \in Requests /\ b \in Seq(Tokens) /\ Len(q.headers) \in Nat
      <4>1. q \in Requests /\ b \in Seq(Tokens)
        BY <1>0, <2>1, <3>1, ComingFacts DEF k, L
      <4> QED BY <4>1, RequestParts
    <3> HIDE DEF q, b
    <3>5. ASSUME NEW n \in 0..Len(q.headers), InHead(c, n) PROVE InHead(d, n)'
      <4>1. /\ n <= Len(q.headers) /\ Rest = From(2 * n + 3, q, b) /\ Understood(request, q, n)
        BY <3>5 DEF InHead, q, b, k
      <4>2. 2 * n + 3 \in Nat /\ 2 * n + 3 >= 1
        BY <3>4
      <4>3. Rest \o W = From(2 * n + 3, q, b \o W)
        BY <1>4, <3>4, <4>1, <4>2, FromGrows
      <4>4. Rest' = From(2 * n + 3, sent'[k + 1], d[k + 1])
        BY <1>7, <3>3, <4>3 DEF q, b
      <4>5. Understood(request', sent'[k + 1], n) /\ n <= Len(sent'[k + 1].headers)
        BY <1>2, <3>3, <4>1 DEF q
      <4> QED BY <1>2, <4>4, <4>5 DEF InHead, k, From, Understood
    <3>6. ASSUME NEW n \in 0..Len(q.headers), AtEnd(c, n) PROVE AtEnd(d, n)'
      <4>1. /\ HeadEnds(q, n) /\ Understood(request, q, n)
            /\ n = Len(q.headers) => Rest = From(2 * n + 4, q, b)
        BY <3>6 DEF AtEnd, q, b, k
      <4>2. 2 * n + 4 \in Nat /\ 2 * n + 4 >= 1
        BY <3>4
      <4>3. ASSUME n = Len(q.headers) PROVE Rest \o W = From(2 * n + 4, q, b \o W)
        <5>1. Rest = From(2 * n + 4, q, b)
          BY <4>1, <4>3
        <5>2. \A p \in Nat : p >= 1 => From(p, q, b) \o W = From(p, q, b \o W)
          BY <1>4, <3>4, FromGrows
        <5> QED BY <4>2, <5>1, <5>2
      <4>4. sent'[k + 1] = q /\ (n = Len(q.headers) => Rest' = From(2 * n + 4, q, d[k + 1]))
        BY <1>7, <3>3, <4>3 DEF q, b
      <4> QED BY <1>2, <4>1, <4>4 DEF AtEnd, k, From, Understood, HeadEnds
    <3>7. request.state_ = "kParseHeader" =>
            \E n \in 0..Len(sent'[k + 1].headers) : InHead(d, n)'
      BY <3>1, <3>3, <3>5 DEF q
    <3>9. request.state_ = "kdown" =>
            \E n \in 0..Len(sent'[k + 1].headers) : AtEnd(d, n)'
      BY <3>1, <3>3, <3>6 DEF q
    <3>8. Placed(d)'
      BY <1>2, <1>5, <2>4, <2>9, <3>1, <3>2, <3>7, <3>9 DEF Placed, k
    <3> QED BY <2>2, <3>8 DEF StreamInv
  <2> QED BY <2>3, <2>4
<1>12. CutInv'
  <2> SUFFICES ASSUME ~cut PROVE CutInv'
    BY <1>1 DEF CutInv
  <2>0. Len(inbox) \in Nat /\ Len(W) \in Nat
    BY <1>3, <1>4
  <2>1. CASE inbox = <<>>
    <3>1. inbox'[1] = W[1]
      <4>1. Len(inbox) = 0 /\ 1 \in 1..Len(inbox) + Len(W) /\ ~(1 <= Len(inbox)) /\ 1 - Len(inbox) = 1
        BY <1>4, <2>0, <2>1
      <4> QED BY <1>6, <4>1
    <3>2. inbox'[1].kind = "line"
      BY <1>4, <3>1
    <3> QED BY <3>2 DEF CutInv
  <2>2. CASE inbox # <<>>
    <3>1. Len(inbox) # 0
      BY <1>3, <2>2
    <3>2. 1 \in 1..Len(inbox) + Len(W) /\ 1 <= Len(inbox)
      BY <2>0, <3>1
    <3>3. inbox'[1] = inbox[1]
      BY <1>6, <3>2
    <3> QED BY <1>0, <1>1, <2>2, <3>3 DEF CutInv
  <2> QED BY <2>1, <2>2
<1>13. HandedInv'
  <2> SUFFICES ASSUME NEW i \in DOMAIN handed, \A j \in DOMAIN sent' : j < i => Tame(sent'[j])
               PROVE  /\ i <= Len(sent')
                      /\ \E n \in 0..Len(sent'[i].headers) :
                           HeadEnds(sent'[i], n) /\ Understood(handed[i], sent'[i], n)
    BY <1>2 DEF HandedInv, HeadEnds, Understood, Tame
  <2>1. \A j \in DOMAIN sent : j < i => Tame(sent[j])
    BY <1>16
  <2>2. /\ i <= L
        /\ \E n \in 0..Len(sent[i].headers) :
             HeadEnds(sent[i], n) /\ Understood(handed[i], sent[i], n)
    BY <1>0, <2>1 DEF HandedInv, L
  <2>3. i \in 1..L /\ i <= L + 1
    <3>1. i \in Nat /\ i >= 1
      BY <1>0 DEF TypeInv
    <3> QED BY <1>3, <2>2, <3>1
  <2> QED BY <1>5, <2>2, <2>3
<1>14. RefusedForCause'
  BY <1>0, <1>1, <1>2, <1>8 DEF RefusedForCause
<1>15. AnswerInv'
  BY <1>0, <1>1, AnswersKept
<1> QED BY <1>9, <1>10, <1>11, <1>12, <1>13, <1>14, <1>15 DEF Inv

\* OnMessage moves tokens from the inbox to the buffer, which leaves the stream
\* as it is.
LEMMA OnMessageInv ==
  ASSUME Inv, NEW n \in DOMAIN inbox, OnMessage(n)
  PROVE  Inv'
<1>0. TypeInv /\ PlaceInv /\ StreamInv /\ CutInv /\ HandedInv /\ RefusedForCause /\ AnswerInv
  BY DEF Inv
<1>1. /\ place = "poll" /\ place' = "parsing" /\ ok' = TRUE /\ request' = NewRequest
      /\ sent' = sent /\ handed' = handed /\ answers' = answers /\ state_' = state_
      /\ UNCHANGED outVars
  BY DEF OnMessage, outVars
<1> DEFINE a == SubSeq(inbox, 1, n)  b == SubSeq(inbox, n + 1, Len(inbox))
<1>2. InputBuffer_' = InputBuffer_ \o a /\ inbox' = b
  BY DEF OnMessage
<1>3. inbox \in Seq(Tokens) /\ InputBuffer_ \in Seq(Tokens)
  BY <1>0 DEF TypeInv
<1>4. Len(inbox) \in Nat /\ n \in 1..Len(inbox) /\ n \in Int /\ n + 1 \in Int /\ Len(inbox) \in Int
  <2>1. Len(inbox) \in Nat /\ n \in 1..Len(inbox)
    BY <1>3
  <2> QED BY <2>1
<1>5. a \in Seq(Tokens) /\ Len(a) = n /\ \A i \in 1..n : a[i] = inbox[i]
  <2>1. \A i \in 1..n : inbox[i] \in Tokens
    BY <1>3, <1>4
  <2>2. /\ a \in Seq(Tokens) /\ Len(a) = IF 1 <= n THEN n - 1 + 1 ELSE 0
        /\ \A i \in 1..n - 1 + 1 : a[i] = inbox[1 + i - 1]
    BY <1>4, <2>1, SubSeqProperties
  <2> HIDE DEF a
  <2>3. ASSUME NEW i \in 1..n PROVE a[i] = inbox[i]
    <3>1. i \in 1..n - 1 + 1 /\ 1 + i - 1 = i
      BY <1>4
    <3> QED BY <2>2, <3>1
  <2> QED BY <1>4, <2>2, <2>3
<1>6. /\ b \in Seq(Tokens) /\ Len(b) = Len(inbox) - n
      /\ \A i \in 1..Len(inbox) - n : b[i] = inbox[n + i]
  <2>1. \A i \in n + 1..Len(inbox) : inbox[i] \in Tokens
    BY <1>3, <1>4
  <2>2. /\ b \in Seq(Tokens)
        /\ Len(b) = IF n + 1 <= Len(inbox) THEN Len(inbox) - (n + 1) + 1 ELSE 0
        /\ \A i \in 1..Len(inbox) - (n + 1) + 1 : b[i] = inbox[n + 1 + i - 1]
    BY <1>4, <2>1, SubSeqProperties
  <2>3. b \in Seq(Tokens) /\ Len(b) = Len(inbox) - n
    BY <1>3, <1>4, DropFacts
  <2> HIDE DEF b
  <2>4. ASSUME NEW i \in 1..Len(inbox) - n PROVE b[i] = inbox[n + i]
    <3>1. i \in 1..Len(inbox) - (n + 1) + 1 /\ n + 1 + i - 1 = n + i
      BY <1>4
    <3> QED BY <2>2, <3>1
  <2> QED BY <2>3, <2>4
<1> HIDE DEF a, b
<1>7. a \o b = inbox
  <2> DEFINE u == a \o b
  <2>1. /\ u \in Seq(Tokens) /\ Len(u) = Len(a) + Len(b)
        /\ \A i \in 1..Len(a) + Len(b) : u[i] = IF i <= Len(a) THEN a[i] ELSE b[i - Len(a)]
    BY <1>5, <1>6, ConcatProperties
  <2> HIDE DEF u
  <2>2. Len(u) = Len(inbox)
    BY <1>4, <1>5, <1>6, <2>1
  <2>3. ASSUME NEW i \in 1..Len(u) PROVE u[i] = inbox[i]
    <3>1. i \in 1..Len(inbox) /\ i \in 1..Len(a) + Len(b)
      BY <2>1, <2>2
    <3>2. CASE i <= n
      BY <1>4, <1>5, <2>1, <3>1, <3>2
    <3>3. CASE ~(i <= n)
      <4>1. i - n \in 1..Len(inbox) - n /\ n + (i - n) = i
        BY <1>4, <3>1, <3>3
      <4>2. b[i - n] = inbox[i]
        BY <1>6, <4>1
      <4> QED BY <1>5, <2>1, <3>1, <3>3, <4>2
    <3> QED BY <3>2, <3>3
  <2>4. u = inbox
    BY <1>3, <2>1, <2>2, <2>3, SeqEqual
  <2> QED BY <2>4 DEF u
<1>8. Rest' = Rest
  <2>1. (InputBuffer_ \o a) \o b = InputBuffer_ \o (a \o b)
    BY <1>3, <1>5, <1>6, Associative
  <2> QED BY <1>2, <1>7, <2>1 DEF Rest
<1>9. /\ InputBuffer_' \in Seq(Tokens) /\ Len(InputBuffer_') = Len(InputBuffer_) + n
      /\ InputBuffer_'[Len(InputBuffer_) + n] = inbox[n]
  <2> DEFINE u == InputBuffer_ \o a
  <2>1. /\ u \in Seq(Tokens) /\ Len(u) = Len(InputBuffer_) + Len(a)
        /\ \A i \in 1..Len(InputBuffer_) + Len(a) :
             u[i] = IF i <= Len(InputBuffer_) THEN InputBuffer_[i] ELSE a[i - Len(InputBuffer_)]
    BY <1>3, <1>5, ConcatProperties
  <2> HIDE DEF u
  <2>2. Len(InputBuffer_) \in Nat
    BY <1>3
  <2>3. PICK j : j = Len(InputBuffer_) + n
    OBVIOUS
  <2>4. /\ j \in 1..Len(InputBuffer_) + Len(a) /\ ~(j <= Len(InputBuffer_))
        /\ j - Len(InputBuffer_) = n /\ n \in 1..n
    BY <1>4, <1>5, <2>2, <2>3
  <2>5. u[j] = a[n]
    BY <2>1, <2>4
  <2>6. u[j] = inbox[n]
    BY <1>5, <2>4, <2>5
  <2> QED BY <1>2, <1>5, <2>1, <2>3, <2>6 DEF u
<1>10. Dirty' <=> Dirty
  BY <1>1 DEF Dirty
<1>11. cut => cut'
  BY DEF OnMessage
<1>12. TypeInv'
  <2>1. cut' \in BOOLEAN /\ piled' \in BOOLEAN /\ ok' \in BOOLEAN
    BY <1>1 DEF OnMessage
  <2>2. {ok, cut, piled}' \subseteq BOOLEAN
    BY <2>1
  <2>3. request' \in HttpRequests
    BY <1>1, NewFacts
  <2>4. TypeOK'
    BY <1>0, <1>1, <2>2, <2>3 DEF TypeInv, TypeOK, HttpRequests, Methods, Versions
  <2> QED BY <1>0, <1>1, <1>2, <1>6, <1>9, <2>3, <2>4 DEF TypeInv
<1>13. PlaceInv'
  BY <1>1, NewFacts DEF PlaceInv
<1>14. StreamInv'
  <2> SUFFICES ASSUME ~Astray PROVE StreamInv'
    BY <1>1 DEF StreamInv, Astray, Tame
  <2>1. PICK c : Stream(c) /\ Placed(c)
    BY <1>0 DEF StreamInv
  <2>2. Stream(c)'
    BY <1>1, <2>1 DEF Stream
  <2>3. Len(handed) <= Len(sent) /\ (AtLine(c) \/ (Refused(Rest) /\ (Dirty \/ cut)))
    BY <1>1, <2>1 DEF Placed
  <2>4. AtLine(c) => AtLine(c)'
    BY <1>1, <1>8 DEF AtLine
  <2>5. Refused(Rest) => Refused(Rest)'
    BY <1>8 DEF Refused
  <2>6. Placed(c)'
    BY <1>1, <1>10, <1>11, <2>3, <2>4, <2>5, NewFacts DEF Placed
  <2> QED BY <2>2, <2>6 DEF StreamInv
<1>15. CutInv'
  <2> SUFFICES ASSUME ~cut', inbox' # <<>>
               PROVE  /\ inbox'[1].kind # "header"
                      /\ inbox'[1].kind = "crlf" =>
                           /\ InputBuffer_' # <<>>
                           /\ InputBuffer_'[Len(InputBuffer_')].kind = "line"
    BY DEF CutInv
  <2>1. Len(inbox) - n # 0
    BY <1>2, <1>6
  <2>2. n < Len(inbox) /\ 1 \in 1..Len(inbox) - n
    BY <1>4, <2>1
  <2>3. inbox'[1] = inbox[n + 1]
    BY <1>2, <1>6, <2>2
  <2>4. ~InsideHead(inbox[n], inbox[n + 1])
    BY <2>2 DEF OnMessage
  <2>5. /\ inbox[n + 1].kind # "header"
        /\ inbox[n + 1].kind = "crlf" => inbox[n].kind = "line"
    BY <2>4 DEF InsideHead
  <2>6. Len(InputBuffer_) \in Nat /\ Len(InputBuffer_) + n # 0
    BY <1>3, <1>4
  <2>7. InputBuffer_' # <<>>
    BY <1>9, <2>6
  <2> QED BY <1>9, <2>3, <2>5, <2>7
<1>16. HandedInv'
  BY <1>0, <1>1 DEF HandedInv
<1>17. RefusedForCause'
  BY <1>0, <1>1, <1>10, <1>11 DEF RefusedForCause
<1>18. AnswerInv'
  BY <1>0, <1>1, AnswersKept
<1> QED BY <1>12, <1>13, <1>14, <1>15, <1>16, <1>17, <1>18 DEF Inv

\* RetrieveUntil a line end takes the line from the front of the stream.
LEMMA Retrieved ==
  ASSUME TypeInv, CutInv, NEW m \in 1..Len(InputBuffer_), InputBuffer_[m].kind = "crlf",
         RetrieveUntil(m), inbox' = inbox, cut' = cut
  PROVE  /\ InputBuffer_' \in Seq(Tokens)
         /\ Rest' = SubSeq(Rest, m + 1, Len(Rest))
         /\ CutInv'
<1> DEFINE b == SubSeq(InputBuffer_, m + 1, Len(InputBuffer_))  L == Len(InputBuffer_)
<1>1. inbox \in Seq(Tokens) /\ InputBuffer_ \in Seq(Tokens) /\ L \in Nat /\ m \in 1..L
  BY DEF TypeInv
<1>2. InputBuffer_' = b
  BY DEF RetrieveUntil
<1>3. b \in Seq(Tokens) /\ Len(b) = L - m
  BY <1>1, DropFacts
<1>4. b \o inbox = SubSeq(InputBuffer_ \o inbox, m + 1, Len(InputBuffer_ \o inbox))
  BY <1>1, DropFacts
<1>5. \A i \in 1..L - (m + 1) + 1 : b[i] = InputBuffer_[m + 1 + i - 1]
  <2>1. (\A i \in m + 1..L : InputBuffer_[i] \in Tokens) /\ m + 1 \in Int /\ L \in Int
    <3>1. \A i \in m + 1..L : i \in 1..L
      BY <1>1
    <3>2. m + 1 \in Int /\ L \in Int
      BY <1>1
    <3> QED BY <1>1, <3>1, <3>2
  <2>2. /\ b \in Seq(Tokens) /\ Len(b) = IF m + 1 <= L THEN L - (m + 1) + 1 ELSE 0
        /\ \A i \in 1..L - (m + 1) + 1 : b[i] = InputBuffer_[m + 1 + i - 1]
    BY <2>1, SubSeqProperties
  <2> QED BY <2>2
<1> HIDE DEF b
<1>6. CutInv'
  <2> SUFFICES ASSUME ~cut, inbox # <<>>, inbox[1].kind = "crlf"
               PROVE  b # <<>> /\ b[Len(b)].kind = "line"
    BY <1>2 DEF CutInv
  <2>1. InputBuffer_[L].kind = "line"
    BY DEF CutInv
  <2>2. m # L
    BY <2>1
  <2>3. L - m \in 1..L - (m + 1) + 1 /\ m + 1 + (L - m) - 1 = L /\ L - m # 0
    <3> HIDE DEF L
    <3> QED BY <1>1, <2>2
  <2>4. b[L - m] = InputBuffer_[L]
    BY <1>5, <2>3
  <2>5. b # <<>>
    BY <1>3, <2>3
  <2> QED BY <1>3, <2>1, <2>4, <2>5
<1> QED BY <1>2, <1>3, <1>4, <1>6 DEF Rest

\* A pass of parse() leaves these alone.
LEMMA Untouched ==
  ASSUME TypeInv, HandedInv, AnswerInv, UNCHANGED <<peerVars, outVars, cut, piled>>
  PROVE  /\ inbox' = inbox /\ sent' = sent /\ handed' = handed /\ answers' = answers
         /\ state_' = state_ /\ cut' = cut /\ piled' = piled
         /\ (Dirty' <=> Dirty) /\ (Astray' <=> Astray) /\ HandedInv' /\ AnswerInv'
         /\ \A c : Stream(c) => Stream(c)'
<1>1. /\ inbox' = inbox /\ sent' = sent /\ handed' = handed /\ answers' = answers
      /\ state_' = state_ /\ cut' = cut /\ piled' = piled /\ UNCHANGED outVars
  BY DEF peerVars, outVars
<1>2. (Dirty' <=> Dirty) /\ (Astray' <=> Astray)
  BY <1>1 DEF Dirty, Astray
<1>3. HandedInv'
  BY <1>1 DEF HandedInv
<1>4. AnswerInv'
  BY <1>1, AnswersKept
<1>5. \A c : Stream(c) => Stream(c)'
  BY <1>1 DEF Stream
<1> QED BY <1>1, <1>2, <1>3, <1>4, <1>5

\* ParseRequestLine accepts the line of the next request of the peer, or it
\* finds no line end, or it refuses for cause.
LEMMA ParseRequestLineInv ==
  ASSUME Inv, ParseRequestLine
  PROVE  Inv'
<1> DEFINE inp == InputBuffer_  m == findCRLF(inp)  line == SubSeq(inp, 1, m - 1)  k == Len(handed)
<1>0. TypeInv /\ PlaceInv /\ StreamInv /\ CutInv /\ HandedInv /\ RefusedForCause /\ AnswerInv
  BY DEF Inv
<1>1. /\ place = "parsing" /\ request.state_ = "kParseLine"
      /\ IF m # 0 /\ ParseLine(line)
         THEN request' = Parsed(line[1].data) /\ RetrieveUntil(m) /\ UNCHANGED <<place, ok>>
         ELSE place' = "parsed" /\ ok' = (m = 0) /\ UNCHANGED <<InputBuffer_, request>>
      /\ UNCHANGED <<peerVars, outVars, cut, piled>>
  BY DEF ParseRequestLine
<1>2. /\ inbox' = inbox /\ sent' = sent /\ handed' = handed /\ answers' = answers
      /\ state_' = state_ /\ cut' = cut /\ piled' = piled
      /\ (Dirty' <=> Dirty) /\ (Astray' <=> Astray) /\ HandedInv' /\ AnswerInv'
      /\ \A c : Stream(c) => Stream(c)'
  BY <1>0, <1>1, Untouched
<1>3. inbox \in Seq(Tokens) /\ inp \in Seq(Tokens) /\ Len(inp) \in Nat /\ k \in Nat
  BY <1>0 DEF TypeInv
<1>4. PICK c : ~Astray => Stream(c) /\ Placed(c)
  BY <1>0 DEF StreamInv
<1>5. ~Astray => k <= Len(sent) /\ (AtLine(c) \/ (Refused(Rest) /\ (Dirty \/ cut)))
  BY <1>1, <1>4 DEF Placed
<1>6. m # 0 => /\ m \in 1..Len(inp) /\ inp[m].kind = "crlf"
               /\ \A i \in 1..Len(inp) : inp[i].kind = "crlf" => m <= i
  BY <1>3, FindFacts
<1>7. /\ Rest \in Seq(Tokens) /\ Len(Rest) = Len(inp) + Len(inbox)
      /\ \A i \in 1..Len(inp) : Rest[i] = inp[i]
      /\ Len(Rest) \in Nat /\ Len(inbox) \in Nat
  BY <1>3, RestFacts
<1> HIDE DEF m
<1>8. ok
  BY <1>0, <1>1 DEF PlaceInv
\* A complete line at the beginning of a request is that of the request.
<1>9. ASSUME m # 0, ~Astray, AtLine(c)
      PROVE  /\ k < Len(sent) /\ m = 2 /\ line = <<Token("line", sent[k + 1].line)>>
             /\ sent[k + 1] \in Requests /\ c[k + 1] \in Seq(Tokens)
             /\ Rest = From(1, sent[k + 1], c[k + 1])
  <2>1. Len(inp) >= 1 /\ Len(Rest) # 0 /\ m \in Nat
    BY <1>3, <1>6, <1>7, <1>9
  <2>2. Rest # <<>>
    BY <2>1
  <2>3. /\ k < Len(sent) /\ Len(Rest) >= 2
        /\ Rest[1] = Token("line", sent[k + 1].line) /\ Rest[2] = CRLF
    BY <1>0, <1>4, <1>5, <1>9, <2>2, LineAhead
  <2>4. sent[k + 1] \in Requests /\ c[k + 1] \in Seq(Tokens) /\ Rest = From(1, sent[k + 1], c[k + 1])
    BY <1>0, <1>4, <1>9, <2>3, ComingFacts DEF AtLine
  <2>5. inp[1] = Token("line", sent[k + 1].line) /\ inp[1].kind = "line"
    <3>1. 1 \in 1..Len(inp)
      BY <1>3, <2>1
    <3>2. inp[1] = Token("line", sent[k + 1].line)
      BY <1>7, <2>3, <3>1
    <3>3. sent[k + 1].line \in Lines
      BY <2>4, RequestParts
    <3> QED BY <3>2, <3>3, TokenFacts
  <2>6. m # 1
    BY <1>6, <1>9, <2>5
  <2>7. 2 \in 1..Len(inp)
    BY <1>3, <1>6, <1>9, <2>6
  <2>8. inp[2].kind = "crlf"
    BY <1>7, <2>3, <2>7, TokenFacts
  <2>9. m <= 2 /\ m \in Nat
    BY <1>6, <1>9, <2>1, <2>7, <2>8
  <2>10. m = 2
    <3>1. m >= 1
      BY <1>6, <1>9
    <3> QED BY <2>6, <2>9, <3>1
  <2>11. line = <<inp[1]>>
    <3>1. m - 1 = 1 /\ 1 \in 1..Len(inp)
      BY <1>3, <2>1, <2>10
    <3> QED BY <1>3, <3>1, FirstOnly
  <2> QED BY <2>3, <2>4, <2>5, <2>10, <2>11
<1>10. CASE m # 0 /\ ParseLine(line)
  <2>1. request' = Parsed(line[1].data) /\ RetrieveUntil(m) /\ place' = place /\ ok' = ok
    BY <1>1, <1>10
  \* What is accepted is one token, whatever it belongs to.
  <2>2. /\ line = <<inp[1]>> /\ line[1] = inp[1] /\ inp[1] \in Tokens /\ inp[1].kind = "line"
        /\ Rest[1] = inp[1]
    <3>1. Len(line) = 1 /\ line[1].kind = "line"
      BY <1>10 DEF ParseLine
    <3>2. m \in 1..Len(inp) /\ m \in Nat
      BY <1>3, <1>6, <1>10
    <3>3. Len(line) = m - 1
      <4>1. \A i \in 1..m - 1 : inp[i] \in Tokens
        BY <1>3, <3>2
      <4>2. 1 \in Int /\ m - 1 \in Int
        BY <3>2
      <4>3. Len(line) = IF 1 <= m - 1 THEN m - 1 - 1 + 1 ELSE 0
        BY <4>1, <4>2, SubSeqProperties
      <4> QED BY <3>2, <4>3
    <3>4. m = 2 /\ 1 \in 1..Len(inp)
      BY <1>3, <3>1, <3>2, <3>3
    <3>5. line = <<inp[1]>>
      <4>1. m - 1 = 1
        BY <3>4
      <4> QED BY <1>3, <3>4, <4>1, FirstOnly
    <3>6. Rest[1] = inp[1] /\ inp[1] \in Tokens
      BY <1>3, <1>7, <3>4
    <3> HIDE DEF line
    <3>7. line[1] = inp[1]
      BY <3>5
    <3> QED BY <3>1, <3>5, <3>6, <3>7
  <2> DEFINE l == line[1].data
  <2>3. l \in Lines /\ SetMethod(l.method) # "Unknown" /\ SetVersion(l.version) # "Unknown"
    <3>1. l \in Lines
      BY <2>2, DataFacts
    <3> QED BY <1>10, <3>1 DEF ParseLine
  <2> HIDE DEF l
  <2>4. request' = Parsed(l)
    BY <2>1 DEF l
  <2>5. request' \in HttpRequests /\ request'.state_ = "kParseHeader"
    BY <2>3, <2>4, ParsedTyped
  <2>7. /\ InputBuffer_' \in Seq(Tokens) /\ Rest' = SubSeq(Rest, m + 1, Len(Rest)) /\ CutInv'
    BY <1>0, <1>2, <1>6, <1>10, <2>1, Retrieved
  <2>9. TypeInv'
    <3>1. TypeOK'
      BY <1>0, <1>2, <2>1, <2>5 DEF TypeInv, TypeOK, HttpRequests, Methods, Versions
    <3> QED BY <1>0, <1>2, <2>5, <2>7, <3>1 DEF TypeInv
  <2>10. PlaceInv'
    BY <1>1, <1>8, <2>1, <2>5 DEF PlaceInv
  <2>11. StreamInv'
    <3> SUFFICES ASSUME ~Astray PROVE StreamInv'
      BY <1>2 DEF StreamInv
    <3>1. AtLine(c)
      <4> SUFFICES ASSUME Refused(Rest) PROVE FALSE
        BY <1>5
      <4> QED BY <1>10, <2>2 DEF Refused
    <3> DEFINE r == sent[k + 1]  b == c[k + 1]
    <3>2. /\ k < Len(sent) /\ m = 2 /\ line = <<Token("line", r.line)>> /\ r \in Requests
          /\ b \in Seq(Tokens) /\ Rest = From(1, r, b)
      BY <1>9, <1>10, <3>1
    <3> HIDE DEF r, b, line
    <3>3. l = r.line
      <4>1. r.line \in Lines
        BY <3>2, RequestParts
      <4> DEFINE t == Token("line", r.line)
      <4>2. t.data = r.line
        BY <4>1, TokenFacts
      <4> HIDE DEF t
      <4>3. <<t>>[1] = t
        OBVIOUS
      <4>4. line[1] = t
        BY <3>2, <4>3 DEF t
      <4> QED BY <4>2, <4>4 DEF l
    <3>4. Understood(request', r, 0)
      BY <2>3, <2>4, <3>2, <3>3, ParsedFacts
    <3>5. Rest' = From(3, r, b)
      <4>1. Len(Wire(r)) \in Nat /\ Len(Wire(r)) >= 3
        BY <3>2, WireLong
      <4>2. PICK p : p = 1
        OBVIOUS
      <4>3. p \in 1..Len(Wire(r)) /\ m \in 1..Len(Wire(r)) - p + 1 /\ p + m = 3
        BY <3>2, <4>1, <4>2
      <4>4. SubSeq(From(p, r, b), m + 1, Len(From(p, r, b))) = From(p + m, r, b)
        BY <3>2, <4>3, FromDrop
      <4> QED BY <2>7, <3>2, <4>2, <4>3, <4>4
    <3>6. /\ sent'[Len(handed') + 1] = r /\ c[Len(handed') + 1] = b /\ Len(handed') < Len(sent')
          /\ Len(handed') <= Len(sent')
      BY <1>2, <1>5, <3>2 DEF r, b
    <3>7. Len(r.headers) \in Nat /\ 0 \in 0..Len(r.headers) /\ 0 <= Len(r.headers)
      BY <3>2, RequestParts
    <3>8. PICK n : n = 0
      OBVIOUS
    <3>9. 2 * n + 3 = 3
      BY <3>8
    <3>10. InHead(c, n)'
      BY <3>4, <3>5, <3>6, <3>7, <3>8, <3>9 DEF InHead, From, Understood
    <3>11. Placed(c)'
      BY <1>1, <2>1, <2>5, <3>6, <3>7, <3>8, <3>10 DEF Placed
    <3> QED BY <1>2, <1>4, <3>11 DEF StreamInv
  <2>12. RefusedForCause'
    BY <1>0, <1>1, <1>2, <2>1 DEF RefusedForCause
  <2> QED BY <1>2, <2>7, <2>9, <2>10, <2>11, <2>12 DEF Inv
<1>11. CASE ~(m # 0 /\ ParseLine(line))
  <2>1. place' = "parsed" /\ ok' = (m = 0) /\ InputBuffer_' = InputBuffer_ /\ request' = request
    BY <1>1, <1>11
  <2>2. Rest' = Rest
    BY <1>2, <2>1 DEF Rest
  <2>3. TypeInv'
    <3>1. ok' \in BOOLEAN
      BY <2>1
    <3>2. TypeOK'
      BY <1>0, <1>2, <2>1, <3>1 DEF TypeInv, TypeOK
    <3> QED BY <1>0, <1>2, <2>1, <3>2 DEF TypeInv
  <2>4. PlaceInv'
    BY <1>1, <2>1 DEF PlaceInv
  <2>5. StreamInv'
    <3> SUFFICES ASSUME ~Astray PROVE StreamInv'
      BY <1>2 DEF StreamInv
    <3>1. AtLine(c) => AtLine(c)'
      BY <1>2, <2>2 DEF AtLine
    <3>2. Refused(Rest) => Refused(Rest)'
      BY <2>2 DEF Refused
    <3>3. Placed(c)'
      BY <1>1, <1>2, <1>5, <2>1, <3>1, <3>2 DEF Placed
    <3> QED BY <1>2, <1>4, <3>3 DEF StreamInv
  <2>6. CutInv'
    BY <1>0, <1>2, <2>1 DEF CutInv
  <2>7. m # 0 => Dirty \/ cut
    <3> SUFFICES ASSUME m # 0, ~Astray, AtLine(c) PROVE Dirty
      BY <1>5, AstrayDirty
    <3>1. /\ k < Len(sent) /\ line = <<Token("line", sent[k + 1].line)>>
      BY <1>9
    <3>2. ~ParseLine(<<Token("line", sent[k + 1].line)>>)
      BY <1>11, <3>1
    <3>3. k + 1 \in DOMAIN sent
      <4>1. sent \in Seq(Requests) /\ Len(sent) \in Nat
        BY <1>0 DEF TypeInv, TypeOK
      <4> QED BY <1>3, <3>1, <4>1
    <3> QED BY <3>2, <3>3 DEF Dirty
  <2>8. RefusedForCause'
    BY <1>0, <1>2, <2>1, <2>7 DEF RefusedForCause
  <2> QED BY <1>2, <2>3, <2>4, <2>5, <2>6, <2>8 DEF Inv
<1> QED BY <1>10, <1>11

\* ParseHeader takes the next header, or the line behind which it believes the
\* head to end; a line end is missing only when a read has cut the head.
LEMMA ParseHeaderInv ==
  ASSUME Inv, ParseHeader
  PROVE  Inv'
<1> DEFINE inp == InputBuffer_  m == findCRLF(inp)  k == Len(handed)
           r == sent[k + 1]  N == Len(r.headers)
<1>0. TypeInv /\ PlaceInv /\ StreamInv /\ CutInv /\ HandedInv /\ RefusedForCause /\ AnswerInv
  BY DEF Inv
<1>1. /\ place = "parsing" /\ request.state_ = "kParseHeader" /\ ok' = ok
      /\ IF m = 0
         THEN place' = "parsed" /\ UNCHANGED <<InputBuffer_, request>>
         ELSE /\ RetrieveUntil(m)
              /\ IF inp[1].kind = "header"
                 THEN /\ request' = [request EXCEPT !.headers_ = AddHeader(@, inp[1].data)]
                      /\ UNCHANGED place
                 ELSE /\ request' = [request EXCEPT !.state_ = "kdown"]
                      /\ place' = "parsed"
      /\ UNCHANGED <<peerVars, outVars, cut, piled>>
  BY DEF ParseHeader
<1>2. /\ inbox' = inbox /\ sent' = sent /\ handed' = handed /\ answers' = answers
      /\ state_' = state_ /\ cut' = cut /\ piled' = piled
      /\ (Dirty' <=> Dirty) /\ (Astray' <=> Astray) /\ HandedInv' /\ AnswerInv'
      /\ \A c : Stream(c) => Stream(c)'
  BY <1>0, <1>1, Untouched
<1>3. inbox \in Seq(Tokens) /\ inp \in Seq(Tokens) /\ Len(inp) \in Nat /\ k \in Nat /\ request \in HttpRequests
  BY <1>0 DEF TypeInv
<1>4. PICK c : ~Astray => Stream(c) /\ Placed(c)
  BY <1>0 DEF StreamInv
<1>5. ~Astray => k < Len(sent) /\ k <= Len(sent) /\ \E n \in 0..N : InHead(c, n)
  BY <1>1, <1>4 DEF Placed
<1>6. PICK n : ~Astray => n \in 0..N /\ InHead(c, n)
  BY <1>5
<1> DEFINE b == c[k + 1]
\* Where parse() stands, as long as it has not gone astray.
<1>7. ASSUME ~Astray
      PROVE  /\ r \in Requests /\ b \in Seq(Tokens) /\ N \in Nat /\ n \in Nat /\ n <= N
             /\ Len(Rest) >= 1
             /\ n < N => Len(Rest) >= 2 /\ Rest[2] = CRLF /\ Rest[1] = r.headers[n + 1]
             /\ n = N => Rest[1] = CRLF
  <2>1. n \in Nat
    BY <1>6, <1>7
  <2> QED BY <1>0, <1>4, <1>5, <1>6, <1>7, <2>1, HeadAhead
<1>8. ~Astray => Rest = From(2 * n + 3, r, b) /\ Understood(request, r, n)
  BY <1>6 DEF InHead
<1>9. /\ Rest \in Seq(Tokens) /\ Len(Rest) = Len(inp) + Len(inbox)
      /\ \A i \in 1..Len(inp) : Rest[i] = inp[i]
      /\ \A i \in 1..Len(inbox) : Rest[Len(inp) + i] = inbox[i]
      /\ Len(Rest) \in Nat /\ Len(inbox) \in Nat
  BY <1>3, RestFacts
<1>10. m = 0 => \A i \in 1..Len(inp) : inp[i].kind # "crlf"
  BY <1>3, FindFacts
<1>11. m # 0 => /\ m \in 1..Len(inp) /\ inp[m].kind = "crlf"
                /\ \A i \in 1..Len(inp) : inp[i].kind = "crlf" => m <= i
  BY <1>3, FindFacts
<1>12. ok
  BY <1>0, <1>1 DEF PlaceInv
<1>13. ASSUME ~Astray, n < N
       PROVE  /\ n + 1 \in 1..N /\ Rest[1].kind \in {"header", "text"} /\ Rest[2].kind = "crlf"
  <2>1. n + 1 \in 1..N
    BY <1>7, <1>13
  <2>2. r.headers[n + 1] \in HeadLines
    BY <1>7, <1>13, <2>1, RequestParts
  <2>3. r.headers[n + 1].kind \in {"header", "text"}
    BY <2>2, HeadLineFacts
  <2> QED BY <1>7, <1>13, <2>1, <2>3, TokenFacts
<1>15. ~Astray /\ n = N => Rest[1].kind = "crlf"
  BY <1>7, TokenFacts
<1>16. ~Astray => /\ sent'[Len(handed') + 1] = r /\ c[Len(handed') + 1] = b
                  /\ Len(handed') < Len(sent') /\ Len(handed') <= Len(sent')
  BY <1>2, <1>5
<1>14. ASSUME ~Dirty PROVE ~Astray /\ \A j \in 1..N : r.headers[j].kind = "header"
  <2>1. ~Astray
    BY <1>14, AstrayDirty
  <2>2. k + 1 \in DOMAIN sent
    <3>1. sent \in Seq(Requests) /\ Len(sent) \in Nat
      BY <1>0 DEF TypeInv, TypeOK
    <3> QED BY <1>3, <1>5, <2>1, <3>1
  <2>3. Tame(r)
    BY <1>14, <2>2 DEF Dirty
  <2>4. DOMAIN r.headers = 1..N
    BY <1>7, <2>1, RequestParts
  <2> QED BY <2>1, <2>3, <2>4 DEF Tame
<1> HIDE DEF m, r, b, N, k
<1>17. CASE m = 0
  <2>1. place' = "parsed" /\ InputBuffer_' = InputBuffer_ /\ request' = request
    BY <1>1, <1>17
  <2>2. Dirty \/ cut
    <3> SUFFICES ASSUME ~Dirty, ~cut PROVE FALSE
      OBVIOUS
    <3>0. ~Astray
      BY <1>14
    <3>3. n < N => Rest[1].kind = "header" /\ Rest[2].kind = "crlf"
      BY <1>7, <1>13, <1>14, <3>0
    <3>1. CASE Len(inp) = 0
      <4>1. inp = <<>> /\ 1 \in 1..Len(inbox)
        BY <1>3, <1>7, <1>9, <3>0, <3>1
      <4>2. inbox[1] = Rest[1] /\ inbox # <<>>
        <5>1. PICK i : i = 1
          OBVIOUS
        <5>2. Len(inp) + i = 1 /\ i \in 1..Len(inbox)
          BY <3>1, <4>1, <5>1
        <5>3. Rest[Len(inp) + i] = inbox[i]
          BY <1>9, <5>2
        <5>4. inbox # <<>>
          BY <4>1
        <5> QED BY <5>1, <5>2, <5>3, <5>4
      <4>3. inbox[1].kind # "header" /\ inbox[1].kind # "crlf"
        BY <1>0, <4>1, <4>2 DEF CutInv
      <4>4. n < N \/ n = N
        BY <1>7, <3>0
      <4> QED BY <1>15, <3>0, <3>3, <4>2, <4>3, <4>4
    <3>2. CASE Len(inp) # 0
      <4>1. 1 \in 1..Len(inp)
        BY <1>3, <3>2
      <4>2. Rest[1].kind # "crlf" /\ Rest[1] = inp[1]
        BY <1>9, <1>10, <1>17, <4>1
      <4>3. n < N
        BY <1>7, <1>15, <3>0, <4>2
      <4>4. Len(inp) = 1
        <5>1. 2 \notin 1..Len(inp)
          BY <1>9, <1>10, <1>17, <3>3, <4>3
        <5>2. PICK x : x = Len(inp)
          OBVIOUS
        <5>3. x \in Nat /\ x # 0 /\ 2 \notin 1..x
          BY <1>3, <3>2, <5>1, <5>2
        <5>4. x = 1
          BY <5>3
        <5> QED BY <5>2, <5>4
      <4>5. 1 \in 1..Len(inbox)
        <5>1. Len(Rest) >= 2
          BY <1>7, <3>0, <4>3
        <5> QED BY <1>9, <4>4, <5>1
      <4>6. inbox[1] = Rest[2] /\ inbox # <<>>
        <5>1. PICK i : i = 1
          OBVIOUS
        <5>2. Len(inp) + i = 2 /\ i \in 1..Len(inbox)
          BY <4>4, <4>5, <5>1
        <5>3. Rest[Len(inp) + i] = inbox[i]
          BY <1>9, <5>2
        <5>4. inbox # <<>>
          BY <4>5
        <5> QED BY <5>1, <5>2, <5>3, <5>4
      <4>7. inp[1].kind = "line"
        BY <1>0, <3>3, <4>3, <4>4, <4>6 DEF CutInv
      <4> QED BY <3>3, <4>2, <4>3, <4>7
    <3> QED BY <3>1, <3>2
  <2>3. Rest' = Rest
    BY <1>2, <2>1 DEF Rest
  <2>4. TypeInv'
    <3>1. TypeOK'
      BY <1>0, <1>1, <1>2, <2>1 DEF TypeInv, TypeOK
    <3> QED BY <1>0, <1>2, <2>1, <3>1 DEF TypeInv
  <2>5. PlaceInv'
    BY <1>1, <1>2, <1>12, <2>1, <2>2 DEF PlaceInv
  <2>6. StreamInv'
    <3> SUFFICES ASSUME ~Astray PROVE StreamInv'
      BY <1>2 DEF StreamInv
    <3>1. InHead(c, n)'
      BY <1>7, <1>8, <1>16, <2>1, <2>3 DEF InHead, From, Understood, N
    <3>2. Placed(c)'
      BY <1>1, <1>6, <1>16, <2>1, <3>1 DEF Placed, N
    <3> QED BY <1>2, <1>4, <3>2 DEF StreamInv
  <2>7. CutInv'
    BY <1>0, <1>2, <2>1 DEF CutInv
  <2>8. RefusedForCause'
    BY <1>2, <2>2 DEF RefusedForCause
  <2> QED BY <1>2, <2>4, <2>5, <2>6, <2>7, <2>8 DEF Inv
<1>18. CASE m # 0
  <2>0. m \in 1..Len(inp) /\ m \in Nat /\ 1 \in 1..Len(inp) /\ inp[m].kind = "crlf"
    <3>1. m \in 1..Len(inp) /\ inp[m].kind = "crlf"
      BY <1>11, <1>18
    <3> QED BY <1>3, <3>1
  <2>1. Rest[1] = inp[1] /\ inp[1] \in Tokens
    BY <1>3, <1>9, <2>0
  <2>2. RetrieveUntil(m)
    BY <1>1, <1>18
  <2>3. /\ InputBuffer_' \in Seq(Tokens) /\ Rest' = SubSeq(Rest, m + 1, Len(Rest)) /\ CutInv'
    BY <1>0, <1>2, <2>0, <2>2, Retrieved
  <2>4. PICK w : w = Len(Wire(r))
    OBVIOUS
  <2>5. PICK p : p = 2 * n + 3
    OBVIOUS
  <2>6. ASSUME ~Astray
        PROVE  /\ w \in Nat /\ w >= 2 * N + 3 /\ N \in Nat /\ n \in Nat /\ n <= N
               /\ p \in 1..w /\ p \in Nat
    <3>1. w \in Nat /\ w >= 2 * N + 3
      BY <1>7, <2>4, <2>6, WireLong DEF N
    <3>2. N \in Nat /\ n \in Nat /\ n <= N
      BY <1>7, <2>6
    <3> QED BY <2>5, <3>1, <3>2
  <2>7. ASSUME ~Astray, m \in 1..w - p + 1 PROVE Rest' = From(p + m, r, b)
    BY <1>7, <1>8, <2>3, <2>4, <2>5, <2>6, <2>7, FromDrop
  <2>8. CASE inp[1].kind = "header"
    <3>1. /\ request' = [request EXCEPT !.headers_ = AddHeader(@, inp[1].data)]
          /\ place' = place
      BY <1>1, <1>18, <2>8
    <3>2. request' \in HttpRequests /\ request'.state_ = request.state_
      <4>1. inp[1].data \in Headers
        BY <2>1, <2>8, DataFacts
      <4>2. \A u : u = [request EXCEPT !.headers_ = AddHeader(@, inp[1].data)] =>
              u \in HttpRequests /\ u.state_ = request.state_
        BY <1>3, <4>1, HeaderTyped
      <4> QED BY <3>1, <4>2
    <3>3. TypeInv'
      <4>1. TypeOK'
        BY <1>0, <1>1, <1>2, <3>1, <3>2 DEF TypeInv, TypeOK, HttpRequests, Methods, Versions
      <4> QED BY <1>0, <1>2, <2>3, <3>2, <4>1 DEF TypeInv
    <3>4. PlaceInv'
      BY <1>1, <1>12, <3>1, <3>2 DEF PlaceInv
    <3>5. StreamInv'
      <4> SUFFICES ASSUME ~Astray PROVE StreamInv'
        BY <1>2 DEF StreamInv
      <4>1. n < N
        BY <1>7, <1>15, <2>1, <2>8
      <4>2. m = 2
        <5>1. m # 1
          BY <2>0, <2>8
        <5>2. 2 \in 1..Len(inp)
          BY <1>3, <2>0, <5>1
        <5>3. inp[2].kind = "crlf"
          BY <1>9, <1>13, <4>1, <5>2
        <5>4. m <= 2
          BY <1>11, <1>18, <5>2, <5>3
        <5> QED BY <2>0, <5>1, <5>4
      <4>3. inp[1] = r.headers[n + 1]
        BY <1>7, <2>1, <4>1
      <4>4. Understood(request', r, n + 1)
        <5>1. PICK u : u = request'
          OBVIOUS
        <5>2. u = [request EXCEPT !.headers_ = AddHeader(@, r.headers[n + 1].data)]
          BY <3>1, <4>3, <5>1
        <5>3. Understood(u, r, n + 1)
          BY <1>3, <1>7, <1>8, <2>8, <4>1, <4>3, <5>2, HeaderAdded DEF N
        <5> QED BY <5>1, <5>3
      <4>5. PICK j : j = n + 1
        OBVIOUS
      <4>6. Rest' = From(2 * j + 3, r, b)
        <5>1. m \in 1..w - p + 1 /\ p + m = 2 * j + 3
          BY <2>5, <2>6, <4>1, <4>2, <4>5
        <5> QED BY <2>7, <5>1
      <4>7. j \in 0..N /\ j <= N
        BY <1>7, <4>1, <4>5
      <4>8. Understood(request', r, j)
        BY <4>4, <4>5
      <4>9. InHead(c, j)'
        BY <1>16, <4>6, <4>7, <4>8 DEF InHead, From, Understood, N
      <4>10. Placed(c)'
        BY <1>1, <1>16, <3>1, <3>2, <4>7, <4>9 DEF Placed, N
      <4> QED BY <1>2, <1>4, <4>10 DEF StreamInv
    <3>6. RefusedForCause'
      BY <1>0, <1>1, <1>2, <3>1 DEF RefusedForCause
    <3> QED BY <1>2, <2>3, <3>3, <3>4, <3>5, <3>6 DEF Inv
  <2>9. CASE inp[1].kind # "header"
    <3>1. request' = [request EXCEPT !.state_ = "kdown"] /\ place' = "parsed"
      BY <1>1, <1>18, <2>9
    <3>2. /\ request' \in HttpRequests /\ request'.state_ = "kdown"
          /\ request'.method_ = request.method_ /\ request'.url_ = request.url_
          /\ request'.query_ = request.query_ /\ request'.headers_ = request.headers_
      BY <1>3, <3>1 DEF HttpRequests
    <3>3. TypeInv'
      <4>1. TypeOK'
        BY <1>0, <1>1, <1>2, <3>1, <3>2 DEF TypeInv, TypeOK, HttpRequests, Methods, Versions
      <4> QED BY <1>0, <1>2, <2>3, <3>2, <4>1 DEF TypeInv
    <3>4. PlaceInv'
      BY <1>1, <1>12, <3>1, <3>2 DEF PlaceInv
    <3>5. StreamInv'
      <4> SUFFICES ASSUME ~Astray PROVE StreamInv'
        BY <1>2 DEF StreamInv
      <4>1. Understood(request', r, n)
        BY <1>8, <3>2 DEF Understood
      <4>2. HeadEnds(r, n)
        BY <1>7, <2>1, <2>9 DEF HeadEnds, N
      <4>3. ASSUME n = N PROVE Rest' = From(2 * n + 4, r, b)
        <5>1. m <= 1
          BY <1>11, <1>15, <1>18, <2>0, <2>1, <4>3
        <5>2. m = 1
          BY <2>0, <5>1
        <5>3. m \in 1..w - p + 1 /\ p + m = 2 * n + 4
          BY <2>5, <2>6, <4>3, <5>2
        <5> QED BY <2>7, <5>3
      <4>4. AtEnd(c, n)'
        BY <1>16, <4>1, <4>2, <4>3 DEF AtEnd, From, Understood, HeadEnds, N
      <4>5. Placed(c)'
        BY <1>6, <1>16, <3>1, <3>2, <4>4 DEF Placed, N
      <4> QED BY <1>2, <1>4, <4>5 DEF StreamInv
    <3>6. RefusedForCause'
      BY <1>0, <1>1, <1>2, <1>12, <3>1 DEF RefusedForCause
    <3> QED BY <1>2, <2>3, <3>3, <3>4, <3>5, <3>6 DEF Inv
  <2> QED BY <2>8, <2>9
<1> QED BY <1>17, <1>18

\* send() appends to the answers as long as the connection is there, and what
\* is not kept ends it.
LEMMA SendFacts ==
  ASSUME TypeInv, NEW a \in Answers, Send(a)
  PROVE  /\ answers' \in Seq(Answers) /\ state_' \in {"kConnected", "kDisconnecting"}
         /\ state_ = "kConnected" =>
              /\ Len(answers') = Len(answers) + 1 /\ answers'[Len(answers) + 1] = a
              /\ \A i \in 1..Len(answers) : answers'[i] = answers[i]
              /\ state_' = IF a.keep THEN "kConnected" ELSE "kDisconnecting"
         /\ state_ # "kConnected" => answers' = answers /\ state_' # "kConnected"
<1>1. answers \in Seq(Answers) /\ state_ \in {"kConnected", "kDisconnecting"}
  BY DEF TypeInv, TypeOK
<1>2. CASE state_ = "kConnected"
  <2>1. answers' = Append(answers, a) /\ state_' = IF a.keep THEN "kConnected" ELSE "kDisconnecting"
    BY <1>2 DEF Send
  <2>2. /\ answers' \in Seq(Answers) /\ Len(answers') = Len(answers) + 1
        /\ answers'[Len(answers) + 1] = a
        /\ \A i \in 1..Len(answers) : answers'[i] = answers[i]
    BY <1>1, <2>1, AppendProperties
  <2> QED BY <1>2, <2>1, <2>2
<1>3. CASE state_ # "kConnected"
  <2>1. answers' = answers
    BY <1>3 DEF Send
  <2>2. state_ = "kDisconnecting" /\ (state_' = state_ \/ state_' = "kDisconnecting")
    BY <1>1, <1>3 DEF Send
  <2> QED BY <1>1, <1>3, <2>1, <2>2
<1> QED BY <1>2, <1>3

\* What one more answer makes of AnswerInv: there is a request for it, or it is
\* the 400 that ends the connection.
LEMMA Answered ==
  ASSUME TypeInv, AnswerInv, NEW a \in Answers, Send(a), a.length = a.body,
         \/ Len(handed') = Len(handed) + 1
         \/ Len(handed') = Len(handed) /\ ~a.keep /\ a.code = 400
  PROVE  AnswerInv'
<1> DEFINE A == Len(answers)  H == Len(handed)
<1>0. A \in Nat /\ H \in Nat /\ answers \in Seq(Answers) /\ DOMAIN answers = 1..A
  BY DEF TypeInv
<1>1. /\ answers' \in Seq(Answers)
      /\ state_ = "kConnected" =>
           /\ Len(answers') = A + 1 /\ answers'[A + 1] = a
           /\ \A i \in 1..A : answers'[i] = answers[i]
           /\ state_' = IF a.keep THEN "kConnected" ELSE "kDisconnecting"
      /\ state_ # "kConnected" => answers' = answers /\ state_' # "kConnected"
  BY SendFacts
<1>2. /\ \A i \in 1..A : answers[i].length = answers[i].body
      /\ \A i \in 1..(A - 1) : answers[i].keep
      /\ state_ = "kConnected" => A = H
      /\ A <= H + 1
      /\ A > H => answers[A].code = 400
      /\ state_ = "kConnected" => \A i \in 1..A : answers[i].keep
  BY <1>0 DEF AnswerInv, OneAnswerEach
<1> HIDE DEF A, H
<1>3. Len(handed') \in {H, H + 1} /\ (Len(handed') = H => ~a.keep /\ a.code = 400)
  BY <1>0 DEF H
<1>4. CASE state_ = "kConnected"
  <2>1. /\ Len(answers') = A + 1 /\ answers'[A + 1] = a /\ A = H
        /\ \A i \in 1..A : answers'[i] = answers[i] /\ answers[i].keep
        /\ state_' = IF a.keep THEN "kConnected" ELSE "kDisconnecting"
        /\ DOMAIN answers' = 1..A + 1
    <3>1. DOMAIN answers' = 1..Len(answers')
      BY <1>1
    <3> QED BY <1>1, <1>2, <1>4, <3>1
  <2>2. \A i \in DOMAIN answers' : answers'[i].length = answers'[i].body
    <3> SUFFICES ASSUME NEW i \in 1..A + 1 PROVE answers'[i].length = answers'[i].body
      BY <2>1
    <3>1. i \in 1..A \/ i = A + 1
      BY <1>0
    <3> QED BY <1>2, <2>1, <3>1
  <2>3. \A i \in 1..(Len(answers') - 1) : answers'[i].keep
    <3>1. (A + 1) - 1 = A
      BY <1>0
    <3> QED BY <2>1, <3>1
  <2>4. Len(answers') <= Len(handed') + 1
    BY <1>0, <1>3, <2>1
  <2>5. Len(answers') > Len(handed') => answers'[Len(answers')].code = 400
    BY <1>0, <1>3, <2>1
  <2>6. state_' = "kConnected" =>
          Len(answers') = Len(handed') /\ \A i \in DOMAIN answers' : answers'[i].keep
    <3> SUFFICES ASSUME state_' = "kConnected"
                 PROVE  Len(answers') = Len(handed') /\ \A i \in 1..A + 1 : answers'[i].keep
      BY <2>1
    <3>1. a.keep
      BY <2>1
    <3>2. \A i \in 1..A + 1 : i \in 1..A \/ i = A + 1
      BY <1>0
    <3> QED BY <1>0, <1>3, <2>1, <3>1, <3>2
  <2> QED BY <2>2, <2>3, <2>4, <2>5, <2>6 DEF AnswerInv, OneAnswerEach
<1>5. CASE state_ # "kConnected"
  <2>1. answers' = answers /\ state_' # "kConnected" /\ Len(answers') = A
    BY <1>1, <1>5 DEF A
  <2>2. A <= Len(handed') + 1 /\ (A > Len(handed') => A > H)
    BY <1>0, <1>2, <1>3
  <2> QED BY <1>0, <1>2, <2>1, <2>2 DEF AnswerInv, OneAnswerEach, A
<1> QED BY <1>4, <1>5

\* Refuse leaves the stream where it is.
LEMMA RefuseInv ==
  ASSUME Inv, Refuse
  PROVE  Inv'
<1>0. TypeInv /\ PlaceInv /\ StreamInv /\ CutInv /\ HandedInv /\ RefusedForCause /\ AnswerInv
  BY DEF Inv
<1>1. /\ place = "parsed" /\ ~ok /\ Send(BadRequest) /\ place' = "poll"
      /\ inbox' = inbox /\ sent' = sent /\ InputBuffer_' = InputBuffer_ /\ ok' = ok
      /\ request' = request /\ handed' = handed /\ cut' = cut /\ piled' = piled
  BY DEF Refuse, peerVars
<1>2. /\ BadRequest \in Answers /\ BadRequest.length = BadRequest.body
      /\ ~BadRequest.keep /\ BadRequest.code = 400
  BY DEF BadRequest, Answers
<1>3. request.state_ = "kParseLine"
  BY <1>0, <1>1 DEF PlaceInv
<1>4. (Dirty' <=> Dirty) /\ (Astray' <=> Astray)
  BY <1>1 DEF Dirty, Astray
<1>5. AnswerInv'
  BY <1>0, <1>1, <1>2, Answered
<1>6. answers' \in Seq(Answers) /\ state_' \in {"kConnected", "kDisconnecting"}
  BY <1>0, <1>1, <1>2, SendFacts
<1>7. TypeInv'
  <2>1. TypeOK'
    BY <1>0, <1>1, <1>6 DEF TypeInv, TypeOK
  <2> QED BY <1>0, <1>1, <1>6, <2>1 DEF TypeInv
<1>8. PlaceInv'
  BY <1>0, <1>1, <1>3 DEF PlaceInv
<1>9. StreamInv'
  <2> SUFFICES ASSUME ~Astray PROVE StreamInv'
    BY <1>4 DEF StreamInv
  <2>1. PICK c : Stream(c) /\ Placed(c)
    BY <1>0 DEF StreamInv
  <2>2. Stream(c)'
    BY <1>1, <2>1 DEF Stream
  <2>3. Rest' = Rest
    BY <1>1 DEF Rest
  <2>4. (AtLine(c) => AtLine(c)') /\ (Refused(Rest) => Refused(Rest)')
    BY <1>1, <2>3 DEF AtLine, Refused
  <2>5. Placed(c)'
    BY <1>1, <1>3, <1>4, <2>1, <2>4 DEF Placed
  <2> QED BY <2>2, <2>5 DEF StreamInv
<1>10. CutInv'
  BY <1>0, <1>1 DEF CutInv
<1>11. HandedInv'
  BY <1>0, <1>1 DEF HandedInv
<1>12. RefusedForCause'
  BY <1>0, <1>1, <1>4 DEF RefusedForCause
<1> QED BY <1>5, <1>7, <1>8, <1>9, <1>10, <1>11, <1>12 DEF Inv

\* Forget leaves a head whose rest, a line of it or its end, is no request line.
LEMMA ForgetInv ==
  ASSUME Inv, Forget
  PROVE  Inv'
<1>0. TypeInv /\ PlaceInv /\ StreamInv /\ CutInv /\ HandedInv /\ RefusedForCause /\ AnswerInv
  BY DEF Inv
<1>1. /\ place = "parsed" /\ ok /\ request.state_ # "kdown" /\ place' = "poll"
      /\ InputBuffer_' = InputBuffer_ /\ ok' = ok /\ request' = request
      /\ UNCHANGED <<peerVars, outVars, cut, piled>>
  BY DEF Forget
<1>2. /\ inbox' = inbox /\ sent' = sent /\ handed' = handed /\ answers' = answers
      /\ state_' = state_ /\ cut' = cut /\ piled' = piled
      /\ (Dirty' <=> Dirty) /\ (Astray' <=> Astray) /\ HandedInv' /\ AnswerInv'
      /\ \A c : Stream(c) => Stream(c)'
  BY <1>0, <1>1, Untouched
<1>3. TypeInv'
  <2>1. TypeOK'
    BY <1>0, <1>1, <1>2 DEF TypeInv, TypeOK
  <2> QED BY <1>0, <1>1, <1>2, <2>1 DEF TypeInv
<1>4. PlaceInv'
  BY <1>1 DEF PlaceInv
<1>5. StreamInv'
  <2> SUFFICES ASSUME ~Astray PROVE StreamInv'
    BY <1>2 DEF StreamInv
  <2>1. PICK c : Stream(c) /\ Placed(c)
    BY <1>0 DEF StreamInv
  <2>2. Rest' = Rest
    BY <1>1, <1>2 DEF Rest
  <2>3. (AtLine(c) => AtLine(c)') /\ (Refused(Rest) => Refused(Rest)')
    BY <1>2, <2>2 DEF AtLine, Refused
  <2>6. Len(handed) <= Len(sent)
    BY <2>1 DEF Placed
  <2>4. AtLine(c) \/ (Refused(Rest) /\ (Dirty \/ cut))
    <3>1. CASE request.state_ = "kParseLine"
      BY <2>1, <3>1 DEF Placed
    <3>2. CASE request.state_ # "kParseLine"
      <4>1. request.state_ = "kParseHeader"
        BY <1>0, <1>1, <3>2 DEF TypeInv, TypeOK
      <4>2. Dirty \/ cut
        BY <1>0, <1>1, <4>1 DEF PlaceInv
      <4> DEFINE r == sent[Len(handed) + 1]
      <4>3. Len(handed) < Len(sent) /\ \E n \in 0..Len(r.headers) : InHead(c, n)
        BY <1>1, <2>1, <4>1 DEF Placed
      <4>4. PICK n \in 0..Len(r.headers) : InHead(c, n)
        BY <4>3
      <4>5. n \in Nat
        OBVIOUS
      <4>6. /\ r \in Requests /\ Len(r.headers) \in Nat /\ n <= Len(r.headers) /\ Len(Rest) >= 1
            /\ n < Len(r.headers) => Rest[1] = r.headers[n + 1]
            /\ n = Len(r.headers) => Rest[1] = CRLF
        BY <1>0, <2>1, <4>3, <4>4, <4>5, HeadAhead
      <4> HIDE DEF r
      <4>7. Rest[1].kind # "line"
        <5>1. CASE n < Len(r.headers)
          <6>1. n + 1 \in 1..Len(r.headers)
            BY <4>5, <4>6, <5>1
          <6>2. r.headers[n + 1] \in HeadLines
            BY <4>6, <6>1, RequestParts
          <6>3. r.headers[n + 1].kind \in {"header", "text"}
            BY <6>2, HeadLineFacts
          <6> QED BY <4>6, <5>1, <6>3
        <5>2. CASE n = Len(r.headers)
          BY <4>6, <5>2, TokenFacts
        <5> QED BY <4>5, <4>6, <5>1, <5>2
      <4>8. Rest \in Seq(Tokens) /\ Len(Rest) \in Nat
        BY <1>0, RestFacts DEF TypeInv
      <4>9. Rest # <<>> /\ Rest[1] \in Tokens
        <5>1. 1 \in 1..Len(Rest)
          BY <4>6, <4>8
        <5> QED BY <4>8, <5>1
      <4>10. ~ParseLine(<<Rest[1]>>)
        BY <4>7, <4>9, LineFacts
      <4> QED BY <4>2, <4>9, <4>10 DEF Refused
    <3> QED BY <3>1, <3>2
  <2>5. Placed(c)'
    BY <1>1, <1>2, <2>3, <2>4, <2>6 DEF Placed
  <2> QED BY <1>2, <2>1, <2>5 DEF StreamInv
<1>6. CutInv'
  BY <1>0, <1>1, <1>2 DEF CutInv
<1>7. RefusedForCause'
  BY <1>0, <1>1, <1>2 DEF RefusedForCause
<1> QED BY <1>2, <1>3, <1>4, <1>5, <1>6, <1>7 DEF Inv

\* OnRequest hands over the request whose head has ended.  What is left of it
\* in the buffer, if it is not Tame, leads parse() astray.
LEMMA OnRequestInv ==
  ASSUME Inv, NEW res \in Responses, OnRequest(res)
  PROVE  Inv'
<1> DEFINE a == response(res)  k == Len(handed)
<1>0. TypeInv /\ PlaceInv /\ StreamInv /\ CutInv /\ HandedInv /\ RefusedForCause /\ AnswerInv
  BY DEF Inv
<1>1. /\ place = "parsed" /\ ok /\ request.state_ = "kdown" /\ place' = "poll"
      /\ handed' = Append(handed, request) /\ Send(a)
      /\ inbox' = inbox /\ sent' = sent /\ InputBuffer_' = InputBuffer_ /\ ok' = ok
      /\ request' = request /\ cut' = cut /\ piled' = piled
  BY DEF OnRequest, peerVars
<1>2. a \in Answers /\ a.length = a.body
  <2>1. res \in [code : Nat, keep : BOOLEAN, body : Nat]
    BY HttpAssumption
  <2> QED BY <2>1 DEF response, Answers
<1> HIDE DEF a
<1>3. /\ handed \in Seq(HttpRequests) /\ request \in HttpRequests /\ k \in Nat
      /\ sent \in Seq(Requests) /\ Len(sent) \in Nat /\ DOMAIN sent = 1..Len(sent)
  BY <1>0 DEF TypeInv, TypeOK
<1>4. /\ handed' \in Seq(HttpRequests) /\ Len(handed') = k + 1 /\ handed'[k + 1] = request
      /\ \A i \in 1..k : handed'[i] = handed[i]
  BY <1>1, <1>3, AppendProperties
<1>5. PICK c : ~Astray => Stream(c) /\ Placed(c)
  BY <1>0 DEF StreamInv
<1> DEFINE r == sent[k + 1]  b == c[k + 1]  N == Len(r.headers)
<1>6. ~Astray => k < Len(sent) /\ \E n \in 0..N : AtEnd(c, n)
  BY <1>1, <1>5 DEF Placed
<1>7. PICK n : ~Astray => n \in 0..N /\ AtEnd(c, n)
  BY <1>6
<1>8. ASSUME ~Astray
      PROVE  /\ r \in Requests /\ b \in Seq(Tokens) /\ N \in Nat /\ n \in 0..N
             /\ k + 1 \in DOMAIN sent /\ k + 1 <= Len(sent)
             /\ HeadEnds(r, n) /\ Understood(request, r, n)
             /\ n = N => Rest = From(2 * n + 4, r, b)
  <2>1. r \in Requests /\ b \in Seq(Tokens)
    BY <1>0, <1>5, <1>6, <1>8, ComingFacts
  <2>2. N \in Nat
    BY <2>1, RequestParts
  <2>3. k + 1 \in DOMAIN sent /\ k + 1 <= Len(sent)
    BY <1>3, <1>6, <1>8
  <2> QED BY <1>7, <1>8, <2>1, <2>2, <2>3 DEF AtEnd
<1>9. Dirty' <=> Dirty
  BY <1>1 DEF Dirty
<1>10. Astray => Astray'
  <2>1. \A i \in DOMAIN sent : i <= k => i <= k + 1
    BY <1>3
  <2> QED BY <1>1, <1>4, <2>1 DEF Astray
<1>11. AnswerInv'
  BY <1>0, <1>1, <1>2, <1>4, Answered
<1>12. answers' \in Seq(Answers) /\ state_' \in {"kConnected", "kDisconnecting"}
  BY <1>0, <1>1, <1>2, SendFacts
<1> HIDE DEF r, b, N
<1>17. TypeInv'
  <2>1. TypeOK'
    BY <1>0, <1>1, <1>12 DEF TypeInv, TypeOK
  <2> QED BY <1>0, <1>1, <1>4, <1>12, <2>1 DEF TypeInv
<1>18. PlaceInv'
  BY <1>1 DEF PlaceInv
<1>19. StreamInv'
  <2> SUFFICES ASSUME ~Astray PROVE StreamInv'
    BY <1>10 DEF StreamInv
  <2>1. CASE ~Tame(r)
    <3>1. k + 1 \in DOMAIN sent' /\ k + 1 <= Len(handed') /\ sent'[k + 1] = r
      BY <1>1, <1>3, <1>4, <1>8 DEF r
    <3>2. Astray'
      BY <2>1, <3>1 DEF Astray, Tame
    <3> QED BY <3>2 DEF StreamInv
  <2>2. CASE Tame(r)
    <3>1. Stream(c)'
      BY <1>1, <1>5 DEF Stream
    <3>2. n = N
      <4> SUFFICES ASSUME n # N PROVE FALSE
        OBVIOUS
      <4>1. n < N /\ n + 1 \in 1..N
        BY <1>8
      <4>2. DOMAIN r.headers = 1..N
        BY <1>8, RequestParts DEF N
      <4> QED BY <1>8, <2>2, <4>1, <4>2 DEF Tame, HeadEnds, N
    <3>3. 2 * n + 4 = Len(Wire(r)) + 1
      <4>1. Len(r.body) = 0
        BY <2>2 DEF Tame
      <4>2. Len(Wire(r)) = 2 * N + 3 + 0
        BY <1>8, <4>1, WireFacts DEF N
      <4> QED BY <1>8, <3>2, <4>2
    <3>4. Rest = b
      BY <1>8, <3>2, <3>3, FromEnds
    <3>5. Rest' = Rest
      BY <1>1 DEF Rest
    <3>6. AtLine(c)'
      BY <1>4, <3>4, <3>5 DEF AtLine, b
    <3>7. Placed(c)'
      BY <1>1, <1>4, <1>8, <3>6 DEF Placed
    <3> QED BY <3>1, <3>7 DEF StreamInv
  <2> QED BY <2>1, <2>2
<1>20. CutInv'
  BY <1>0, <1>1 DEF CutInv
<1>21. HandedInv'
  <2> SUFFICES ASSUME NEW i \in 1..k + 1, \A j \in DOMAIN sent : j < i => Tame(sent[j])
               PROVE  /\ i <= Len(sent)
                      /\ \E h \in 0..Len(sent[i].headers) :
                           HeadEnds(sent[i], h) /\ Understood(handed'[i], sent[i], h)
    <3>1. DOMAIN handed' = 1..k + 1
      BY <1>4
    <3> QED BY <1>1, <3>1 DEF HandedInv
  <2>1. CASE i = k + 1
    <3>1. ~Astray
      <4>1. \A j \in DOMAIN sent : j <= k => j < i
        BY <1>3, <2>1
      <4> QED BY <4>1 DEF Astray
    <3> QED BY <1>4, <1>8, <2>1, <3>1 DEF r, N
  <2>2. CASE i # k + 1
    <3>1. i \in 1..k /\ i \in DOMAIN handed
      BY <1>3, <2>2
    <3>2. handed'[i] = handed[i]
      BY <1>4, <3>1
    <3> QED BY <1>0, <3>1, <3>2 DEF HandedInv
  <2> QED BY <2>1, <2>2
<1>22. RefusedForCause'
  <2>1. answers \in Seq(Answers) /\ Len(answers) \in Nat
    BY <1>0 DEF TypeInv
  <2>2. Len(answers') = Len(answers) + 1 \/ Len(answers') = Len(answers)
    BY <1>0, <1>1, <1>2, SendFacts
  <2>3. Len(answers') > Len(handed') => Len(answers) > k
    BY <1>3, <1>4, <2>1, <2>2
  <2> QED BY <1>0, <1>1, <1>9, <2>3 DEF RefusedForCause
<1> QED BY <1>11, <1>17, <1>18, <1>19, <1>20, <1>21, <1>22 DEF Inv

\* A step that changes nothing.
LEMMA StutterInv ==
  ASSUME Inv, UNCHANGED vars
  PROVE  Inv'
<1>0. TypeInv /\ PlaceInv /\ StreamInv /\ CutInv /\ HandedInv /\ RefusedForCause /\ AnswerInv
  BY DEF Inv
<1>1. /\ InputBuffer_' = InputBuffer_ /\ place' = place /\ ok' = ok /\ request' = request
      /\ UNCHANGED <<peerVars, outVars, cut, piled>>
  BY DEF vars, parseVars
<1>2. /\ inbox' = inbox /\ sent' = sent /\ handed' = handed /\ answers' = answers
      /\ state_' = state_ /\ cut' = cut /\ piled' = piled
      /\ (Dirty' <=> Dirty) /\ (Astray' <=> Astray) /\ HandedInv' /\ AnswerInv'
      /\ \A c : Stream(c) => Stream(c)'
  BY <1>0, <1>1, Untouched
<1>3. TypeInv'
  BY <1>0, <1>1, <1>2 DEF TypeInv, TypeOK
<1>4. PlaceInv'
  BY <1>0, <1>1, <1>2 DEF PlaceInv
<1>5. StreamInv'
  <2> SUFFICES ASSUME ~Astray PROVE StreamInv'
    BY <1>2 DEF StreamInv
  <2>1. PICK c : Stream(c) /\ Placed(c)
    BY <1>0 DEF StreamInv
  <2>2. Rest' = Rest
    BY <1>1, <1>2 DEF Rest
  <2>3. (AtLine(c) <=> AtLine(c)') /\ (Refused(Rest) <=> Refused(Rest)')
    BY <1>1, <1>2, <2>2 DEF AtLine, Refused
  <2>4. \A n : (InHead(c, n) <=> InHead(c, n)') /\ (AtEnd(c, n) <=> AtEnd(c, n)')
    BY <1>1, <1>2, <2>2 DEF InHead, AtEnd
  <2>5. Placed(c)'
    BY <1>1, <1>2, <2>1, <2>3, <2>4 DEF Placed
  <2> QED BY <1>2, <2>1, <2>5 DEF StreamInv
<1>6. CutInv'
  BY <1>0, <1>1, <1>2 DEF CutInv
<1>7. RefusedForCause'
  BY <1>0, <1>1, <1>2 DEF RefusedForCause
<1> QED BY <1>2, <1>3, <1>4, <1>5, <1>6, <1>7 DEF Inv

\* Every step of the peer and of the loop keeps the invariant.
LEMMA Invariance == SafeSpec => []Inv
<1>1. Inv /\ [Next]_vars => Inv'
  <2> SUFFICES ASSUME Inv, [Next]_vars PROVE Inv'
    OBVIOUS
  <2>1. ASSUME NEW n \in DOMAIN inbox, OnMessage(n) PROVE Inv'
    BY <2>1, OnMessageInv
  <2>2. CASE ParseRequestLine
    BY <2>2, ParseRequestLineInv
  <2>3. CASE ParseHeader
    BY <2>3, ParseHeaderInv
  <2>4. CASE Refuse
    BY <2>4, RefuseInv
  <2>5. CASE Forget
    BY <2>5, ForgetInv
  <2>6. ASSUME NEW res \in Responses, OnRequest(res) PROVE Inv'
    BY <2>6, OnRequestInv
  <2>7. ASSUME NEW r \in Requests, PeerSends(r) PROVE Inv'
    BY <2>7, PeerSendsInv
  <2>8. CASE UNCHANGED vars
    BY <2>8, StutterInv
  <2> QED BY <2>1, <2>2, <2>3, <2>4, <2>5, <2>6, <2>7, <2>8 DEF Next, LoopStep
<1> QED BY <1>1, InitInv, PTL DEF SafeSpec

\* However the stream of a peer is cut into reads and whatever its requests
\* are, HttpCallback_ gets them in the order in which they were sent, none twice
\* and none left out, up to the first that has a body or a line without a colon
\* in its head: each with its method, target, query and the headers in front of
\* such a line, their values without the last character.
THEOREM RequestsHandedInOrder == SafeSpec => []HandedInOrder
<1>1. Inv => HandedInOrder
  <2> SUFFICES ASSUME Inv PROVE HandedInOrder
    OBVIOUS
  <2>1. TypeInv /\ HandedInv
    BY DEF Inv
  <2>2. TypeOK /\ sent \in Seq(Requests)
    BY <2>1 DEF TypeInv, TypeOK
  <2>3. ASSUME NEW i \in DOMAIN handed, \A j \in DOMAIN sent : j < i => Tame(sent[j])
        PROVE  /\ i <= Len(sent)
               /\ \E n \in 0..Len(sent[i].headers) :
                    HeadEnds(sent[i], n) /\ MadeOf(handed[i], sent[i], n)
    <3> DEFINE r == sent[i]  h == handed[i]
    <3>1. i <= Len(sent) /\ \E n \in 0..Len(r.headers) : HeadEnds(r, n) /\ Understood(h, r, n)
      BY <2>1, <2>3 DEF HandedInv
    <3>2. PICK n \in 0..Len(r.headers) : HeadEnds(r, n) /\ Understood(h, r, n)
      BY <3>1
    <3>3. r \in Requests
      <4>1. DOMAIN handed = 1..Len(handed) /\ Len(handed) \in Nat /\ Len(sent) \in Nat
        BY <2>1, <2>2 DEF TypeInv
      <4>2. i \in 1..Len(sent)
        BY <3>1, <4>1
      <4> QED BY <2>2, <4>2
    <3> HIDE DEF r, h
    <3>4. /\ Len(r.headers) \in Nat
          /\ \A j \in 1..Len(r.headers) : r.headers[j] \in HeadLines
      BY <3>3, RequestParts
    <3>5. ASSUME NEW j \in 1..n,
                 \A k \in (j + 1)..n : r.headers[k].data.key # r.headers[j].data.key
          PROVE  ValueOf(r.headers[j].data.value, h.headers_[r.headers[j].data.key])
      <4>1. j \in 1..Len(r.headers)
        BY <3>4
      <4>2. r.headers[j] \in HeadLines
        BY <3>4, <4>1
      <4>3. r.headers[j].kind = "header"
        BY <3>2 DEF Understood
      <4>4. r.headers[j].data.value \in Seq(STRING)
        BY <4>2, <4>3, HeadLineFacts
      <4>5. h.headers_[r.headers[j].data.key] = Trimmed(r.headers[j].data.value)
        BY <3>2, <3>5 DEF Understood
      <4> QED BY <4>4, <4>5, TrimmedFacts
    <3>6. MadeOf(h, r, n)
      BY <3>2, <3>5 DEF Understood, MadeOf
    <3> QED BY <3>1, <3>2, <3>6 DEF r, h
  <2> QED BY <2>2, <2>3 DEF HandedInOrder
<1> QED BY <1>1, Invariance, PTL

\* parse() fails, and a 400 goes out, only to a peer that has sent something
\* malformed, a body or a line without a colon, or whose head was cut by the end
\* of a read.
THEOREM RefusalHasCause == SafeSpec => []RefusedForCause
<1>1. Inv => RefusedForCause
  BY DEF Inv
<1> QED BY <1>1, Invariance, PTL

\* Each request that was handed over has one answer, in order, up to the one
\* that closes the connection.
THEOREM EachAnsweredOnce == SafeSpec => []OneAnswerEach
<1>1. Inv => OneAnswerEach
  BY DEF Inv, AnswerInv
<1> QED BY <1>1, Invariance, PTL

-----------------------------------------------------------------------------
(* The buffer: what it holds is a queue until a call overruns the vector,  *)
(* and no call does so as long as the owner never asks it to hold more     *)
(* than its initial size.                                                  *)

\* A buffer before a call: the indices in order, within the vector.
Sound(b) ==
  /\ b \in BufferRecords
  /\ kCheapPrepend <= b.ReaderIndex_
  /\ b.ReaderIndex_ <= b.WriterIndex_
  /\ b.WriterIndex_ <= Len(b.buffer_)

\* The same without the vector's end: a buffer after a call.
Ordered(b) ==
  /\ b \in BufferRecords
  /\ kCheapPrepend <= b.ReaderIndex_
  /\ b.ReaderIndex_ <= b.WriterIndex_

\* What is appended is a sequence of bytes.
LEMMA DataIsSeq == \A data \in Data : data \in Seq(Bytes)
BY BufferAssumption DEF Data

\* std::copy keeps the length of the vector and changes the bytes of the
\* target range only.
LEMMA CopyFacts ==
  ASSUME NEW s \in Seq(Bytes), NEW at \in Nat, NEW data \in Seq(Bytes)
  PROVE  /\ Copy(s, at, data) \in Seq(Bytes)
         /\ Len(Copy(s, at, data)) = Len(s)
         /\ \A i \in 1..Len(s) : Copy(s, at, data)[i] =
              IF i - at \in 1..Len(data) THEN data[i - at] ELSE s[i]
<1> DEFINE t == Copy(s, at, data)
<1>1. \A i \in 1..Len(s) : t[i] \in Bytes
  BY DEF Copy
<1>2. t \in [1..Len(s) -> Bytes]
  BY <1>1 DEF Copy
<1>3. t \in Seq(Bytes) /\ Len(t) = Len(s)
  BY <1>2
<1> QED BY <1>3 DEF Copy

\* vector::resize gives the length asked for and keeps the bytes that
\* remain.
LEMMA ResizeFacts ==
  ASSUME NEW s \in Seq(Bytes), NEW n \in Nat
  PROVE  /\ Resize(s, n) \in Seq(Bytes)
         /\ Len(Resize(s, n)) = n
         /\ \A i \in 1..n : i <= Len(s) => Resize(s, n)[i] = s[i]
<1> DEFINE t == Resize(s, n)
<1>1. \A i \in 1..n : t[i] \in Bytes
  BY BufferAssumption DEF Resize
<1>2. t \in [1..n -> Bytes]
  BY <1>1 DEF Resize
<1>3. t \in Seq(Bytes) /\ Len(t) = n
  BY <1>2
<1> QED BY <1>3 DEF Resize

\* An index of the readable part lies in whatever holds the write index.
LEMMA IndexWithin ==
  ASSUME NEW r \in Nat, NEW w \in Nat, NEW m \in Nat, NEW l \in Nat,
         w <= m, w <= l, NEW i \in 1..(w - r)
  PROVE  r + i \in 1..m /\ r + i <= l
OBVIOUS

\* The readable part of a sound buffer has as many bytes as ReadableBytes()
\* says, and starts at ReaderIndex_.
LEMMA ReadableFacts ==
  ASSUME NEW b, Sound(b)
  PROVE  /\ ReadableBytes(b) \in Nat
         /\ Readable(b) \in Seq(Bytes)
         /\ Len(Readable(b)) = ReadableBytes(b)
         /\ \A i \in 1..ReadableBytes(b) :
              Readable(b)[i] = b.buffer_[b.ReaderIndex_ + i]
<1>1. ReadableBytes(b) \in Nat
  BY BufferAssumption DEF Sound, BufferRecords, ReadableBytes
<1>2. \A i \in 1..ReadableBytes(b) : b.buffer_[b.ReaderIndex_ + i] \in Bytes
  BY <1>1, BufferAssumption DEF Sound, BufferRecords, ReadableBytes
<1>3. Readable(b) \in [1..ReadableBytes(b) -> Bytes]
  BY <1>2 DEF Readable
<1> QED BY <1>1, <1>3 DEF Readable

-----------------------------------------------------------------------------
(* append and ReadFromFd.                                                  *)

\* EnsureWriteableBytes keeps the readable bytes, unless the vector is too
\* short afterwards; within the initial size it is never too short.
LEMMA EnsureFacts ==
  ASSUME NEW b, Sound(b), NEW len \in Nat
  PROVE  LET e == EnsureWriteableBytes(b, len)
         IN  /\ Ordered(e)
             /\ ReadableBytes(e) = ReadableBytes(b)
             /\ e.WriterIndex_ + len <= Len(e.buffer_) => Readable(e) = Readable(b)
             /\ ReadableBytes(b) + len + kCheapPrepend <= Len(b.buffer_) =>
                  /\ Len(e.buffer_) = Len(b.buffer_)
                  /\ e.WriterIndex_ + len <= Len(e.buffer_)
<1> USE BufferAssumption
<1> DEFINE e == EnsureWriteableBytes(b, len)
<1>0. /\ b.buffer_ \in Seq(Bytes) /\ b.ReaderIndex_ \in Nat /\ b.WriterIndex_ \in Nat
      /\ Len(b.buffer_) \in Nat
      /\ kCheapPrepend <= b.ReaderIndex_ /\ b.ReaderIndex_ <= b.WriterIndex_
      /\ b.WriterIndex_ <= Len(b.buffer_)
  BY DEF Sound, BufferRecords
<1>1. CASE WriteableBytes(b) >= len
  <2>1. e = b
    BY <1>0, <1>1 DEF EnsureWriteableBytes, WriteableBytes
  <2> QED
    BY <1>0, <1>1, <2>1 DEF Sound, Ordered, WriteableBytes
<1>2. CASE /\ WriteableBytes(b) < len
           /\ WriteableBytes(b) + PrependBytes(b) < len + kCheapPrepend
  <2> DEFINE n == WriteableBytes(b) + len
  <2>1. n \in Nat
    BY <1>0 DEF WriteableBytes
  <2>2. e = [b EXCEPT !.buffer_ = Resize(b.buffer_, n)]
    BY <1>2 DEF EnsureWriteableBytes, MakeSpace
  <2> HIDE DEF n, e
  <2>a. PICK s : s = Resize(b.buffer_, n)
    OBVIOUS
  <2>b. /\ s \in Seq(Bytes) /\ Len(s) = n
        /\ \A i \in 1..n : i <= Len(b.buffer_) => s[i] = b.buffer_[i]
    BY <1>0, <2>1, <2>a, ResizeFacts
  <2>3. /\ e \in BufferRecords /\ e.buffer_ = s
        /\ e.ReaderIndex_ = b.ReaderIndex_ /\ e.WriterIndex_ = b.WriterIndex_
    <3>1. e = [b EXCEPT !.buffer_ = s] /\ b \in BufferRecords
      BY <2>2, <2>a DEF Sound
    <3> QED BY <2>b, <3>1 DEF BufferRecords
  <2>4. ReadableBytes(e) = ReadableBytes(b)
    BY <2>3 DEF ReadableBytes
  <2>5. ASSUME e.WriterIndex_ + len <= Len(e.buffer_)
        PROVE  Readable(e) = Readable(b)
    <3>1. b.WriterIndex_ <= n
      BY <1>0, <2>1, <2>b, <2>3, <2>5
    <3>2. \A i \in 1..ReadableBytes(b) :
            e.buffer_[e.ReaderIndex_ + i] = b.buffer_[b.ReaderIndex_ + i]
      <4> TAKE i \in 1..ReadableBytes(b)
      <4> DEFINE j == b.ReaderIndex_ + i
      <4>0. i \in 1..(b.WriterIndex_ - b.ReaderIndex_)
        BY DEF ReadableBytes
      <4>1. j \in 1..n /\ j <= Len(b.buffer_)
        BY <1>0, <2>1, <3>1, <4>0, IndexWithin
      <4> HIDE DEF j
      <4>2. s[j] = b.buffer_[j]
        BY <2>b, <4>1
      <4> QED BY <2>3, <4>2 DEF j
    <3> QED BY <2>4, <3>2 DEF Readable
  <2>6. ~(ReadableBytes(b) + len + kCheapPrepend <= Len(b.buffer_))
    BY <1>0, <1>2 DEF ReadableBytes, WriteableBytes, PrependBytes
  <2> QED BY <1>0, <2>3, <2>4, <2>5, <2>6 DEF Ordered, e
<1>3. CASE /\ WriteableBytes(b) < len
           /\ ~(WriteableBytes(b) + PrependBytes(b) < len + kCheapPrepend)
  <2> DEFINE c == Copy(b.buffer_, kCheapPrepend, Readable(b))
             k == ReadableBytes(b)
  <2>0. k \in Nat /\ k = b.WriterIndex_ - b.ReaderIndex_
    BY <1>0 DEF ReadableBytes
  <2>1. /\ c \in Seq(Bytes) /\ Len(c) = Len(b.buffer_)
        /\ \A i \in 1..Len(b.buffer_) : c[i] =
             IF i - kCheapPrepend \in 1..k THEN Readable(b)[i - kCheapPrepend]
             ELSE b.buffer_[i]
    <3>1. PICK r : r = Readable(b)
      OBVIOUS
    <3>2. r \in Seq(Bytes) /\ Len(r) = k
      BY <3>1, ReadableFacts
    <3>3. c = Copy(b.buffer_, kCheapPrepend, r)
      BY <3>1
    <3> HIDE DEF c, k
    <3>4. PICK v : v = b.buffer_
      OBVIOUS
    <3>5. v \in Seq(Bytes) /\ kCheapPrepend \in Nat
      BY <1>0, <3>4, BufferAssumption
    <3>6. /\ Copy(v, kCheapPrepend, r) \in Seq(Bytes) /\ Len(Copy(v, kCheapPrepend, r)) = Len(v)
          /\ \A i \in 1..Len(v) : Copy(v, kCheapPrepend, r)[i] =
               IF i - kCheapPrepend \in 1..Len(r) THEN r[i - kCheapPrepend] ELSE v[i]
      BY <3>2, <3>5, CopyFacts
    <3> QED BY <3>1, <3>2, <3>3, <3>4, <3>6
  <2>2. e = [b EXCEPT !.buffer_ = c, !.ReaderIndex_ = kCheapPrepend,
                      !.WriterIndex_ = kCheapPrepend + k]
    BY <1>3 DEF EnsureWriteableBytes, MakeSpace
  <2>3. /\ e \in BufferRecords /\ e.buffer_ = c
        /\ e.ReaderIndex_ = kCheapPrepend /\ e.WriterIndex_ = kCheapPrepend + k
    <3> HIDE DEF c, k, e
    <3>1. b \in BufferRecords /\ kCheapPrepend + k \in Nat
      BY <2>0 DEF Sound
    <3> QED BY <2>1, <2>2, <3>1 DEF BufferRecords
  <2>4. ReadableBytes(e) = k
    BY <2>0, <2>3 DEF ReadableBytes
  <2>5. \A i \in 1..k : c[kCheapPrepend + i] = Readable(b)[i]
    BY <1>0, <2>0, <2>1
  <2>6. Readable(e) = Readable(b)
    <3>1. \A i \in 1..k : e.buffer_[e.ReaderIndex_ + i] = b.buffer_[b.ReaderIndex_ + i]
      BY <2>3, <2>5, ReadableFacts
    <3> HIDE DEF e
    <3> QED BY <2>4, <3>1 DEF Readable
  <2>7. e.WriterIndex_ + len <= Len(e.buffer_)
    <3> HIDE DEF e, c, k
    <3>1. ~(Len(b.buffer_) - b.WriterIndex_ + b.ReaderIndex_ < len + kCheapPrepend)
      BY <1>3 DEF WriteableBytes, PrependBytes
    <3>2. PICK l \in Nat : l = Len(b.buffer_)
      BY <1>0
    <3>3. Len(e.buffer_) = l /\ kCheapPrepend + k + len <= l
      <4>1. Len(e.buffer_) = l
        BY <2>1, <2>3, <3>2
      <4>2. \A r, w \in Nat : k = w - r /\ ~(l - w + r < len + kCheapPrepend)
               => kCheapPrepend + k + len <= l
        BY <2>0
      <4> QED BY <1>0, <2>0, <3>1, <3>2, <4>1, <4>2
    <3> QED BY <2>3, <3>3
  <2> HIDE DEF e, c
  <2> QED BY <1>0, <2>0, <2>1, <2>3, <2>4, <2>6, <2>7 DEF Ordered, e
<1>4. WriteableBytes(b) \in Int
  BY <1>0 DEF WriteableBytes
<1> QED BY <1>1, <1>2, <1>3, <1>4

\* How a sequence is shown to be the concatenation of two others.
LEMMA ConcatOf ==
  ASSUME NEW x \in Seq(Bytes), NEW y \in Seq(Bytes), NEW z \in Seq(Bytes),
         Len(x) = Len(y) + Len(z),
         \A i \in 1..Len(y) : x[i] = y[i],
         \A i \in 1..Len(z) : x[Len(y) + i] = z[i]
  PROVE  x = y \o z
<1>1. y \o z \in Seq(Bytes) /\ Len(y \o z) = Len(x)
  OBVIOUS
<1>2. ASSUME NEW i \in 1..Len(x) PROVE x[i] = (y \o z)[i]
  <2>1. CASE i <= Len(y)
    BY <2>1
  <2>2. CASE i > Len(y)
    <3>1. i - Len(y) \in 1..Len(z) /\ i = Len(y) + (i - Len(y))
      BY <2>2
    <3>2. x[i] = z[i - Len(y)]
      BY <3>1
    <3> QED BY <2>2, <3>1, <3>2
  <2> QED BY <2>1, <2>2
<1> QED BY <1>1, <1>2, SeqEqual

\* Copying data behind the write index appends them to the readable part,
\* unless they go beyond the vector.
LEMMA WrittenFacts ==
  ASSUME NEW b, Ordered(b), NEW data \in Seq(Bytes)
  PROVE  LET w == Written(b, data)
         IN  /\ Ordered(w)
             /\ Len(w.buffer_) = Len(b.buffer_)
             /\ w.WriterIndex_ = b.WriterIndex_ + Len(data)
             /\ ReadableBytes(w) = ReadableBytes(b) + Len(data)
             /\ ~Overrun(w) => Readable(w) = Readable(b) \o data
<1> USE BufferAssumption
<1> DEFINE w == Written(b, data)
<1>0. /\ b.buffer_ \in Seq(Bytes) /\ b.ReaderIndex_ \in Nat /\ b.WriterIndex_ \in Nat
      /\ Len(b.buffer_) \in Nat /\ Len(data) \in Nat
      /\ kCheapPrepend <= b.ReaderIndex_ /\ b.ReaderIndex_ <= b.WriterIndex_
  BY DEF Ordered, BufferRecords
<1>1. /\ w \in BufferRecords
      /\ w.buffer_ = Copy(b.buffer_, b.WriterIndex_, data)
      /\ w.ReaderIndex_ = b.ReaderIndex_
      /\ w.WriterIndex_ = b.WriterIndex_ + Len(data)
  <2>1. PICK s : s = Copy(b.buffer_, b.WriterIndex_, data)
    OBVIOUS
  <2>2. s \in Seq(Bytes)
    BY <1>0, <2>1, CopyFacts
  <2>3. w = [b EXCEPT !.buffer_ = s, !.WriterIndex_ = b.WriterIndex_ + Len(data)]
    BY <2>1 DEF Written
  <2> HIDE DEF w
  <2>4. b \in BufferRecords /\ b.WriterIndex_ + Len(data) \in Nat
    BY <1>0 DEF Ordered
  <2>5. w \in BufferRecords /\ w.buffer_ = s
    BY <2>2, <2>3, <2>4 DEF BufferRecords
  <2>6. w.ReaderIndex_ = b.ReaderIndex_ /\ w.WriterIndex_ = b.WriterIndex_ + Len(data)
    BY <2>3, <2>4 DEF BufferRecords
  <2> QED BY <2>1, <2>5, <2>6
<1> HIDE DEF w
<1>2. Len(w.buffer_) = Len(b.buffer_)
  BY <1>0, <1>1, CopyFacts
<1>3. ReadableBytes(w) = ReadableBytes(b) + Len(data)
  BY <1>0, <1>1 DEF ReadableBytes
<1>4. ASSUME ~Overrun(w) PROVE Readable(w) = Readable(b) \o data
  <2> DEFINE k == ReadableBytes(b)
  <2>1. /\ k \in Nat /\ b.ReaderIndex_ + k = b.WriterIndex_
        /\ b.WriterIndex_ + Len(data) <= Len(b.buffer_)
    BY <1>0, <1>1, <1>2, <1>4 DEF ReadableBytes, Overrun
  <2> HIDE DEF k
  <2>2. PICK q, r, v, t : /\ q = b.buffer_ /\ r = b.ReaderIndex_
                          /\ v = b.WriterIndex_ /\ t = w.buffer_
    OBVIOUS
  <2>3. /\ \A i \in 1..k : t[r + i] = q[r + i]
        /\ \A i \in 1..Len(data) : t[v + i] = data[i]
    <3>1. /\ q \in Seq(Bytes) /\ r \in Nat /\ v \in Nat /\ k = v - r
          /\ t = Copy(q, v, data) /\ v + Len(data) <= Len(q) /\ r <= v
      BY <1>0, <1>1, <2>1, <2>2
    <3>2. ASSUME NEW i \in 1..k PROVE t[r + i] = q[r + i]
      <4>1. r + i \in 1..Len(q) /\ ~((r + i) - v \in 1..Len(data))
        BY <3>1
      <4> QED BY <3>1, <4>1 DEF Copy
    <3>3. ASSUME NEW i \in 1..Len(data) PROVE t[v + i] = data[i]
      <4>1. v + i \in 1..Len(q) /\ (v + i) - v = i
        BY <3>1
      <4> QED BY <3>1, <4>1 DEF Copy
    <3> QED BY <3>2, <3>3
  <2>4. Sound(b) /\ Sound(w)
    BY <1>0, <1>1, <1>2, <2>1 DEF Ordered, Sound
  <2>5. /\ Readable(b) \in Seq(Bytes) /\ Len(Readable(b)) = k
        /\ \A i \in 1..k : Readable(b)[i] = b.buffer_[b.ReaderIndex_ + i]
    BY <2>4, ReadableFacts DEF k
  <2>6. /\ Readable(w) \in Seq(Bytes) /\ Len(Readable(w)) = k + Len(data)
        /\ \A i \in 1..(k + Len(data)) :
             Readable(w)[i] = w.buffer_[b.ReaderIndex_ + i]
    BY <1>1, <1>3, <2>4, ReadableFacts DEF k
  <2>7. PICK x, y : x = Readable(w) /\ y = Readable(b)
    OBVIOUS
  <2>8. /\ x \in Seq(Bytes) /\ y \in Seq(Bytes) /\ Len(y) = k
        /\ Len(x) = Len(y) + Len(data)
    BY <2>5, <2>6, <2>7
  <2>9. \A i \in 1..Len(y) : x[i] = y[i]
    <3> TAKE i \in 1..Len(y)
    <3>1. i \in 1..k /\ i \in 1..(k + Len(data))
      BY <1>0, <2>1, <2>8
    <3> QED BY <2>2, <2>3, <2>5, <2>6, <2>7, <3>1
  <2>10. \A i \in 1..Len(data) : x[Len(y) + i] = data[i]
    <3> TAKE i \in 1..Len(data)
    <3>1. k + i \in 1..(k + Len(data)) /\ b.ReaderIndex_ + (k + i) = b.WriterIndex_ + i
      BY <1>0, <2>1
    <3> QED BY <2>2, <2>3, <2>6, <2>7, <2>8, <3>1
  <2>11. x = y \o data
    BY <2>8, <2>9, <2>10, ConcatOf
  <2> QED BY <2>7, <2>11
<1> QED BY <1>0, <1>1, <1>2, <1>3, <1>4 DEF Ordered, w

\* The bytes that a and b hold differ by data, and a is at most one overrun
\* away from b; within the initial size it is none.
Extends(a, b, data) ==
  /\ Ordered(a)
  /\ ReadableBytes(a) = ReadableBytes(b) + Len(data)
  /\ ~Overrun(a) => Readable(a) = Readable(b) \o data
  /\ ReadableBytes(b) + Len(data) + kCheapPrepend <= Len(b.buffer_) =>
       Len(a.buffer_) = Len(b.buffer_) /\ ~Overrun(a)

\* append() adds its bytes at the end of the readable part.
LEMMA AppendFacts ==
  ASSUME NEW b, Sound(b), NEW data \in Seq(Bytes)
  PROVE  Extends(append(b, data), b, data)
<1>1. PICK e : e = EnsureWriteableBytes(b, Len(data))
  OBVIOUS
<1>2. PICK a : a = Written(e, data)
  OBVIOUS
<1>3. append(b, data) = a
  BY <1>1, <1>2 DEF append
<1>4. Len(data) \in Nat
  OBVIOUS
<1>5. /\ Ordered(e)
      /\ ReadableBytes(e) = ReadableBytes(b)
      /\ e.WriterIndex_ + Len(data) <= Len(e.buffer_) => Readable(e) = Readable(b)
      /\ ReadableBytes(b) + Len(data) + kCheapPrepend <= Len(b.buffer_) =>
           /\ Len(e.buffer_) = Len(b.buffer_)
           /\ e.WriterIndex_ + Len(data) <= Len(e.buffer_)
  BY <1>1, <1>4, EnsureFacts
<1>6. /\ Ordered(a)
      /\ Len(a.buffer_) = Len(e.buffer_)
      /\ a.WriterIndex_ = e.WriterIndex_ + Len(data)
      /\ ReadableBytes(a) = ReadableBytes(e) + Len(data)
      /\ ~Overrun(a) => Readable(a) = Readable(e) \o data
  BY <1>2, <1>5, WrittenFacts
<1>7. /\ a.WriterIndex_ \in Nat /\ Len(a.buffer_) \in Nat
      /\ Overrun(a) <=> ~(e.WriterIndex_ + Len(data) <= Len(e.buffer_))
  BY <1>6 DEF Ordered, BufferRecords, Overrun
<1> QED BY <1>3, <1>5, <1>6, <1>7 DEF Extends

\* A sequence is the concatenation of its first n elements and the others.
LEMMA SplitSeq ==
  ASSUME NEW data \in Seq(Bytes), NEW n \in Nat, n < Len(data)
  PROVE  /\ SubSeq(data, 1, n) \in Seq(Bytes) /\ Len(SubSeq(data, 1, n)) = n
         /\ SubSeq(data, n + 1, Len(data)) \in Seq(Bytes)
         /\ Len(SubSeq(data, n + 1, Len(data))) = Len(data) - n
         /\ SubSeq(data, 1, n) \o SubSeq(data, n + 1, Len(data)) = data
<1>1. PICK x, y : x = SubSeq(data, 1, n) /\ y = SubSeq(data, n + 1, Len(data))
  OBVIOUS
<1>2. /\ x \in Seq(Bytes) /\ Len(x) = n /\ \A i \in 1..n : x[i] = data[i]
  BY <1>1
<1>3. /\ y \in Seq(Bytes) /\ Len(y) = Len(data) - n
      /\ \A i \in 1..(Len(data) - n) : y[i] = data[n + i]
  BY <1>1
<1>4. data = x \o y
  <2>1. Len(data) = Len(x) + Len(y)
    BY <1>2, <1>3
  <2>2. \A i \in 1..Len(x) : data[i] = x[i]
    BY <1>2
  <2>3. \A i \in 1..Len(y) : data[Len(x) + i] = y[i]
    BY <1>2, <1>3
  <2> QED BY <1>2, <1>3, <2>1, <2>2, <2>3, ConcatOf
<1> QED BY <1>1, <1>2, <1>3, <1>4

\* ReadFromFd(), whose bytes may be split between the vector and extrabuf,
\* adds them at the end of the readable part in their order.
LEMMA ReadFromFdFacts ==
  ASSUME NEW b, Sound(b), NEW data \in Seq(Bytes)
  PROVE  Extends(ReadFromFd(b, data), b, data)
<1> DEFINE n == WriteableBytes(b)
<1>1. /\ n \in Nat /\ b.WriterIndex_ + n = Len(b.buffer_) /\ Len(data) \in Nat
      /\ Len(b.buffer_) \in Nat /\ b.WriterIndex_ \in Nat /\ Ordered(b)
  BY DEF Sound, Ordered, BufferRecords, WriteableBytes
<1>2. CASE Len(data) <= n
  <2>1. PICK a : a = Written(b, data)
    OBVIOUS
  <2>2. /\ Ordered(a) /\ Len(a.buffer_) = Len(b.buffer_)
        /\ a.WriterIndex_ = b.WriterIndex_ + Len(data)
        /\ ReadableBytes(a) = ReadableBytes(b) + Len(data)
        /\ ~Overrun(a) => Readable(a) = Readable(b) \o data
    BY <1>1, <2>1, WrittenFacts
  <2>3. ~Overrun(a)
    BY <1>1, <1>2, <2>2 DEF Overrun
  <2>4. ReadFromFd(b, data) = a
    BY <1>2, <2>1 DEF ReadFromFd
  <2> QED BY <2>2, <2>3, <2>4 DEF Extends
<1>3. CASE n < Len(data)
  <2>1. PICK x, y : x = SubSeq(data, 1, n) /\ y = SubSeq(data, n + 1, Len(data))
    OBVIOUS
  <2>2. /\ x \in Seq(Bytes) /\ Len(x) = n /\ y \in Seq(Bytes)
        /\ Len(y) = Len(data) - n /\ x \o y = data
    BY <1>1, <1>3, <2>1, SplitSeq
  <2>3. PICK d : d = Written(b, x)
    OBVIOUS
  <2>4. /\ Ordered(d) /\ Len(d.buffer_) = Len(b.buffer_)
        /\ d.WriterIndex_ = b.WriterIndex_ + n
        /\ ReadableBytes(d) = ReadableBytes(b) + n
        /\ ~Overrun(d) => Readable(d) = Readable(b) \o x
    BY <1>1, <2>2, <2>3, WrittenFacts
  <2>5. Sound(d) /\ Readable(d) = Readable(b) \o x
    BY <1>1, <2>4 DEF Sound, Ordered, Overrun
  <2>6. PICK a : a = append(d, y)
    OBVIOUS
  <2>7. Extends(a, d, y)
    BY <2>2, <2>5, <2>6, AppendFacts
  <2>8. ReadFromFd(b, data) = a
    BY <1>1, <1>3, <2>1, <2>3, <2>6 DEF ReadFromFd
  <2>9. ReadableBytes(b) \in Nat /\ Readable(b) \in Seq(Bytes)
    BY ReadableFacts
  <2>10. (Readable(b) \o x) \o y = Readable(b) \o data
    <3>1. PICK r : r = Readable(b)
      OBVIOUS
    <3>2. r \in Seq(Bytes) /\ x \in Seq(Bytes) /\ y \in Seq(Bytes)
      BY <2>2, <2>9, <3>1
    <3>3. (r \o x) \o y = r \o (x \o y)
      BY <3>2, ConcatAssociative, SMTT(60)
    <3> QED BY <2>2, <3>1, <3>3
  <2>11. ReadableBytes(d) + Len(y) = ReadableBytes(b) + Len(data)
    BY <1>1, <2>2, <2>4, <2>9
  <2> QED BY <2>4, <2>5, <2>7, <2>8, <2>10, <2>11 DEF Extends
<1> QED BY <1>1, <1>2, <1>3

-----------------------------------------------------------------------------
(* retrieve.                                                               *)

\* The bytes left of s when n of them have been taken.
After(s, n) ==
  IF n < Len(s) THEN [i \in 1..(Len(s) - n) |-> s[n + i]] ELSE <<>>

\* What a retrieve leaves is a sequence of bytes.
LEMMA AfterIsSeq ==
  ASSUME NEW s \in Seq(Bytes), NEW n \in Nat
  PROVE  After(s, n) \in Seq(Bytes)
<1>1. CASE n < Len(s)
  <2>1. \A i \in 1..(Len(s) - n) : s[n + i] \in Bytes
    BY <1>1
  <2>2. After(s, n) \in [1..(Len(s) - n) -> Bytes]
    BY <1>1, <2>1 DEF After
  <2> QED BY <1>1, <2>2
<1>2. CASE ~(n < Len(s))
  BY <1>2 DEF After
<1> QED BY <1>1, <1>2

\* retrieve() takes its bytes from the front of the readable part and does
\* not touch the vector.
LEMMA RetrieveFacts ==
  ASSUME NEW b, Sound(b), NEW len \in Nat
  PROVE  LET a == retrieve(b, len)
         IN  /\ Ordered(a)
             /\ a.buffer_ = b.buffer_
             /\ a.WriterIndex_ <= b.WriterIndex_
             /\ Readable(a) = After(Readable(b), len)
<1> USE BufferAssumption
<1>0. /\ b \in BufferRecords
      /\ b.buffer_ \in Seq(Bytes) /\ b.ReaderIndex_ \in Nat /\ b.WriterIndex_ \in Nat
      /\ kCheapPrepend <= b.ReaderIndex_ /\ b.ReaderIndex_ <= b.WriterIndex_
  BY DEF Sound, BufferRecords
<1>1. PICK a, r : a = retrieve(b, len) /\ r = Readable(b)
  OBVIOUS
<1>2. /\ Len(r) = ReadableBytes(b) /\ ReadableBytes(b) \in Nat
      /\ \A i \in 1..ReadableBytes(b) : r[i] = b.buffer_[b.ReaderIndex_ + i]
  BY <1>1, ReadableFacts
<1>3. CASE len < ReadableBytes(b)
  <2>1. a = [b EXCEPT !.ReaderIndex_ = b.ReaderIndex_ + len]
    BY <1>1, <1>3 DEF retrieve
  <2>2. /\ a \in BufferRecords /\ a.buffer_ = b.buffer_
        /\ a.ReaderIndex_ = b.ReaderIndex_ + len /\ a.WriterIndex_ = b.WriterIndex_
    BY <1>0, <2>1 DEF BufferRecords
  <2>3. ReadableBytes(a) = ReadableBytes(b) - len
    BY <1>0, <2>2 DEF ReadableBytes
  <2>4. Ordered(a)
    BY <1>0, <1>3, <2>2 DEF Ordered, ReadableBytes
  <2>5. \A i \in 1..(ReadableBytes(b) - len) :
          a.buffer_[a.ReaderIndex_ + i] = r[len + i]
    <3> TAKE i \in 1..(ReadableBytes(b) - len)
    <3>1. /\ len + i \in 1..ReadableBytes(b)
          /\ b.ReaderIndex_ + (len + i) = (b.ReaderIndex_ + len) + i
      BY <1>0, <1>2
    <3> QED BY <1>2, <2>2, <3>1
  <2>6. Readable(a) = [i \in 1..(ReadableBytes(b) - len) |-> r[len + i]]
    BY <2>3, <2>5 DEF Readable
  <2>7. Readable(a) = After(r, len)
    BY <1>2, <1>3, <2>6 DEF After
  <2> QED BY <1>0, <1>1, <2>2, <2>4, <2>7
<1>4. CASE ~(len < ReadableBytes(b))
  <2>1. a = [b EXCEPT !.ReaderIndex_ = kCheapPrepend, !.WriterIndex_ = kCheapPrepend]
    BY <1>1, <1>4 DEF retrieve, RetrieveAll
  <2>2. /\ a \in BufferRecords /\ a.buffer_ = b.buffer_
        /\ a.ReaderIndex_ = kCheapPrepend /\ a.WriterIndex_ = kCheapPrepend
    BY <1>0, <2>1 DEF BufferRecords
  <2>3. ReadableBytes(a) = 0
    BY <2>2 DEF ReadableBytes
  <2>4. Readable(a) = <<>>
    BY <2>3 DEF Readable
  <2>5. After(r, len) = <<>>
    BY <1>2, <1>4 DEF After
  <2> QED BY <1>0, <1>1, <2>2, <2>4, <2>5 DEF Ordered
<1> QED BY <1>3, <1>4

-----------------------------------------------------------------------------
(* The invariants.                                                         *)

BufferInv == Ordered(buf) /\ content \in Seq(Bytes) /\ FifoContents

\* Within the initial size the vector never changes its length.
FixedSize ==
  ~Overrun(buf) /\ Len(buf.buffer_) = kCheapPrepend + InitialSize

\* The constructor establishes the invariant and the size of the vector.
LEMMA BufferInitInv == BufferInit => BufferInv /\ FixedSize
<1> SUFFICES ASSUME BufferInit PROVE BufferInv /\ FixedSize
  OBVIOUS
<1> USE BufferAssumption
<1>1. /\ Zeros(kCheapPrepend + InitialSize) \in Seq(Bytes)
      /\ Len(Zeros(kCheapPrepend + InitialSize)) = kCheapPrepend + InitialSize
  <2>1. PICK n : n = kCheapPrepend + InitialSize
    OBVIOUS
  <2>2. n \in Nat
    BY <2>1
  <2>3. Zeros(n) \in [1..n -> Bytes]
    BY DEF Zeros
  <2> QED BY <2>1, <2>2, <2>3
<1>2. /\ buf \in BufferRecords
      /\ buf.ReaderIndex_ = kCheapPrepend /\ buf.WriterIndex_ = kCheapPrepend
      /\ Len(buf.buffer_) = kCheapPrepend + InitialSize
  BY <1>1 DEF BufferInit, NewBuffer, BufferRecords
<1>3. ReadableBytes(buf) = 0
  BY <1>2 DEF ReadableBytes
<1>4. Readable(buf) = <<>>
  BY <1>3 DEF Readable
<1> QED
  BY <1>2, <1>4 DEF BufferInit, BufferInv, Ordered, FifoContents, FixedSize, Overrun

\* Every call keeps the invariant, and the size of the vector as long as no
\* more than InitialSize bytes are held.
LEMMA BufferNextInv ==
  BufferInv /\ [BufferNext]_bufferVars =>
    /\ BufferInv'
    /\ FixedSize /\ ContentLimit <= InitialSize => FixedSize'
<1> SUFFICES ASSUME BufferInv, [BufferNext]_bufferVars
             PROVE  BufferInv' /\ (FixedSize /\ ContentLimit <= InitialSize => FixedSize')
  OBVIOUS
<1> USE BufferAssumption
<1>1. CASE UNCHANGED bufferVars
  BY <1>1 DEF bufferVars, BufferInv, FifoContents, FixedSize
<1>2. CASE BufferNext
  <2>1. /\ Sound(buf) /\ Readable(buf) = content
        /\ buf.WriterIndex_ \in Nat /\ Len(buf.buffer_) \in Nat
    BY <1>2 DEF BufferNext, BufferInv, Ordered, Sound, Overrun, FifoContents, BufferRecords
  <2>2. Len(content) = ReadableBytes(buf) /\ content \in Seq(Bytes)
    BY <2>1, ReadableFacts
  <2>3. ASSUME NEW data \in Data, Len(content) + Len(data) <= ContentLimit,
               Append_(data) \/ ReadFd(data)
        PROVE  BufferInv' /\ (FixedSize /\ ContentLimit <= InitialSize => FixedSize')
    <3>1. data \in Seq(Bytes) /\ Len(data) \in Nat
      BY DataIsSeq
    <3>2. Extends(buf', buf, data) /\ content' = content \o data
      BY <2>1, <2>3, <3>1, AppendFacts, ReadFromFdFacts DEF Append_, ReadFd
    <3>3. content' \in Seq(Bytes)
      BY <2>2, <3>1, <3>2
    <3>4. BufferInv'
      BY <2>1, <3>2, <3>3 DEF Extends, BufferInv, FifoContents
    <3>5. ASSUME FixedSize, ContentLimit <= InitialSize PROVE FixedSize'
      <4>1. ReadableBytes(buf) + Len(data) + kCheapPrepend <= Len(buf.buffer_)
        BY <2>2, <2>3, <3>1, <3>5 DEF FixedSize
      <4> QED BY <3>2, <3>5, <4>1 DEF Extends, FixedSize
    <3> QED BY <3>4, <3>5
  <2>4. ASSUME NEW len \in 0..(MaxLen + 1), Retrieve(len)
        PROVE  BufferInv' /\ (FixedSize /\ ContentLimit <= InitialSize => FixedSize')
    <3>1. len \in Nat
      OBVIOUS
    <3>2. buf' = retrieve(buf, len) /\ content' = After(content, len)
      BY <2>4 DEF Retrieve, After
    <3>3. /\ Ordered(buf') /\ buf'.buffer_ = buf.buffer_
          /\ buf'.WriterIndex_ <= buf.WriterIndex_
          /\ Readable(buf') = After(Readable(buf), len)
      BY <2>1, <3>1, <3>2, RetrieveFacts
    <3>4. content' \in Seq(Bytes)
      BY <2>2, <3>1, <3>2, AfterIsSeq
    <3>5. BufferInv'
      BY <2>1, <3>2, <3>3, <3>4 DEF BufferInv, FifoContents
    <3>6. FixedSize => FixedSize'
      BY <2>1, <3>3 DEF FixedSize, Overrun, Ordered, BufferRecords
    <3> QED BY <3>5, <3>6
  <2> QED BY <1>2, <2>3, <2>4 DEF BufferNext
<1> QED BY <1>1, <1>2

\* Every reachable state satisfies the invariant.
LEMMA BufferInvariance == BufferSpec => []BufferInv
<1>1. BufferInv /\ [BufferNext]_bufferVars => BufferInv'
  BY BufferNextInv
<1> QED BY <1>1, BufferInitInv, PTL DEF BufferSpec

\* Type invariant.
THEOREM BufferTypeCorrect == BufferSpec => []BufferTypeOK
<1>1. BufferInv => BufferTypeOK
  BY DEF BufferInv, Ordered, BufferTypeOK
<1> QED BY <1>1, BufferInvariance, PTL

\* append, ReadFromFd and retrieve treat the buffer as a queue of bytes for
\* every size of it, up to a call that overruns the vector.
THEOREM BufferIsFifo == BufferSpec => []FifoContents
BY BufferInvariance, PTL DEF BufferInv

\* The picture in Buffer.h is right for an owner that never lets the buffer
\* hold more than its initial size, in however many pieces.
THEOREM IndicesInOrder == ContentLimit <= InitialSize /\ BufferSpec => []IndexOrder
<1>1. CASE ContentLimit <= InitialSize
  <2>1. BufferInv /\ FixedSize /\ [BufferNext]_bufferVars => FixedSize'
    BY <1>1, BufferNextInv
  <2>2. BufferInv /\ FixedSize => IndexOrder
    BY DEF BufferInv, FixedSize, IndexOrder, Ordered, Overrun, BufferRecords
  <2> QED BY <2>1, <2>2, BufferInitInv, BufferInvariance, PTL DEF BufferSpec
<1>2. CASE ~(ContentLimit <= InitialSize)
  BY <1>2
<1> QED BY <1>1, <1>2
=============================================================================
