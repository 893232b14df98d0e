--------------------------- MODULE Exchange_proofs ---------------------------
(***************************************************************************)
(* Lemmas for Modems_proofs: what a WiFi driver and its modem say to each  *)
(* other on a TCP connection, one command after the other.                 *)
(***************************************************************************)
EXTENDS Modems, SequenceTheorems, TLAPS

NoText == ""
Texts ==
  {"OK", "ERROR", "FAIL", ">", "SEND OK", "SEND FAIL", "+IPD", "CLOSED", "+CIPRECVDATA",
   "+CWJAP", "No AP", "+CSQ", "+CIPSTAMAC", "WIFI DISCONNECT", "ready", "CC1352P7",
   "AT version", "ATE0", "AT+CWMODE=1", "AT+CWJAP", "AT+CIPMUX=0", "AT+CIPRECVMODE",
   "AT+CIPMODE=0", "AT+CWJAP?", "AT+CSQ", "AT+CIPSTAMAC", "AT+CIPSTART", "AT+CIPSEND",
   "AT+CIPRECVDATA", "AT+CIPCLOSE", "AT+CWQAP", "AT+RST"} \cup {NoText}
Tokens == [kind : {"line", "header", "byte"}, text : Texts, n : Int]

(* What is on its way from the modem to the driver.                          *)
Stream == rx \o line

(* Notices of the modem come at any time between two answers.                *)
Notices == {"+IPD", "CLOSED"}
IsNotice(t) == t.kind = "line" /\ t.text \in Notices
AllNotices(s) == \A k \in 1 .. Len(s) : IsNotice(s[k])

(* An answer made of the lines texts, with notices in between, and nothing    *)
(* but notices after a line of finals.                                       *)
Answering(s, texts, finals) ==
  /\ \A k \in 1 .. Len(s) : s[k].kind = "line" /\ s[k].text \in texts \cup Notices
  /\ \A k \in 1 .. Len(s) : s[k].text \in finals =>
       \A j \in k + 1 .. Len(s) : IsNotice(s[j])

(* The payload of the bytes after base: its header, at p, is taken already if *)
(* p is 0.                                                                   *)
Payload(s, header, p, m, base) ==
  /\ p + m + 1 \in 1 .. Len(s)
  /\ \A k \in 1 .. Len(s) :
       IF k = p THEN s[k] = header
       ELSE IF p < k /\ k <= p + m THEN s[k] = Byte(base + k - p)
       ELSE IF k = p + m + 1 THEN s[k] = Line("OK", 0)
       ELSE IsNotice(s[k])

(* Bytes are numbered from base on.                                          *)
Numbered(s, base) == \A k \in 1 .. Len(s) : s[k] = base + k

-----------------------------------------------------------------------------
(* Sequences.                                                                *)

LEMMA Singleton ==
  ASSUME NEW t \in Tokens
  PROVE  <<t>> \in Seq(Tokens) /\ Len(<<t>>) = 1 /\ <<t>>[1] = t
OBVIOUS

LEMMA LineIsToken ==
  ASSUME NEW text \in Texts, NEW n \in Int
  PROVE  /\ Line(text, n) \in Tokens /\ Header(text, n) \in Tokens /\ Byte(n) \in Tokens
         /\ Line(text, n).kind = "line" /\ Line(text, n).text = text /\ Line(text, n).n = n
         /\ Header(text, n).kind = "header" /\ Header(text, n).text = text
         /\ Header(text, n).n = n
         /\ Byte(n).kind = "byte" /\ Byte(n).text = NoText /\ Byte(n).n = n
<1>1. Line(text, n) \in Tokens /\ Header(text, n) \in Tokens
  BY DEF Tokens, Line, Header
<1>2. Byte(n) = [kind |-> "byte", text |-> NoText, n |-> n]
  BY DEF Byte, NoText
<1>3. /\ Line(text, n).kind = "line" /\ Line(text, n).text = text /\ Line(text, n).n = n
      /\ Header(text, n).kind = "header" /\ Header(text, n).text = text
      /\ Header(text, n).n = n
  BY DEF Line, Header
<1>4. Byte(n).kind = "byte" /\ Byte(n).text = NoText /\ Byte(n).n = n
  BY <1>2
<1>5. NoText \in Texts
  BY DEF Texts
<1>6. Byte(n) \in Tokens
  BY <1>2, <1>5 DEF Tokens
<1> QED
  BY <1>1, <1>3, <1>4, <1>6

(* Taking the first token.                                                   *)
LEMMA TakeNotice ==
  ASSUME NEW s \in Seq(Tokens), s # <<>>
  PROVE  /\ Tail(s) \in Seq(Tokens) /\ Len(Tail(s)) = Len(s) - 1
         /\ \A k \in 1 .. Len(s) - 1 : Tail(s)[k] = s[k + 1]
         /\ Len(s) \in Nat \ {0} /\ Head(s) = s[1] /\ s[1] \in Tokens
BY HeadTailProperties, EmptySeq, ElementOfSeq

LEMMA TakeFromNotices ==
  ASSUME NEW s \in Seq(Tokens), s # <<>>, AllNotices(s)
  PROVE  IsNotice(Head(s)) /\ AllNotices(Tail(s))
BY TakeNotice DEF AllNotices

LEMMA TakeFromAnswer ==
  ASSUME NEW s \in Seq(Tokens), s # <<>>, NEW texts, NEW finals, Answering(s, texts, finals)
  PROVE  /\ Head(s).kind = "line" /\ Head(s).text \in texts \cup Notices
         /\ Answering(Tail(s), texts, finals)
         /\ Head(s).text \in finals => AllNotices(Tail(s))
<1>1. /\ Tail(s) \in Seq(Tokens) /\ Len(Tail(s)) = Len(s) - 1 /\ Len(s) \in Nat \ {0}
      /\ \A k \in 1 .. Len(s) - 1 : Tail(s)[k] = s[k + 1]
      /\ Head(s) = s[1]
  BY TakeNotice
<1>2. \A k \in 1 .. Len(Tail(s)) : k + 1 \in 1 .. Len(s) /\ Tail(s)[k] = s[k + 1]
  BY <1>1
<1>3. Head(s).kind = "line" /\ Head(s).text \in texts \cup Notices
  BY <1>1 DEF Answering
<1>4. ASSUME NEW k \in 1 .. Len(Tail(s)), Tail(s)[k].text \in finals,
             NEW j \in k + 1 .. Len(Tail(s))
      PROVE  IsNotice(Tail(s)[j])
  BY <1>1, <1>2, <1>4 DEF Answering
<1>5. Answering(Tail(s), texts, finals)
  BY <1>2, <1>4 DEF Answering
<1>6. Head(s).text \in finals => AllNotices(Tail(s))
  BY <1>1 DEF Answering, AllNotices
<1> QED
  BY <1>3, <1>5, <1>6

LEMMA TakeFromPayload ==
  ASSUME NEW s \in Seq(Tokens), s # <<>>, NEW header, NEW p \in Nat, NEW m \in Nat,
         NEW base \in Int, Payload(s, header, p, m, base), p >= 1
  PROVE  /\ p = 1 => Head(s) = header
         /\ p > 1 => IsNotice(Head(s))
         /\ Payload(Tail(s), header, p - 1, m, base)
<1>1. /\ Tail(s) \in Seq(Tokens) /\ Len(Tail(s)) = Len(s) - 1 /\ Len(s) \in Nat \ {0}
      /\ \A k \in 1 .. Len(s) - 1 : Tail(s)[k] = s[k + 1]
      /\ Head(s) = s[1]
  BY TakeNotice
<1>2. (p = 1 => Head(s) = header) /\ (p > 1 => IsNotice(Head(s)))
  BY <1>1 DEF Payload
<1>3. p - 1 + m + 1 \in 1 .. Len(Tail(s))
  BY <1>1 DEF Payload
<1>4. ASSUME NEW k \in 1 .. Len(Tail(s))
      PROVE  IF k = p - 1 THEN Tail(s)[k] = header
             ELSE IF p - 1 < k /\ k <= p - 1 + m THEN Tail(s)[k] = Byte(base + k - (p - 1))
             ELSE IF k = p - 1 + m + 1 THEN Tail(s)[k] = Line("OK", 0)
             ELSE IsNotice(Tail(s)[k])
  <2>1. k + 1 \in 1 .. Len(s) /\ Tail(s)[k] = s[k + 1]
    BY <1>1
  <2>2. base + (k + 1) - p = base + k - (p - 1)
    BY <1>1
  <2> QED
    BY <2>1, <2>2, <1>1 DEF Payload
<1> QED
  BY <1>2, <1>3, <1>4 DEF Payload

(* More tokens come.                                                         *)
LEMMA AddTokens ==
  ASSUME NEW s \in Seq(Tokens), NEW u \in Seq(Tokens)
  PROVE  /\ s \o u \in Seq(Tokens) /\ Len(s \o u) = Len(s) + Len(u)
         /\ Len(s) \in Nat /\ Len(u) \in Nat
         /\ \A k \in 1 .. Len(s) : k \in 1 .. Len(s \o u) /\ (s \o u)[k] = s[k]
         /\ \A k \in 1 .. Len(s \o u) : k > Len(s) =>
              k - Len(s) \in 1 .. Len(u) /\ (s \o u)[k] = u[k - Len(s)]
         /\ \A k \in 1 .. Len(s \o u) : k <= Len(s) => k \in 1 .. Len(s)
<1>1. Len(s) \in Nat /\ Len(u) \in Nat
  BY LenProperties
<1> QED
  BY <1>1, ConcatProperties

LEMMA AddToNotices ==
  ASSUME NEW s \in Seq(Tokens), NEW u \in Seq(Tokens), AllNotices(s), AllNotices(u)
  PROVE  AllNotices(s \o u)
<1> SUFFICES ASSUME NEW k \in 1 .. Len(s \o u) PROVE IsNotice((s \o u)[k])
  BY DEF AllNotices
<1>1. CASE k <= Len(s)
  BY <1>1, AddTokens DEF AllNotices
<1>2. CASE k > Len(s)
  BY <1>2, AddTokens DEF AllNotices
<1> QED
  BY <1>1, <1>2, AddTokens

LEMMA AddToAnswer ==
  ASSUME NEW s \in Seq(Tokens), NEW u \in Seq(Tokens), NEW texts, NEW finals,
         Answering(s, texts, finals), AllNotices(u), Notices \cap finals = {}
  PROVE  Answering(s \o u, texts, finals)
<1> DEFINE v == s \o u
<1>1. /\ Len(s) \in Nat /\ Len(u) \in Nat /\ Len(v) = Len(s) + Len(u)
      /\ \A k \in 1 .. Len(s) : v[k] = s[k]
      /\ \A k \in 1 .. Len(v) : k > Len(s) => k - Len(s) \in 1 .. Len(u) /\ v[k] = u[k - Len(s)]
  BY AddTokens
<1> HIDE DEF v
<1>2. \A k \in 1 .. Len(v) : k > Len(s) => IsNotice(v[k])
  BY <1>1 DEF AllNotices
<1>3. \A k \in 1 .. Len(v) : v[k].kind = "line" /\ v[k].text \in texts \cup Notices
  BY <1>1, <1>2 DEF Answering, IsNotice
<1>4. ASSUME NEW k \in 1 .. Len(v), v[k].text \in finals, NEW j \in k + 1 .. Len(v)
      PROVE  IsNotice(v[j])
  <2>1. k <= Len(s)
    BY <1>1, <1>2, <1>4 DEF IsNotice
  <2>2. CASE j <= Len(s)
    BY <1>1, <1>4, <2>1, <2>2 DEF Answering
  <2>3. CASE j > Len(s)
    BY <1>1, <1>2, <2>3, <2>1
  <2> QED
    BY <2>2, <2>3, <1>1
<1>5. Answering(v, texts, finals)
  BY <1>3, <1>4 DEF Answering
<1> QED
  BY <1>5 DEF v

LEMMA AnswerAfterNotices ==
  ASSUME NEW s \in Seq(Tokens), NEW u \in Seq(Tokens), NEW texts, NEW finals,
         AllNotices(s), Answering(u, texts, finals), Notices \cap finals = {}
  PROVE  Answering(s \o u, texts, finals)
<1> DEFINE v == s \o u
<1>1. /\ Len(s) \in Nat /\ Len(u) \in Nat /\ Len(v) = Len(s) + Len(u)
      /\ \A k \in 1 .. Len(s) : v[k] = s[k]
      /\ \A k \in 1 .. Len(v) : k > Len(s) => k - Len(s) \in 1 .. Len(u) /\ v[k] = u[k - Len(s)]
  BY AddTokens
<1> HIDE DEF v
<1>2. \A k \in 1 .. Len(s) : IsNotice(v[k])
  BY <1>1 DEF AllNotices
<1>3. ASSUME NEW k \in 1 .. Len(v)
      PROVE  v[k].kind = "line" /\ v[k].text \in texts \cup Notices
  <2>1. CASE k <= Len(s)
    BY <1>1, <1>2, <2>1 DEF IsNotice
  <2>2. CASE k > Len(s)
    BY <1>1, <2>2 DEF Answering
  <2> QED
    BY <2>1, <2>2, <1>1
<1>4. ASSUME NEW k \in 1 .. Len(v), v[k].text \in finals, NEW j \in k + 1 .. Len(v)
      PROVE  IsNotice(v[j])
  <2>1. k > Len(s)
    BY <1>1, <1>2, <1>4 DEF IsNotice
  <2>2. j > Len(s) /\ j \in 1 .. Len(v) /\ j - Len(s) \in (k - Len(s)) + 1 .. Len(u)
    BY <1>1, <2>1
  <2> QED
    BY <1>1, <1>4, <2>1, <2>2 DEF Answering
<1>5. Answering(v, texts, finals)
  BY <1>3, <1>4 DEF Answering
<1> QED
  BY <1>5 DEF v

LEMMA AddToPayload ==
  ASSUME NEW s \in Seq(Tokens), NEW u \in Seq(Tokens), NEW header, NEW p \in Nat,
         NEW m \in Nat, NEW base \in Int, Payload(s, header, p, m, base), AllNotices(u)
  PROVE  Payload(s \o u, header, p, m, base)
<1> DEFINE v == s \o u
<1>1. /\ Len(s) \in Nat /\ Len(u) \in Nat /\ Len(v) = Len(s) + Len(u)
      /\ \A k \in 1 .. Len(s) : v[k] = s[k]
      /\ \A k \in 1 .. Len(v) : k > Len(s) => k - Len(s) \in 1 .. Len(u) /\ v[k] = u[k - Len(s)]
  BY AddTokens
<1> HIDE DEF v
<1>2. \A k \in 1 .. Len(v) : k > Len(s) => IsNotice(v[k])
  BY <1>1 DEF AllNotices
<1>3. p + m + 1 \in 1 .. Len(s) /\ p + m + 1 \in 1 .. Len(v)
  BY <1>1 DEF Payload
<1>4. ASSUME NEW k \in 1 .. Len(v)
      PROVE  IF k = p THEN v[k] = header
             ELSE IF p < k /\ k <= p + m THEN v[k] = Byte(base + k - p)
             ELSE IF k = p + m + 1 THEN v[k] = Line("OK", 0)
             ELSE IsNotice(v[k])
  <2>1. CASE k <= Len(s)
    BY <1>1, <2>1 DEF Payload
  <2>2. CASE k > Len(s)
    BY <1>1, <1>2, <1>3, <2>2
  <2> QED
    BY <2>1, <2>2, <1>1
<1>5. Payload(v, header, p, m, base)
  BY <1>3, <1>4 DEF Payload
<1> QED
  BY <1>5 DEF v

(* The answers of the modem.                                                 *)
LEMMA RepliesAre ==
  ASSUME NEW a \in Texts, NEW b \in Texts
  PROVE  /\ Replies(<<a>>) \in Seq(Tokens) /\ Len(Replies(<<a>>)) = 1
         /\ Replies(<<a>>)[1] = Line(a, 0)
         /\ Replies(<<a, b>>) \in Seq(Tokens) /\ Len(Replies(<<a, b>>)) = 2
         /\ Replies(<<a, b>>)[1] = Line(a, 0) /\ Replies(<<a, b>>)[2] = Line(b, 0)
<1>1. Line(a, 0) \in Tokens /\ Line(b, 0) \in Tokens
  BY LineIsToken
<1>2. Replies(<<a>>) = <<Line(a, 0)>>
  BY DEF Replies
<1>3. Replies(<<a, b>>) = <<Line(a, 0), Line(b, 0)>>
  BY DEF Replies
<1>4. /\ <<Line(a, 0)>> \in Seq(Tokens) /\ Len(<<Line(a, 0)>>) = 1
      /\ <<Line(a, 0)>>[1] = Line(a, 0)
  BY <1>1
<1>5. /\ <<Line(a, 0), Line(b, 0)>> \in Seq(Tokens) /\ Len(<<Line(a, 0), Line(b, 0)>>) = 2
      /\ <<Line(a, 0), Line(b, 0)>>[1] = Line(a, 0) /\ <<Line(a, 0), Line(b, 0)>>[2] = Line(b, 0)
  BY <1>1
<1> QED
  BY <1>2, <1>3, <1>4, <1>5

LEMMA OneReply ==
  ASSUME NEW texts, NEW finals, NEW a \in Texts, a \in texts \cup Notices
  PROVE  Answering(Replies(<<a>>), texts, finals)
<1>1. Len(Replies(<<a>>)) = 1 /\ Replies(<<a>>)[1] = Line(a, 0)
  BY RepliesAre
<1>2. Line(a, 0).kind = "line" /\ Line(a, 0).text = a
  BY LineIsToken
<1> HIDE DEF Replies
<1> QED
  BY <1>1, <1>2 DEF Answering

LEMMA TwoReplies ==
  ASSUME NEW texts, NEW finals, NEW a \in Texts, NEW b \in Texts,
         a \in texts \cup Notices, b \in texts \cup Notices, a \notin finals
  PROVE  Answering(Replies(<<a, b>>), texts, finals)
<1>1. /\ Len(Replies(<<a, b>>)) = 2
      /\ Replies(<<a, b>>)[1] = Line(a, 0) /\ Replies(<<a, b>>)[2] = Line(b, 0)
  BY RepliesAre
<1>2. /\ Line(a, 0).kind = "line" /\ Line(a, 0).text = a
      /\ Line(b, 0).kind = "line" /\ Line(b, 0).text = b
  BY LineIsToken
<1> QED
  BY <1>1, <1>2 DEF Answering

LEMMA NoticeReply ==
  ASSUME NEW a \in Notices
  PROVE  Replies(<<a>>) \in Seq(Tokens) /\ AllNotices(Replies(<<a>>))
<1>1. a \in Texts
  BY DEF Notices, Texts
<1>2. /\ Replies(<<a>>) \in Seq(Tokens) /\ Len(Replies(<<a>>)) = 1
      /\ Replies(<<a>>)[1] = Line(a, 0)
  BY <1>1, RepliesAre
<1>3. Line(a, 0).kind = "line" /\ Line(a, 0).text = a
  BY <1>1, LineIsToken
<1> QED
  BY <1>2, <1>3 DEF AllNotices, IsNotice

LEMMA BytesAre ==
  ASSUME NEW data \in Seq(Int)
  PROVE  /\ Bytes(data) \in Seq(Tokens) /\ Len(Bytes(data)) = Len(data)
         /\ \A k \in 1 .. Len(data) : Bytes(data)[k] = Byte(data[k])
<1>1. Len(data) \in Nat /\ DOMAIN data = 1 .. Len(data)
  BY LenProperties
<1>2. \A k \in 1 .. Len(data) : data[k] \in Int
  BY ElementOfSeq
<1>3. \A n \in Int : Byte(n) \in Tokens
  <2>1. "OK" \in Texts
    BY DEF Texts
  <2> QED
    BY <2>1, LineIsToken
<1>4. Bytes(data) = [k \in 1 .. Len(data) |-> Byte(data[k])]
  BY <1>1 DEF Bytes
<1>5. \A k \in 1 .. Len(data) : Byte(data[k]) \in Tokens
  BY <1>2, <1>3
<1>6. [k \in 1 .. Len(data) |-> Byte(data[k])] \in [1 .. Len(data) -> Tokens]
  BY <1>5
<1>7. Bytes(data) \in [1 .. Len(data) -> Tokens]
  BY <1>4, <1>6
<1>8. Bytes(data) \in Seq(Tokens) /\ Len(Bytes(data)) = Len(data)
  BY <1>1, <1>7
<1> QED
  BY <1>4, <1>8

(* The payload that the modem delivers.                                      *)
LEMMA PayloadDelivered ==
  ASSUME NEW s \in Seq(Tokens), AllNotices(s), NEW header \in Tokens, NEW data \in Seq(Int),
         NEW base \in Int, Numbered(data, base)
  PROVE  LET u == <<header>> \o Bytes(data) \o Replies(<<"OK">>)
         IN  /\ u \in Seq(Tokens)
             /\ Payload(s \o u, header, Len(s) + 1, Len(data), base)
<1> DEFINE d == Bytes(data)
           ok == Replies(<<"OK">>)
           h == <<header>>
           u == h \o d \o ok
           v == s \o u
           n == Len(data)
<1>1. /\ d \in Seq(Tokens) /\ Len(d) = n /\ n \in Nat
      /\ \A k \in 1 .. n : d[k] = Byte(base + k)
  BY BytesAre, LenProperties DEF Numbered
<1>2. ok \in Seq(Tokens) /\ Len(ok) = 1 /\ ok[1] = Line("OK", 0)
  BY RepliesAre DEF Texts
<1>3. h \in Seq(Tokens) /\ Len(h) = 1 /\ h[1] = header
  BY Singleton
<1> HIDE DEF d, ok, h
<1>4. /\ h \o d \in Seq(Tokens) /\ Len(h \o d) = 1 + n
      /\ (h \o d)[1] = header /\ \A k \in 1 .. n : (h \o d)[k + 1] = d[k]
  <2>1. /\ h \o d \in Seq(Tokens) /\ Len(h \o d) = Len(h) + Len(d)
        /\ \A k \in 1 .. Len(h) + Len(d) :
             (h \o d)[k] = IF k <= Len(h) THEN h[k] ELSE d[k - Len(h)]
    BY <1>1, <1>3, ConcatProperties
  <2> QED
    BY <2>1, <1>1, <1>3
<1>5. /\ u \in Seq(Tokens) /\ Len(u) = n + 2
      /\ \A k \in 1 .. n + 1 : u[k] = (h \o d)[k]
      /\ u[n + 2] = ok[1]
  <2> DEFINE e == h \o d
  <2>1. e \in Seq(Tokens) /\ Len(e) = 1 + n
    BY <1>4
  <2> HIDE DEF e
  <2>2. /\ e \o ok \in Seq(Tokens) /\ Len(e \o ok) = Len(e) + Len(ok)
        /\ \A k \in 1 .. Len(e) + Len(ok) :
             (e \o ok)[k] = IF k <= Len(e) THEN e[k] ELSE ok[k - Len(e)]
    BY <2>1, <1>2, ConcatProperties
  <2>3. /\ e \o ok \in Seq(Tokens) /\ Len(e \o ok) = n + 2
        /\ \A k \in 1 .. n + 1 : (e \o ok)[k] = e[k]
        /\ (e \o ok)[n + 2] = ok[1]
    BY <2>1, <2>2, <1>1, <1>2
  <2> QED
    BY <2>3 DEF e
<1>6. /\ u[1] = header /\ u[n + 2] = Line("OK", 0)
      /\ \A k \in 1 .. n : u[k + 1] = Byte(base + k)
  BY <1>1, <1>2, <1>4, <1>5
<1> HIDE DEF u
<1>7. /\ Len(s) \in Nat /\ Len(v) = Len(s) + Len(u)
      /\ \A k \in 1 .. Len(s) : v[k] = s[k]
      /\ \A k \in 1 .. Len(v) : k > Len(s) => k - Len(s) \in 1 .. Len(u) /\ v[k] = u[k - Len(s)]
  BY <1>5, AddTokens
<1> HIDE DEF v
<1>8. Len(s) + 1 + n + 1 \in 1 .. Len(v)
  BY <1>1, <1>5, <1>7
<1>9. ASSUME NEW k \in 1 .. Len(v)
      PROVE  IF k = Len(s) + 1 THEN v[k] = header
             ELSE IF Len(s) + 1 < k /\ k <= Len(s) + 1 + n
                  THEN v[k] = Byte(base + k - (Len(s) + 1))
             ELSE IF k = Len(s) + 1 + n + 1 THEN v[k] = Line("OK", 0)
             ELSE IsNotice(v[k])
  <2>1. CASE k <= Len(s)
    BY <1>7, <2>1 DEF AllNotices
  <2>2. CASE k = Len(s) + 1
    <3>1. v[k] = u[1]
      BY <1>7, <2>2
    <3> QED
      BY <3>1, <1>6, <2>2
  <2>3. CASE k > Len(s) + 1
    <3> DEFINE i == k - Len(s)
    <3>1. i \in 2 .. n + 2 /\ v[k] = u[i] /\ k = i + Len(s)
      BY <1>1, <1>5, <1>7, <2>3
    <3> HIDE DEF i
    <3>2. CASE i <= n + 1
      <4>1. i - 1 \in 1 .. n /\ (i - 1) + 1 = i /\ i \in Int
        BY <3>1, <3>2, <1>1
      <4>3. base + (i - 1) = base + k - (Len(s) + 1)
        BY <4>1, <3>1, <1>7
      <4>2. u[i] = Byte(base + (i - 1))
        BY <4>1, <1>6
      <4> QED
        BY <4>1, <4>2, <4>3, <3>1, <3>2, <2>3, <1>1, <1>7
    <3>3. CASE i = n + 2
      BY <3>1, <3>3, <1>1, <1>6, <1>7
    <3> QED
      BY <3>1, <3>2, <3>3, <1>1
  <2> QED
    BY <2>1, <2>2, <2>3, <1>1, <1>7
<1>10. Payload(v, header, Len(s) + 1, n, base)
  BY <1>8, <1>9 DEF Payload
<1>11. u \in Seq(Tokens) /\ Payload(s \o u, header, Len(s) + 1, n, base)
  BY <1>5, <1>10 DEF v
<1> QED
  BY <1>11 DEF u, h, d, ok

(* The driver's end of the stream, and the modem's.                          *)
LEMMA StreamIs ==
  ASSUME NEW q \in Seq(Tokens), NEW r \in Seq(Tokens)
  PROVE  /\ q \o r \in Seq(Tokens)
         /\ q # <<>> => /\ q \o r # <<>> /\ Head(q \o r) = Head(q)
                        /\ Tail(q) \in Seq(Tokens) /\ Tail(q) \o r = Tail(q \o r)
         /\ <<>> \o r = r /\ q \o <<>> = q
<1>1. /\ q \o r \in Seq(Tokens) /\ Len(q \o r) = Len(q) + Len(r)
      /\ Len(q) \in Nat /\ Len(r) \in Nat
      /\ \A i \in 1 .. Len(q) + Len(r) : (q \o r)[i] = IF i <= Len(q) THEN q[i] ELSE r[i - Len(q)]
  BY ConcatProperties, LenProperties
<1>2. ASSUME q # <<>>
      PROVE  /\ q \o r # <<>> /\ Head(q \o r) = Head(q)
             /\ Tail(q) \in Seq(Tokens) /\ Tail(q) \o r = Tail(q \o r)
  <2>1. /\ Len(q) \in Nat \ {0} /\ Tail(q) \in Seq(Tokens) /\ Len(Tail(q)) = Len(q) - 1
        /\ \A i \in 1 .. Len(q) - 1 : Tail(q)[i] = q[i + 1]
        /\ Head(q) = q[1]
    BY <1>2, TakeNotice
  <2>2. q \o r # <<>>
    BY <1>1, <2>1, EmptySeq
  <2>3. /\ Tail(q \o r) \in Seq(Tokens) /\ Len(Tail(q \o r)) = Len(q) + Len(r) - 1
        /\ \A i \in 1 .. Len(q) + Len(r) - 1 : Tail(q \o r)[i] = (q \o r)[i + 1]
        /\ Head(q \o r) = (q \o r)[1]
    BY <1>1, <2>2, TakeNotice
  <2>4. /\ Tail(q) \o r \in Seq(Tokens) /\ Len(Tail(q) \o r) = Len(q) - 1 + Len(r)
        /\ \A i \in 1 .. Len(q) - 1 + Len(r) :
             (Tail(q) \o r)[i] = IF i <= Len(q) - 1 THEN Tail(q)[i] ELSE r[i - (Len(q) - 1)]
    <3> DEFINE t == Tail(q)
    <3>1. t \in Seq(Tokens) /\ Len(t) = Len(q) - 1
      BY <2>1
    <3> HIDE DEF t
    <3>2. /\ t \o r \in Seq(Tokens) /\ Len(t \o r) = Len(t) + Len(r)
          /\ \A i \in 1 .. Len(t) + Len(r) :
               (t \o r)[i] = IF i <= Len(t) THEN t[i] ELSE r[i - Len(t)]
      BY <3>1, ConcatProperties
    <3> QED
      BY <3>1, <3>2 DEF t
  <2>5. ASSUME NEW i \in 1 .. Len(q) - 1 + Len(r)
        PROVE  (Tail(q) \o r)[i] = Tail(q \o r)[i]
    <3>1. Tail(q \o r)[i] = (q \o r)[i + 1] /\ i + 1 \in 1 .. Len(q) + Len(r)
      BY <2>3, <1>1, <2>1
    <3>2. CASE i <= Len(q) - 1
      BY <3>1, <3>2, <2>4, <2>1, <1>1
    <3>3. CASE i > Len(q) - 1
      <4>1. i - (Len(q) - 1) = (i + 1) - Len(q)
        BY <2>1
      <4> QED
        BY <4>1, <3>1, <3>3, <2>4, <2>1, <1>1
    <3> QED
      BY <3>2, <3>3, <2>1
  <2>6. Tail(q) \o r = Tail(q \o r)
    <3>1. Len(Tail(q) \o r) = Len(Tail(q \o r)) /\ Len(Tail(q) \o r) = Len(q) - 1 + Len(r)
      BY <2>3, <2>4, <2>1, <1>1
    <3> QED
      BY <3>1, <2>3, <2>4, <2>5, SeqEqual
  <2> QED
    BY <2>1, <2>2, <2>3, <2>6, <1>1
<1> QED
  BY <1>1, <1>2, ConcatEmptySeq

(* A token goes from the modem to the serial port.                           *)
LEMMA StreamFlows ==
  ASSUME NEW q \in Seq(Tokens), NEW r \in Seq(Tokens), r # <<>>
  PROVE  /\ Append(q, Head(r)) \in Seq(Tokens) /\ Tail(r) \in Seq(Tokens)
         /\ Append(q, Head(r)) \o Tail(r) = q \o r
<1>1. Head(r) \in Tokens /\ Tail(r) \in Seq(Tokens) /\ <<Head(r)>> \in Seq(Tokens)
  BY HeadTailProperties, Singleton
<1>2. Append(q, Head(r)) \in Seq(Tokens) /\ Append(q, Head(r)) = q \o <<Head(r)>>
  BY <1>1, AppendProperties, AppendIsConcat
<1>3. (q \o <<Head(r)>>) \o Tail(r) = q \o (<<Head(r)>> \o Tail(r))
  BY <1>1, ConcatAssociative
<1>4. <<Head(r)>> \o Tail(r) = r
  <2> DEFINE h == <<Head(r)>>
             t == Tail(r)
  <2>1. /\ h \in Seq(Tokens) /\ Len(h) = 1 /\ h[1] = Head(r)
        /\ t \in Seq(Tokens) /\ Len(t) = Len(r) - 1 /\ Len(r) \in Nat \ {0}
        /\ \A i \in 1 .. Len(r) - 1 : t[i] = r[i + 1]
        /\ Head(r) = r[1]
    BY <1>1, Singleton, TakeNotice
  <2> HIDE DEF h, t
  <2>2. /\ h \o t \in Seq(Tokens) /\ Len(h \o t) = Len(h) + Len(t)
        /\ \A i \in 1 .. Len(h) + Len(t) : (h \o t)[i] = IF i <= Len(h) THEN h[i] ELSE t[i - Len(h)]
    BY <2>1, ConcatProperties
  <2>3. ASSUME NEW i \in 1 .. Len(r) PROVE (h \o t)[i] = r[i]
    <3>1. CASE i = 1
      BY <3>1, <2>1, <2>2
    <3>2. CASE i # 1
      <4>1. i - 1 \in 1 .. Len(r) - 1 /\ (i - 1) + 1 = i
        BY <3>2, <2>1
      <4> QED
        BY <4>1, <3>2, <2>1, <2>2
    <3> QED
      BY <3>1, <3>2
  <2>4. Len(h \o t) = Len(r)
    BY <2>1, <2>2
  <2>5. h \o t = r
    BY <2>2, <2>3, <2>4, SeqEqual
  <2> QED
    BY <2>5 DEF h, t
<1> QED
  BY <1>1, <1>2, <1>3, <1>4

(* The driver takes the m bytes of a payload from the serial port.           *)
LEMMA PayloadTaken ==
  ASSUME NEW q \in Seq(Tokens), NEW r \in Seq(Tokens), NEW header, NEW m \in Nat,
         NEW base \in Int, Payload(q \o r, header, 0, m, base), Len(q) >= m,
         NEW texts, NEW finals, "OK" \in texts, Notices \cap finals = {}
  PROVE  /\ Drop(q, m) \in Seq(Tokens)
         /\ Answering(Drop(q, m) \o r, texts, finals)
<1> DEFINE s == q \o r
           d == Drop(q, m)
           t == d \o r
<1>1. /\ s \in Seq(Tokens) /\ Len(s) = Len(q) + Len(r)
      /\ Len(q) \in Nat /\ Len(r) \in Nat
      /\ \A i \in 1 .. Len(q) + Len(r) : s[i] = IF i <= Len(q) THEN q[i] ELSE r[i - Len(q)]
  BY ConcatProperties, LenProperties
<1>2. Payload(s, header, 0, m, base)
  OBVIOUS
<1>3. /\ d \in Seq(Tokens) /\ Len(d) = Len(q) - m
      /\ \A i \in 1 .. Len(q) - m : d[i] = q[m + i]
  <2>1. \A i \in m + 1 .. Len(q) : q[i] \in Tokens
    BY ElementOfSeq, <1>1
  <2>2. m + 1 \in Int /\ Len(q) \in Int
    BY <1>1
  <2>3. /\ SubSeq(q, m + 1, Len(q)) \in Seq(Tokens)
        /\ Len(SubSeq(q, m + 1, Len(q))) = IF m + 1 <= Len(q) THEN Len(q) - (m + 1) + 1 ELSE 0
        /\ \A i \in 1 .. Len(q) - (m + 1) + 1 : SubSeq(q, m + 1, Len(q))[i] = q[m + 1 + i - 1]
    BY <2>1, <2>2, SubSeqProperties
  <2>4. \A i \in 1 .. Len(q) - m : SubSeq(q, m + 1, Len(q))[i] = q[m + i]
    <3> SUFFICES ASSUME NEW i \in 1 .. Len(q) - m
                 PROVE  SubSeq(q, m + 1, Len(q))[i] = q[m + i]
      OBVIOUS
    <3>1. m + 1 + i - 1 = m + i /\ i \in 1 .. Len(q) - (m + 1) + 1
      BY <1>1
    <3> QED
      BY <3>1, <2>3
  <2>5. Len(SubSeq(q, m + 1, Len(q))) = Len(q) - m
    BY <2>3, <1>1
  <2> QED
    BY <2>3, <2>4, <2>5 DEF Drop
<1> HIDE DEF s, d
<1>4. /\ t \in Seq(Tokens) /\ Len(t) = Len(d) + Len(r)
      /\ \A i \in 1 .. Len(d) + Len(r) : t[i] = IF i <= Len(d) THEN d[i] ELSE r[i - Len(d)]
  BY <1>3, ConcatProperties
<1> HIDE DEF t
<1>5. ASSUME NEW i \in 1 .. Len(t)
      PROVE  t[i] = s[m + i] /\ m + i \in 1 .. Len(s)
  <2>1. m + i \in 1 .. Len(s) /\ i \in 1 .. Len(d) + Len(r)
    BY <1>1, <1>3, <1>4
  <2>2. CASE i <= Len(d)
    BY <2>1, <2>2, <1>1, <1>3, <1>4
  <2>3. CASE i > Len(d)
    <3>1. i - Len(d) = (m + i) - Len(q)
      BY <1>1, <1>3
    <3>2. t[i] = r[i - Len(d)]
      <4>1. t[i] = IF i <= Len(d) THEN d[i] ELSE r[i - Len(d)]
        BY <2>1, <1>4
      <4>2. ~(i <= Len(d))
        BY <2>3, <1>1, <1>3
      <4> QED
        BY <4>1, <4>2
    <3>3. ~(m + i <= Len(q))
      BY <2>3, <1>1, <1>3
    <3>4. s[m + i] = r[(m + i) - Len(q)]
      BY <2>1, <3>3, <1>1
    <3> QED
      BY <3>1, <3>2, <3>4, <2>1
  <2> QED
    BY <2>1, <2>2, <2>3, <1>3
<1>6. Line("OK", 0).kind = "line" /\ Line("OK", 0).text = "OK"
  BY DEF Line
<1>7. ASSUME NEW i \in 1 .. Len(t)
      PROVE  IF i = 1 THEN t[i] = Line("OK", 0) ELSE IsNotice(t[i])
  <2>1. m + i \in 1 .. Len(s) /\ m + i > 0 + m /\ (m + i = 0 + m + 1 <=> i = 1)
    BY <1>5
  <2>2. IF m + i = 0 + m + 1 THEN s[m + i] = Line("OK", 0) ELSE IsNotice(s[m + i])
    BY <2>1, <1>2 DEF Payload
  <2> QED
    BY <2>1, <2>2, <1>5
<1>8. \A i \in 1 .. Len(t) : t[i].kind = "line" /\ t[i].text \in texts \cup Notices
  BY <1>6, <1>7 DEF IsNotice
<1>9. \A i \in 1 .. Len(t) : \A j \in i + 1 .. Len(t) : IsNotice(t[j])
  BY <1>7
<1>10. Answering(t, texts, finals)
  BY <1>8, <1>9 DEF Answering
<1> QED
  BY <1>3, <1>10 DEF t, d

-----------------------------------------------------------------------------
(* Numbered bytes.                                                           *)

LEMMA NumberedAppend ==
  ASSUME NEW s \in Seq(Int), NEW base \in Int, Numbered(s, base), NEW b \in Int,
         b = base + Len(s) + 1
  PROVE  /\ Append(s, b) \in Seq(Int) /\ Len(Append(s, b)) = Len(s) + 1
         /\ Numbered(Append(s, b), base)
<1> DEFINE a == Append(s, b)
<1>1. /\ a \in Seq(Int) /\ Len(a) = Len(s) + 1 /\ Len(s) \in Nat
      /\ \A i \in 1 .. Len(s) : a[i] = s[i]
      /\ a[Len(s) + 1] = b
  BY AppendProperties, LenProperties
<1> HIDE DEF a
<1>2. ASSUME NEW k \in 1 .. Len(a) PROVE a[k] = base + k
  <2>1. CASE k <= Len(s)
    BY <2>1, <1>1 DEF Numbered
  <2>2. CASE k = Len(s) + 1
    BY <2>2, <1>1
  <2> QED
    BY <2>1, <2>2, <1>1
<1> QED
  BY <1>1, <1>2 DEF Numbered, a

LEMMA NumberedConcat ==
  ASSUME NEW s \in Seq(Int), NEW t \in Seq(Int), NEW base \in Int,
         Numbered(s, base), Numbered(t, base + Len(s))
  PROVE  s \o t \in Seq(Int) /\ Len(s \o t) = Len(s) + Len(t) /\ Numbered(s \o t, base)
<1> DEFINE v == s \o t
<1>1. /\ v \in Seq(Int) /\ Len(v) = Len(s) + Len(t) /\ Len(s) \in Nat /\ Len(t) \in Nat
      /\ \A i \in 1 .. Len(s) + Len(t) : v[i] = IF i <= Len(s) THEN s[i] ELSE t[i - Len(s)]
  BY ConcatProperties, LenProperties
<1> HIDE DEF v
<1>3. /\ \A i \in 1 .. Len(s) : s[i] = base + i
      /\ \A i \in 1 .. Len(t) : t[i] = base + Len(s) + i
  BY DEF Numbered
<1>2. ASSUME NEW k \in 1 .. Len(v) PROVE v[k] = base + k
  <2>1. CASE k <= Len(s)
    <3>1. k \in 1 .. Len(s) /\ k \in 1 .. Len(s) + Len(t)
      BY <2>1, <1>1
    <3> QED
      BY <3>1, <2>1, <1>1, <1>3
  <2>2. CASE k > Len(s)
    <3>1. k - Len(s) \in 1 .. Len(t) /\ base + Len(s) + (k - Len(s)) = base + k
      BY <2>2, <1>1
    <3>2. v[k] = t[k - Len(s)]
      BY <2>2, <1>1
    <3> QED
      BY <3>1, <3>2, <1>3
  <2> QED
    BY <2>1, <2>2, <1>1
<1> QED
  BY <1>1, <1>2 DEF Numbered, v

LEMMA NumberedDrop ==
  ASSUME NEW s \in Seq(Int), NEW base \in Int, Numbered(s, base), NEW n \in 0 .. Len(s)
  PROVE  /\ Drop(s, n) \in Seq(Int) /\ Len(Drop(s, n)) = Len(s) - n
         /\ Numbered(Drop(s, n), base + n)
         /\ SubSeq(s, 1, n) \in Seq(Int) /\ Len(SubSeq(s, 1, n)) = n
         /\ Numbered(SubSeq(s, 1, n), base)
<1>1. Len(s) \in Nat /\ \A i \in 1 .. Len(s) : s[i] \in Int /\ s[i] = base + i
  BY LenProperties, ElementOfSeq DEF Numbered
<1>2. /\ SubSeq(s, 1, n) \in Seq(Int)
      /\ Len(SubSeq(s, 1, n)) = (IF 1 <= n THEN n - 1 + 1 ELSE 0)
      /\ \A i \in 1 .. n - 1 + 1 : SubSeq(s, 1, n)[i] = s[1 + i - 1]
  <2>1. \A i \in 1 .. n : s[i] \in Int
    BY <1>1
  <2> QED
    BY <2>1, SubSeqProperties
<1>3. /\ SubSeq(s, n + 1, Len(s)) \in Seq(Int)
      /\ Len(SubSeq(s, n + 1, Len(s))) = (IF n + 1 <= Len(s) THEN Len(s) - (n + 1) + 1 ELSE 0)
      /\ \A i \in 1 .. Len(s) - (n + 1) + 1 : SubSeq(s, n + 1, Len(s))[i] = s[n + 1 + i - 1]
  <2>1. \A i \in n + 1 .. Len(s) : s[i] \in Int
    BY <1>1
  <2>2. n + 1 \in Int /\ Len(s) \in Int
    BY <1>1
  <2> QED
    BY <2>1, <2>2, SubSeqProperties
<1>4. Len(SubSeq(s, 1, n)) = n /\ Len(SubSeq(s, n + 1, Len(s))) = Len(s) - n
  BY <1>1, <1>2, <1>3
<1>5. ASSUME NEW i \in 1 .. n PROVE SubSeq(s, 1, n)[i] = base + i
  <2>1. i \in 1 .. n - 1 + 1 /\ 1 + i - 1 = i /\ i \in 1 .. Len(s)
    BY <1>1
  <2> QED
    BY <2>1, <1>1, <1>2
<1>6. ASSUME NEW i \in 1 .. Len(s) - n PROVE SubSeq(s, n + 1, Len(s))[i] = base + n + i
  <2>1. i \in 1 .. Len(s) - (n + 1) + 1 /\ n + 1 + i - 1 = n + i /\ n + i \in 1 .. Len(s)
    BY <1>1
  <2>2. base + (n + i) = base + n + i
    OBVIOUS
  <2> QED
    BY <2>1, <2>2, <1>1, <1>3
<1> QED
  BY <1>2, <1>3, <1>4, <1>5, <1>6 DEF Drop, Numbered

(* The bytes that the driver takes.                                          *)
LEMMA BytesReceived ==
  ASSUME NEW q \in Seq(Tokens), NEW m \in Nat, NEW base \in Int, Len(q) >= m,
         \A k \in 1 .. m : q[k] = Byte(base + k)
  PROVE  LET b == [k \in 1 .. m |-> PayloadByte(q[k])]
         IN  b \in Seq(Int) /\ Len(b) = m /\ Numbered(b, base)
<1> DEFINE b == [k \in 1 .. m |-> PayloadByte(q[k])]
<1>1. ASSUME NEW k \in 1 .. m PROVE PayloadByte(q[k]) = base + k
  <2>1. base + k \in Int
    OBVIOUS
  <2>2. "OK" \in Texts
    BY DEF Texts
  <2>3. Byte(base + k).kind = "byte" /\ Byte(base + k).n = base + k
    BY <2>1, <2>2, LineIsToken
  <2> QED
    BY <2>3 DEF PayloadByte
<1>2. b = [k \in 1 .. m |-> base + k]
  BY <1>1
<1>3. [k \in 1 .. m |-> base + k] \in [1 .. m -> Int]
  OBVIOUS
<1>4. b \in [1 .. m -> Int]
  BY <1>2, <1>3
<1>5. b \in Seq(Int) /\ Len(b) = m
  BY <1>4
<1>6. \A k \in 1 .. m : b[k] = base + k
  BY <1>2
<1> HIDE DEF b
<1>7. Numbered(b, base)
  BY <1>5, <1>6 DEF Numbered
<1> QED
  BY <1>5, <1>7 DEF b

-----------------------------------------------------------------------------
(* The exchange of commands and answers.                                     *)

reply == dev.waitForReply
Restarting == Has(dev, "RESET_PENDING")
Fetching ==
  dev.replyState = (IF Is("espressif") THEN "waitCiprecvdata" ELSE "parseStateCiprecvdata")
PayloadHeader(n) ==
  IF Is("espressif") THEN Header("+CIPRECVDATA", n) ELSE Line("+CIPRECVDATA", n)

(* The CC1352P7 driver does not carry out a reset once it has had bytes to    *)
(* send: from then on only commands that are never refused wait for OK.       *)
NeverResets == Is("cc1352p7") /\ dev.bytesToWrite # 0

(* The commands after which the driver waits for the line r, the lines of the *)
(* answers to them, and those that end an answer.                            *)
Commands(r) ==
  CASE r = "OK" ->
         {"AT+CIPCLOSE"} \cup
         (IF NeverResets THEN {}
          ELSE {"ATE0", "AT+CWMODE=1", "AT+CWJAP", "AT+CIPMUX=0", "AT+CIPRECVMODE",
                "AT+CIPMODE=0", "AT+CWJAP?", "AT+CSQ", "AT+CIPSTAMAC", "AT+CIPSTART"})
    [] r = ">" -> {"AT+CIPSEND"}
    [] r = "WIFI DISCONNECT" -> (IF Is("espressif") THEN {"AT+CWQAP"} ELSE {})
    [] r = "ready" -> (IF Is("espressif") THEN {"AT+RST"} ELSE {})
    [] OTHER -> {}

Errors == IF Is("espressif") THEN {"ERROR", "FAIL"} ELSE {"ERROR"}
Answers(r) ==
  CASE r = "OK" ->
         {"OK", "+CWJAP", "No AP", "+CSQ", "+CIPSTAMAC"}
         \cup (IF NeverResets THEN {} ELSE Errors)
         \cup (IF Is("espressif") THEN {} ELSE {"SEND FAIL"})
    [] r = ">" -> {"ERROR"}
    [] r = "SEND OK" -> {"SEND OK", "SEND FAIL"}
    [] r = "WIFI DISCONNECT" -> {"OK", "WIFI DISCONNECT"}
    [] r = "ready" -> {"OK", "ready"}
    [] OTHER -> {}
Finals(r) == {r} \cup Errors \cup (IF r = "SEND OK" THEN {"SEND FAIL"} ELSE {})

Awaited == {"OK", ">", "SEND OK", "WIFI DISCONNECT", "ready"}

(* How many bytes the modem waits for while the driver waits for nothing.     *)
Prompted ==
  IF dev.sendState = "sendDataState" /\ ~Restarting THEN dev.bytesToWrite ELSE 0

Quieted == prompt = 0 /\ ~Restarting
AllBytes(s) == \A k \in 1 .. Len(s) : s[k].kind = "byte" /\ s[k].text = NoText

Resting ==
  /\ reply = NULL /\ ~Fetching /\ dev.bytesToRead = 0
  /\ tx = <<>> /\ AllNotices(Stream) /\ prompt = Prompted

Asking ==
  /\ dev.bytesToRead = 0 /\ Quieted /\ AllNotices(Stream)
  /\ Len(tx) = 1 /\ tx[1].kind = "line"
  /\ \/ Fetching /\ reply = NULL /\ tx[1].text = "AT+CIPRECVDATA" /\ tx[1].n >= 1
     \/ /\ ~Fetching /\ reply \in Awaited /\ tx[1].text \in Commands(reply)
        /\ reply = ">" => tx[1].n = dev.bytesToWrite

Replied ==
  /\ reply \in Awaited /\ ~Fetching /\ dev.bytesToRead = 0
  /\ tx = <<>> /\ Quieted /\ Answering(Stream, Answers(reply), Finals(reply))

Prompting ==
  /\ reply = ">" /\ ~Fetching /\ dev.bytesToRead = 0
  /\ tx = <<>> /\ prompt = dev.bytesToWrite /\ ~Restarting
  /\ Answering(Stream, {"OK", ">"}, Finals(">"))

(* What the driver waits for after the bytes.                                *)
Confirmation == IF Is("espressif") THEN "SEND OK" ELSE "OK"
Sending ==
  /\ reply = Confirmation
  /\ ~Fetching /\ dev.bytesToRead = 0 /\ ~Restarting /\ AllNotices(Stream)
  /\ prompt >= 1 /\ Len(tx) = prompt /\ AllBytes(tx)

Refused ==
  /\ Fetching /\ reply = NULL /\ dev.bytesToRead = 0 /\ tx = <<>> /\ prompt = 0
  /\ Answering(Stream, {"ERROR"}, Errors)
  /\ Restarting => AllNotices(Stream)

(* The modem refused AT+CIPSEND, and the driver sends the bytes all the same. *)
Dropping ==
  /\ Restarting /\ NeverResets /\ reply = "OK" /\ ~Fetching /\ dev.bytesToRead = 0
  /\ prompt = 0 /\ AllNotices(Stream) /\ AllBytes(tx)

Seen == Len(got) + Len(dev.readBuffer)

Fetched(p, m) ==
  /\ Fetching /\ reply = NULL /\ dev.bytesToRead = 0 /\ tx = <<>> /\ Quieted
  /\ p >= 1 /\ m >= 1 /\ Payload(Stream, PayloadHeader(m), p, m, Seen)

Receiving(m) ==
  /\ ~Fetching /\ reply = NULL /\ dev.bytesToRead = m /\ tx = <<>> /\ Quieted
  /\ m >= 1 /\ Payload(Stream, PayloadHeader(m), 0, m, Seen)

Exchange(p, m) ==
  \/ m = 0 /\ (Resting \/ Asking \/ Replied \/ Prompting \/ Sending \/ Refused \/ Dropping)
  \/ Fetched(p, m)
  \/ p = 0 /\ Receiving(m)

(* What the application has read, what the driver holds, the m bytes of a     *)
(* payload on its way and what the modem keeps are the bytes of the peer, in  *)
(* this order.                                                               *)
Down(m) ==
  /\ Numbered(got, 0) /\ Numbered(dev.readBuffer, Len(got))
  /\ IF link \in {"open", "closed"}
     THEN down = Seen + m + Len(inbox) /\ Numbered(inbox, Seen + m)
     ELSE Seen + m <= down

(* What the peer got, the bytes on their way to the modem and what the driver *)
(* holds are the bytes of the application, in this order.                     *)
Carried == IF tx # <<>> /\ tx[1].kind = "byte" THEN Len(tx) ELSE 0
UpComplete ==
  /\ up = Len(peerGot) + Carried + Len(dev.writeBuffer)
  /\ \A k \in 1 .. Carried : tx[k].n = Len(peerGot) + k
  /\ Numbered(dev.writeBuffer, Len(peerGot) + Carried)
Lost == link # "open" \/ (Restarting /\ NeverResets /\ reply = "OK")
Up ==
  /\ Numbered(peerGot, 0) /\ Len(peerGot) <= up
  /\ Lost \/ UpComplete

Fields == {"readBuffer", "writeBuffer", "stateBooleans", "connectState", "waitForReply",
  "type", "lbFill", "sendState", "replyState", "bytesToWrite", "bytesToReceive",
  "bytesToRead", "rssi", "idRequest", "idType", "idString"}

Typed ==
  /\ DOMAIN dev = Fields
  /\ dev.readBuffer \in Seq(Int) /\ dev.writeBuffer \in Seq(Int)
  /\ dev.bytesToWrite \in Int /\ dev.bytesToReceive \in Int /\ dev.bytesToRead \in Nat
  /\ rx \in Seq(Tokens) /\ tx \in Seq(Tokens) /\ line \in Seq(Tokens)
  /\ inbox \in Seq(Int) /\ got \in Seq(Int) /\ peerGot \in Seq(Int)
  /\ up \in Nat /\ down \in Nat /\ prompt \in Nat /\ requests \in Nat /\ connects \in {0, 1}

-----------------------------------------------------------------------------
(* The life of a connection.                                                 *)

Asked == IF tx = <<>> THEN NoText ELSE tx[1].text
(* The commands that end a connection: a refused AT+CWJAP leaves the network. *)
Ends == {"AT+CIPCLOSE", "AT+CWQAP", "AT+RST", "AT+CWJAP"}
Closed == {"sendCipclose", "finalizeDisconnect"}
Zero ==
  /\ link \in {"down", "none"} /\ down = 0 /\ up = 0
  /\ got = <<>> /\ inbox = <<>> /\ peerGot = <<>>
  /\ dev.readBuffer = <<>> /\ dev.writeBuffer = <<>>

Fresh ==
  /\ dev.sendState \in
       {"notConnected", "serialError", "connecting", "sendCwmode", "sendCwjap", "sendCipmux",
        "sendCiprecvmode", "sendCipmode", "sendCipstart"}
       \cup (IF Is("cc1352p7") THEN Closed ELSE {})
  /\ Zero /\ dev.bytesToWrite = 0 /\ ~Fetching /\ ~IsConnected(dev)
  /\ Asked # "AT+CIPSTART"
  /\ connects = 0 =>
       /\ dev.sendState \in {"notConnected", "serialError"} \cup Closed
       /\ ~Has(dev, "CONNECT_PENDING")
  /\ dev.sendState \notin {"notConnected", "serialError"} \cup Closed =>
       ~Has(dev, "CONNECT_PENDING")

(* AT+CIPSTART was refused, or will be.                                       *)
Denied ==
  \/ Asked = "AT+CIPSTART"
  \/ Restarting
  \/ reply = "OK" /\ tx = <<>> /\ \A k \in 1 .. Len(Stream) : Stream[k].text # "OK"

Opening ==
  /\ dev.sendState = "finalizeConnect" /\ connects = 1 /\ ~Has(dev, "CONNECT_PENDING")
  /\ dev.bytesToWrite = 0 /\ ~Fetching /\ ~IsConnected(dev)
  /\ Asked \notin Ends
  /\ \/ Zero /\ Denied
     \/ link \in {"open", "closed"} /\ Asked # "AT+CIPSTART"

Active ==
  /\ dev.sendState \in {"connected", "sendDataState", "sendCiprecvdata", "waitReceive", "receiving"}
  /\ connects = 1 /\ ~Has(dev, "CONNECT_PENDING") /\ link \in {"open", "closed"}
  /\ Asked \notin Ends \cup {"AT+CIPSTART"}
  /\ dev.sendState = "sendDataState" =>
       1 <= dev.bytesToWrite /\ dev.bytesToWrite <= Len(dev.writeBuffer)

Over ==
  /\ dev.sendState \in {"notConnected", "serialError", "sendCwqap"} \cup Closed
  /\ connects = 1 /\ ~Has(dev, "CONNECT_PENDING") /\ ~Fetching /\ Asked # "AT+CIPSTART"

Life == Fresh \/ Opening \/ Active \/ Over

Flags ==
  /\ dev.type = scenario.type /\ dev.lbFill = FALSE
  /\ ~Has(dev, "DISCONNECT_PENDING")
  /\ Has(dev, "LINE_READ") <=> dev.bytesToRead = 0
  /\ dev.bytesToRead # 0 => dev.sendState = "receiving"

(* What the state of the driver tells of the reply it waits for.             *)
Waiting ==
  /\ reply = "SEND OK" => dev.sendState = "connected"
  /\ reply = ">" => dev.sendState = "sendDataState"
  /\ reply = "WIFI DISCONNECT" => dev.sendState = "finalizeDisconnect"
  /\ dev.sendState = "sendDataState" => ~Fetching /\ reply \in {NULL, ">"}

(* The scenario, and the serial port that is not open yet.                   *)
Unasked ==
  /\ ~serialOpen => step = "off" /\ dev.sendState \in {"notConnected", "serialError"}
  /\ scenario.maxRequests = 0 => dev.rssi # "requested" /\ dev.idRequest = "noRequest"
  /\ scenario.maxUp = 0 => dev.writeBuffer = <<>> /\ dev.bytesToWrite = 0

(* A reset is carried out at once, unless it never is.                       *)
Resets ==
  /\ Restarting /\ step = "send" => NeverResets
  /\ Restarting /\ NeverResets /\ reply = NULL /\ ~Fetching => dev.sendState = "sendDataState"

Steady == Flags /\ Waiting /\ Unasked /\ Resets

(* The behaviours the theorems are about: of the Espressif driver with the    *)
(* type TCP, or of the CC1352P7 driver, with at most one connection.  In a    *)
(* second one the bytes are missing that the first did not deliver.  The      *)
(* application does not both write and ask for the signal or the MAC address, *)
(* which the driver may do where the modem expects data.                     *)
Covered ==
  /\ (Is("espressif") /\ scenario.type = "TCP") \/ Is("cc1352p7")
  /\ scenario.program = "any" /\ scenario.maxConnects \in {0, 1}
  /\ scenario.maxRequests = 0 \/ scenario.maxUp = 0

Talk == Up /\ \E p, m \in Nat : Exchange(p, m) /\ Down(m)
Good == Typed /\ Steady /\ Life /\ Talk /\ detector = "none"

IInv == Covered /\ ~discarded => Good

-----------------------------------------------------------------------------
(* Steps of the exchange.                                                    *)

LEMMA NoTextIsNone ==
  /\ NoText \notin Ends /\ NoText # "AT+CIPSTART" /\ NoText # "AT+CIPRECVDATA"
  /\ NoText # "AT+CIPSEND" /\ \A r : NoText \notin Commands(r)
<1>1. NoText \notin {"AT+CIPCLOSE", "AT+CWQAP", "AT+RST", "AT+CWJAP"}
  BY DEF NoText
<1>2. NoText # "AT+CIPSTART" /\ NoText # "AT+CIPRECVDATA" /\ NoText # "AT+CIPSEND"
  BY DEF NoText
<1>3. NoText \notin
        {"AT+CIPCLOSE", "ATE0", "AT+CWMODE=1", "AT+CWJAP", "AT+CIPMUX=0", "AT+CIPRECVMODE",
         "AT+CIPMODE=0", "AT+CWJAP?", "AT+CSQ", "AT+CIPSTAMAC", "AT+CIPSTART"}
  BY DEF NoText
<1>4. \A r : NoText \notin Commands(r)
  BY <1>1, <1>2, <1>3 DEF Commands
<1> QED
  BY <1>1, <1>2, <1>4 DEF Ends

(* Nothing of the exchange changes, but for where its tokens are.            *)
Unspoken ==
  /\ scenario' = scenario /\ Stream' = Stream /\ tx' = tx /\ prompt' = prompt
  /\ reply' = reply /\ (Fetching' <=> Fetching)
  /\ dev'.bytesToRead = dev.bytesToRead /\ dev'.bytesToWrite = dev.bytesToWrite
  /\ (Restarting' <=> Restarting) /\ Prompted' = Prompted /\ Seen' = Seen

LEMMA SameWords ==
  ASSUME scenario' = scenario, dev'.bytesToWrite = dev.bytesToWrite
  PROVE  /\ NeverResets' <=> NeverResets
         /\ Errors' = Errors
         /\ \A r : Answers(r)' = Answers(r) /\ Finals(r)' = Finals(r)
         /\ \A r : Commands(r)' = Commands(r)
         /\ \A n : PayloadHeader(n)' = PayloadHeader(n)
         /\ Is("espressif")' = Is("espressif") /\ Is("cc1352p7")' = Is("cc1352p7")
<1>1. NeverResets' <=> NeverResets
  BY DEF NeverResets, Is
<1>2. Errors' = Errors
  BY DEF Errors, Is
<1>3. \A r : Answers(r)' = Answers(r)
  BY <1>1, <1>2 DEF Answers, Is
<1>4. \A r : Finals(r)' = Finals(r)
  BY <1>2 DEF Finals
<1>5. \A r : Commands(r)' = Commands(r)
  BY <1>1 DEF Commands, Is
<1>6. \A n : PayloadHeader(n)' = PayloadHeader(n)
  BY DEF PayloadHeader, Is
<1>7. Is("espressif")' = Is("espressif") /\ Is("cc1352p7")' = Is("cc1352p7")
  BY DEF Is
<1> QED
  BY <1>1, <1>2, <1>3, <1>4, <1>5, <1>6, <1>7

LEMMA UnspokenStep ==
  ASSUME NEW p \in Nat, NEW m \in Nat, Exchange(p, m), Unspoken
  PROVE  Exchange(p, m)'
<1>1. /\ NeverResets' <=> NeverResets
      /\ Errors' = Errors
      /\ Answers(reply)' = Answers(reply) /\ Finals(reply)' = Finals(reply)
      /\ Finals(">")' = Finals(">")
      /\ Commands(reply)' = Commands(reply)
      /\ PayloadHeader(m)' = PayloadHeader(m)
      /\ Is("espressif")' = Is("espressif")
  <2>1. scenario' = scenario /\ dev'.bytesToWrite = dev.bytesToWrite /\ reply' = reply
    BY DEF Unspoken
  <2> QED
    BY <2>1, SameWords DEF Answers, Finals, Commands, Is
<1>2. Quieted' <=> Quieted
  BY DEF Unspoken, Quieted
<1>3. ASSUME Resting PROVE Resting'
  BY <1>3 DEF Resting, Unspoken
<1>4. ASSUME Asking PROVE Asking'
  BY <1>4, <1>1, <1>2 DEF Asking, Unspoken
<1>5. ASSUME Replied PROVE Replied'
  BY <1>5, <1>1, <1>2 DEF Replied, Unspoken
<1>6. ASSUME Prompting PROVE Prompting'
  BY <1>6, <1>1 DEF Prompting, Unspoken
<1>7. ASSUME Sending PROVE Sending'
  BY <1>7, <1>1 DEF Sending, Unspoken, Confirmation
<1>8. ASSUME Refused PROVE Refused'
  BY <1>8, <1>1 DEF Refused, Unspoken
<1>9. ASSUME Dropping PROVE Dropping'
  BY <1>9, <1>1 DEF Dropping, Unspoken
<1>10. ASSUME Fetched(p, m) PROVE Fetched(p, m)'
  BY <1>10, <1>1, <1>2 DEF Fetched, Unspoken
<1>11. ASSUME Receiving(m) PROVE Receiving(m)'
  BY <1>11, <1>1, <1>2 DEF Receiving, Unspoken
<1> QED
  BY <1>3, <1>4, <1>5, <1>6, <1>7, <1>8, <1>9, <1>10, <1>11 DEF Exchange

(* The driver sends a command: only while nothing is on its way.             *)
Speaks(c) ==
  /\ scenario' = scenario /\ Stream' = Stream /\ prompt' = prompt
  /\ tx' = tx \o <<c>> /\ dev'.bytesToRead = dev.bytesToRead

LEMMA SpeaksStep ==
  ASSUME Resting, ~Restarting, prompt = 0, NEW c \in Tokens, c.kind = "line", Speaks(c),
         ~Restarting',
         \/ Fetching' /\ reply' = NULL /\ c.text = "AT+CIPRECVDATA" /\ c.n >= 1
         \/ /\ ~Fetching' /\ reply' \in Awaited /\ c.text \in Commands(reply)'
            /\ reply' = ">" => c.n = dev'.bytesToWrite
  PROVE  /\ Asking' /\ Asked' = c.text /\ Asked = NoText
         /\ Carried = 0 /\ Carried' = 0 /\ tx' \in Seq(Tokens)
<1>1. tx = <<>> /\ dev.bytesToRead = 0 /\ AllNotices(Stream)
  BY DEF Resting
<1>2. <<c>> \in Seq(Tokens) /\ Len(<<c>>) = 1 /\ <<c>>[1] = c /\ <<c>> # <<>>
  BY Singleton
<1>3. tx' = <<c>>
  BY <1>1, <1>2, ConcatEmptySeq DEF Speaks
<1>4. tx' \in Seq(Tokens) /\ Len(tx') = 1 /\ tx'[1] = c /\ tx' # <<>>
  BY <1>2, <1>3
<1>5. Quieted' /\ AllNotices(Stream)' /\ dev'.bytesToRead = 0
  BY <1>1 DEF Speaks, Quieted, AllNotices
<1>6. Asking'
  BY <1>4, <1>5 DEF Asking
<1>7. Asked' = c.text /\ Asked = NoText
  BY <1>1, <1>4 DEF Asked
<1>8. Carried = 0 /\ Carried' = 0
  BY <1>1, <1>4 DEF Carried
<1> QED
  BY <1>4, <1>6, <1>7, <1>8

(* The driver sends bytes, with or without a prompt of the modem.            *)
LEMMA BytesAreBytes ==
  ASSUME NEW n \in Nat, n >= 1, NEW w \in Seq(Int), n <= Len(w)
  PROVE  LET b == [k \in 1 .. n |-> Byte(w[k])]
         IN  /\ b \in Seq(Tokens) /\ Len(b) = n
             /\ AllBytes(b) /\ b # <<>> /\ b[1].kind = "byte" /\ b[1].text = NoText
             /\ \A k \in 1 .. n : b[k].n = w[k]
<1> DEFINE b == [k \in 1 .. n |-> Byte(w[k])]
<1>1. \A k \in 1 .. n : w[k] \in Int
  BY LenProperties, ElementOfSeq
<1>2. ASSUME NEW k \in 1 .. n
      PROVE  /\ b[k].kind = "byte" /\ b[k].text = NoText /\ b[k].n = w[k]
             /\ Byte(w[k]) \in Tokens
  <2>1. "OK" \in Texts
    BY DEF Texts
  <2>2. /\ Byte(w[k]).kind = "byte" /\ Byte(w[k]).text = NoText
        /\ Byte(w[k]).n = w[k] /\ Byte(w[k]) \in Tokens
    BY <1>1, <2>1, LineIsToken
  <2>3. b[k] = Byte(w[k])
    OBVIOUS
  <2> QED
    BY <2>2, <2>3
<1>3. b \in [1 .. n -> Tokens]
  BY <1>2
<1>4. b \in Seq(Tokens) /\ Len(b) = n
  BY <1>3
<1> HIDE DEF b
<1>5. 1 \in 1 .. n
  OBVIOUS
<1>6. b # <<>>
  BY <1>4, EmptySeq
<1>7. AllBytes(b) /\ b[1].kind = "byte" /\ b[1].text = NoText /\ \A k \in 1 .. n : b[k].n = w[k]
  BY <1>2, <1>4, <1>5 DEF AllBytes
<1> QED
  BY <1>4, <1>6, <1>7 DEF b

LEMMA BytesStep ==
  ASSUME Resting, scenario' = scenario, Stream' = Stream, prompt' = prompt,
         NEW n \in Nat, n >= 1, NEW w \in Seq(Int), n <= Len(w),
         tx' = tx \o [k \in 1 .. n |-> Byte(w[k])],
         dev'.bytesToRead = dev.bytesToRead, ~Fetching', Restarting' <=> Restarting,
         reply' = Confirmation,
         prompt = (IF Restarting THEN 0 ELSE n), Restarting => NeverResets'
  PROVE  /\ ~Restarting => Sending'
         /\ Restarting => Dropping'
         /\ Asked = NoText /\ Asked' = NoText /\ tx' \in Seq(Tokens)
         /\ Carried = 0 /\ Carried' = n /\ \A k \in 1 .. n : tx'[k].n = w[k]
<1>1. tx = <<>> /\ dev.bytesToRead = 0 /\ AllNotices(Stream)
  BY DEF Resting
<1> DEFINE b == [k \in 1 .. n |-> Byte(w[k])]
<1>2. /\ b \in Seq(Tokens) /\ Len(b) = n
      /\ AllBytes(b) /\ b # <<>> /\ b[1].kind = "byte" /\ b[1].text = NoText
      /\ \A k \in 1 .. n : b[k].n = w[k]
  BY BytesAreBytes
<1>12. tx' = tx \o b
  OBVIOUS
<1> HIDE DEF b
<1>3. tx' = b
  BY <1>1, <1>2, <1>12, ConcatEmptySeq
<1>4. AllBytes(tx)' /\ Len(tx') = n /\ tx' \in Seq(Tokens)
  BY <1>2, <1>3 DEF AllBytes
<1>5. tx' # <<>> /\ tx'[1].kind = "byte" /\ tx'[1].text = NoText
  BY <1>2, <1>3
<1>6. AllNotices(Stream)' /\ dev'.bytesToRead = 0
  BY <1>1 DEF AllNotices
<1>7. ~Restarting => Sending'
  <2>1. Confirmation' = Confirmation
    BY DEF Confirmation, Is
  <2> QED
    BY <2>1, <1>4, <1>6 DEF Sending
<1>8. ASSUME Restarting PROVE Dropping'
  <2>1. NeverResets' /\ ~Is("espressif")
    BY <1>8 DEF NeverResets, Is
  <2>2. reply' = "OK"
    BY <2>1 DEF Confirmation
  <2> QED
    BY <2>1, <2>2, <1>4, <1>6, <1>8 DEF Dropping
<1>9. Asked = NoText /\ Asked' = NoText
  BY <1>1, <1>5 DEF Asked
<1>10. Carried = 0 /\ Carried' = n
  BY <1>1, <1>4, <1>5 DEF Carried
<1>11. \A k \in 1 .. n : tx'[k].n = w[k]
  BY <1>2, <1>3
<1> QED
  BY <1>4, <1>7, <1>8, <1>9, <1>10, <1>11

(* The driver takes a line or a header, t.                                   *)
Takes(t) ==
  /\ scenario' = scenario /\ tx' = tx /\ prompt' = prompt
  /\ Stream # <<>> /\ t = Head(Stream) /\ Stream' = Tail(Stream)
  /\ dev'.bytesToWrite = dev.bytesToWrite /\ Seen' = Seen
Passes ==
  /\ reply' = reply /\ (Fetching' <=> Fetching) /\ dev'.bytesToRead = dev.bytesToRead
  /\ (Restarting' <=> Restarting) /\ Prompted' = Prompted

(* A notice, or a line of an answer, changes nothing of the exchange.        *)
LEMMA PassStep ==
  ASSUME NEW p \in Nat, NEW m \in Nat, Exchange(p, m), NEW t, Takes(t), Passes,
         t.text # "+CIPRECVDATA", Stream \in Seq(Tokens), Seen \in Int, ~Receiving(m)
  PROVE  \/ m = 0 /\ Exchange(p, m)'
         \/ p > 1 /\ Exchange(p - 1, m)'
<1>1. /\ NeverResets' <=> NeverResets
      /\ Errors' = Errors
      /\ Answers(reply)' = Answers(reply) /\ Finals(reply)' = Finals(reply)
      /\ Finals(">")' = Finals(">")
      /\ Commands(reply)' = Commands(reply)
      /\ PayloadHeader(m)' = PayloadHeader(m)
      /\ Is("espressif")' = Is("espressif")
  <2>1. scenario' = scenario /\ dev'.bytesToWrite = dev.bytesToWrite /\ reply' = reply
    BY DEF Takes, Passes
  <2> QED
    BY <2>1, SameWords DEF Answers, Finals, Commands, Is
<1>2. Quieted' <=> Quieted
  BY DEF Takes, Passes, Quieted
<1>3. AllNotices(Stream) => AllNotices(Stream)'
  BY TakeFromNotices DEF Takes, AllNotices
<1>4. \A texts, finals : Answering(Stream, texts, finals) => Answering(Stream', texts, finals)
  BY TakeFromAnswer DEF Takes
<1>5. ASSUME Resting PROVE Resting'
  BY <1>5, <1>3 DEF Resting, Takes, Passes
<1>6. ASSUME Asking PROVE Asking'
  BY <1>6, <1>1, <1>2, <1>3 DEF Asking, Takes, Passes
<1>7. ASSUME Replied PROVE Replied'
  BY <1>7, <1>1, <1>2, <1>4 DEF Replied, Takes, Passes
<1>8. ASSUME Prompting PROVE Prompting'
  BY <1>8, <1>1, <1>4 DEF Prompting, Takes, Passes
<1>9. ASSUME Sending PROVE Sending'
  BY <1>9, <1>1, <1>3 DEF Sending, Takes, Passes, Confirmation
<1>10. ASSUME Refused PROVE Refused'
  <2>1. Answering(Stream', {"ERROR"}, Errors)
    BY <1>10, <1>4 DEF Refused
  <2> QED
    BY <2>1, <1>10, <1>1, <1>3 DEF Refused, Takes, Passes
<1>11. ASSUME Dropping PROVE Dropping'
  BY <1>11, <1>1, <1>3 DEF Dropping, Takes, Passes
<1>12. ASSUME Fetched(p, m) PROVE p > 1 /\ Fetched(p - 1, m)'
  <2>1. Payload(Stream, PayloadHeader(m), p, m, Seen) /\ p >= 1
    BY <1>12 DEF Fetched
  <2>2. /\ p = 1 => t = PayloadHeader(m)
        /\ Payload(Stream', PayloadHeader(m), p - 1, m, Seen)
    BY <2>1, TakeFromPayload DEF Takes
  <2>3. p # 1
    BY <2>2 DEF PayloadHeader, Line, Header
  <2>4. Payload(Stream, PayloadHeader(m), p - 1, m, Seen)'
    BY <2>2, <1>1 DEF Takes
  <2> QED
    BY <2>1, <2>3, <2>4, <1>1, <1>2, <1>12 DEF Fetched, Takes, Passes
<1> QED
  BY <1>5, <1>6, <1>7, <1>8, <1>9, <1>10, <1>11, <1>12 DEF Exchange

Coming == Head(Stream)

LEMMA AnswersAre ==
  /\ Answers(">") = {"ERROR"}
  /\ \A r \in Awaited : "+CIPRECVDATA" \notin Answers(r)
<1>1. Answers(">") = {"ERROR"}
  BY DEF Answers
<1>2. Answers("SEND OK") = {"SEND OK", "SEND FAIL"}
  BY DEF Answers
<1>3. Answers("WIFI DISCONNECT") = {"OK", "WIFI DISCONNECT"}
  BY DEF Answers
<1>4. Answers("ready") = {"OK", "ready"}
  BY DEF Answers
<1>5. "+CIPRECVDATA" \notin Answers("OK")
  BY DEF Answers, Errors
<1>6. ASSUME NEW r \in Awaited PROVE "+CIPRECVDATA" \notin Answers(r)
  <2>1. r = "OK" \/ r = ">" \/ r = "SEND OK" \/ r = "WIFI DISCONNECT" \/ r = "ready"
    BY DEF Awaited
  <2>2. CASE r = "OK"
    BY <2>2, <1>5
  <2>3. CASE r = ">"
    BY <2>3, <1>1
  <2>4. CASE r = "SEND OK"
    BY <2>4, <1>2
  <2>5. CASE r = "WIFI DISCONNECT"
    BY <2>5, <1>3
  <2>6. CASE r = "ready"
    BY <2>6, <1>4
  <2> QED
    BY <2>1, <2>2, <2>3, <2>4, <2>5, <2>6
<1> QED
  BY <1>1, <1>6

(* What may come next, if no payload is taken.                               *)
LEMMA Comes ==
  ASSUME NEW p \in Nat, NEW m \in Nat, Exchange(p, m), Stream # <<>>,
         Stream \in Seq(Tokens), Seen \in Int, ~Receiving(m)
  PROVE  \/ IsNotice(Coming)
         \/ Replied /\ m = 0 /\ Coming.kind = "line" /\ Coming.text \in Answers(reply)
         \/ Prompting /\ m = 0 /\ Coming.kind = "line" /\ Coming.text \in {"OK", ">"}
         \/ Refused /\ m = 0 /\ Coming.kind = "line" /\ Coming.text = "ERROR"
         \/ Fetched(p, m) /\ p = 1 /\ Coming = PayloadHeader(m)
<1>1. /\ AllNotices(Stream) => IsNotice(Coming)
      /\ \A texts, finals : Answering(Stream, texts, finals) =>
           Coming.kind = "line" /\ Coming.text \in texts \cup Notices
  BY TakeFromNotices, TakeFromAnswer DEF Coming
<1>2. ASSUME Fetched(p, m) PROVE IsNotice(Coming) \/ (p = 1 /\ Coming = PayloadHeader(m))
  <2>1. Payload(Stream, PayloadHeader(m), p, m, Seen) /\ p >= 1
    BY <1>2 DEF Fetched
  <2> QED
    BY <2>1, TakeFromPayload DEF Coming
<1>3. ASSUME Replied
      PROVE  IsNotice(Coming) \/ (Coming.kind = "line" /\ Coming.text \in Answers(reply))
  BY <1>1, <1>3 DEF Replied, IsNotice
<1>4. ASSUME Prompting
      PROVE  IsNotice(Coming) \/ (Coming.kind = "line" /\ Coming.text \in {"OK", ">"})
  BY <1>1, <1>4 DEF Prompting, IsNotice
<1>5. ASSUME Refused PROVE IsNotice(Coming) \/ (Coming.kind = "line" /\ Coming.text = "ERROR")
  BY <1>1, <1>5 DEF Refused, IsNotice
<1>6. Resting \/ Asking \/ Sending \/ Dropping => IsNotice(Coming)
  BY <1>1 DEF Resting, Asking, Sending, Dropping
<1> QED
  BY <1>2, <1>3, <1>4, <1>5, <1>6 DEF Exchange

(* The line the driver waits for, or one in its place, ends the exchange.    *)
LEMMA DoneStep ==
  ASSUME NEW p \in Nat, NEW m \in Nat, Exchange(p, m), NEW t, Takes(t), reply # NULL,
         Stream \in Seq(Tokens), Seen \in Int, ~Receiving(m), ~IsNotice(t),
         t.text = reply \/ (reply = "SEND OK" /\ t.text = "SEND FAIL"),
         reply' = NULL, ~Fetching', dev'.bytesToRead = dev.bytesToRead,
         Prompted' = (IF reply = ">" THEN dev.bytesToWrite ELSE 0)
  PROVE  m = 0 /\ Resting'
<1>1. \/ Replied /\ m = 0 /\ t.kind = "line" /\ t.text \in Answers(reply)
      \/ Prompting /\ m = 0 /\ t.kind = "line" /\ t.text \in {"OK", ">"}
  <2>1. Stream # <<>> /\ t = Coming
    BY DEF Takes, Coming
  <2> QED
    BY <2>1, Comes DEF Refused, Fetched
<1>2. \A texts, finals : Answering(Stream, texts, finals) /\ t.text \in finals =>
        AllNotices(Stream')
  BY TakeFromAnswer DEF Takes
<1>3. t.text \in Finals(reply)
  BY DEF Finals
<1>4. CASE Replied /\ m = 0 /\ t.text \in Answers(reply)
  <2>1. reply # ">"
    BY <1>4, AnswersAre
  <2>2. AllNotices(Stream')
    BY <1>2, <1>3, <1>4 DEF Replied
  <2> QED
    BY <1>1, <1>4, <2>1, <2>2 DEF Replied, Resting, Takes, Quieted, AllNotices
<1>5. CASE Prompting
  <2>1. AllNotices(Stream')
    BY <1>2, <1>3, <1>5 DEF Prompting
  <2> QED
    BY <1>1, <1>5, <2>1 DEF Prompting, Resting, Takes, AllNotices
<1> QED
  BY <1>1, <1>4, <1>5

(* An error of the modem ends the exchange too.                              *)
LEMMA ErrorStep ==
  ASSUME NEW p \in Nat, NEW m \in Nat, Exchange(p, m), NEW t, Takes(t),
         Stream \in Seq(Tokens), Seen \in Int, ~Receiving(m), t.text \in Errors,
         reply' = NULL, Fetching' <=> Fetching, dev'.bytesToRead = dev.bytesToRead, Restarting'
  PROVE  /\ m = 0 /\ (Resting' \/ Refused')
         /\ \/ Fetching
            \/ Replied /\ t.text \in Answers(reply)
<1>0. ~IsNotice(t) /\ t.text # "+CIPRECVDATA" /\ t.text \notin {"OK", ">"}
  BY DEF Errors, IsNotice, Notices
<1>1. \/ Replied /\ m = 0 /\ t.kind = "line" /\ t.text \in Answers(reply)
      \/ Refused /\ m = 0
  <2>1. Stream # <<>> /\ t = Coming
    BY DEF Takes, Coming
  <2> QED
    BY <1>0, <2>1, Comes DEF PayloadHeader, Line, Header
<1>2. \A texts, finals : Answering(Stream, texts, finals) /\ t.text \in finals =>
        Answering(Stream', texts, finals) /\ AllNotices(Stream')
  BY TakeFromAnswer DEF Takes
<1>3. t.text \in Finals(reply) /\ t.text \in Errors
  BY DEF Finals
<1>4. CASE Replied
  <2>1. AllNotices(Stream')
    BY <1>2, <1>3, <1>4 DEF Replied
  <2> QED
    BY <1>1, <1>4, <2>1 DEF Replied, Refused, Resting, Takes, Quieted, AllNotices, Prompted
<1>5. CASE Refused
  <2>1. Answering(Stream', {"ERROR"}, Errors) /\ AllNotices(Stream')
    BY <1>2, <1>3, <1>5 DEF Refused
  <2>2. Errors' = Errors
    BY DEF Errors, Is, Takes
  <2> QED
    BY <1>1, <1>5, <2>1, <2>2 DEF Refused, Takes, AllNotices, Answering
<1> QED
  BY <1>1, <1>4, <1>5

(* The header of a payload.                                                  *)
LEMMA HeaderStep ==
  ASSUME NEW p \in Nat, NEW m \in Nat, Exchange(p, m), NEW t, Takes(t),
         Stream \in Seq(Tokens), Seen \in Int, ~Receiving(m), t.text = "+CIPRECVDATA",
         reply' = reply, ~Fetching', dev'.bytesToRead = dev.bytesToRead + t.n,
         Restarting' <=> Restarting
  PROVE  Fetched(p, m) /\ m >= 1 /\ t.n = m /\ Receiving(m)'
<1>1. Fetched(p, m) /\ p = 1 /\ t = PayloadHeader(m)
  <2>1. Stream # <<>> /\ t = Coming
    BY DEF Takes, Coming
  <2> QED
    BY <2>1, Comes, AnswersAre DEF IsNotice, Notices, Replied
<1>2. t.n = m
  BY <1>1 DEF PayloadHeader, Line, Header
<1>3. Payload(Stream', PayloadHeader(m), 0, m, Seen)
  <2>1. Payload(Stream, PayloadHeader(m), p, m, Seen)
    BY <1>1 DEF Fetched
  <2>2. Payload(Stream', PayloadHeader(m), p - 1, m, Seen)
    BY <2>1, <1>1, TakeFromPayload DEF Takes
  <2> QED
    BY <2>2, <1>1
<1>4. PayloadHeader(m)' = PayloadHeader(m) /\ (Quieted' <=> Quieted)
  BY DEF PayloadHeader, Is, Takes, Quieted
<1>5. Payload(Stream, PayloadHeader(m), 0, m, Seen)'
  BY <1>3, <1>4 DEF Takes
<1> QED
  BY <1>1, <1>2, <1>4, <1>5 DEF Fetched, Receiving, Takes

LEMMA NoFinalNotices == ASSUME NEW r \in Awaited PROVE Notices \cap Finals(r) = {}
BY DEF Notices, Awaited, Finals, Errors

LEMMA PayloadBytes ==
  ASSUME NEW q \in Seq(Tokens), NEW r \in Seq(Tokens), NEW header, NEW m \in Nat,
         NEW base \in Int, Payload(q \o r, header, 0, m, base), Len(q) >= m
  PROVE  \A k \in 1 .. m : q[k] = Byte(base + k)
<1> DEFINE s == q \o r
<1>1. /\ s \in Seq(Tokens) /\ Len(s) = Len(q) + Len(r)
      /\ Len(q) \in Nat /\ Len(r) \in Nat
      /\ \A i \in 1 .. Len(q) + Len(r) : s[i] = IF i <= Len(q) THEN q[i] ELSE r[i - Len(q)]
  BY ConcatProperties, LenProperties
<1>2. Payload(s, header, 0, m, base)
  OBVIOUS
<1> HIDE DEF s
<1>3. ASSUME NEW k \in 1 .. m PROVE q[k] = Byte(base + k)
  <2>1. k \in 1 .. Len(s) /\ s[k] = q[k] /\ base + k - 0 = base + k
    BY <1>1
  <2> QED
    BY <2>1, <1>2 DEF Payload
<1> QED
  BY <1>3

LEMMA PayloadGone ==
  ASSUME NEW q \in Seq(Tokens), NEW r \in Seq(Tokens), NEW m \in Nat, Seen \in Int,
         Len(q) >= m, Payload(q \o r, PayloadHeader(m), 0, m, Seen),
         "OK" \in Answers("OK"), Notices \cap Finals("OK") = {}
  PROVE  /\ Drop(q, m) \in Seq(Tokens)
         /\ Answering(Drop(q, m) \o r, Answers("OK"), Finals("OK"))
         /\ \A k \in 1 .. m : q[k] = Byte(Seen + k)
<1>1. /\ Drop(q, m) \in Seq(Tokens)
      /\ Answering(Drop(q, m) \o r, Answers("OK"), Finals("OK"))
  BY PayloadTaken
<1>2. \A k \in 1 .. m : q[k] = Byte(Seen + k)
  BY PayloadBytes
<1> QED
  BY <1>1, <1>2

(* The driver takes the payload from the serial port.                        *)
LEMMA ReceiveStep ==
  ASSUME NEW m \in Nat, Receiving(m), rx \in Seq(Tokens), line \in Seq(Tokens), Seen \in Int,
         scenario' = scenario, Len(rx) >= m, rx' = Drop(rx, m), line' = line, tx' = tx,
         prompt' = prompt, reply' = "OK", ~Fetching', dev'.bytesToRead = 0,
         Restarting' <=> Restarting, dev'.bytesToWrite = dev.bytesToWrite
  PROVE  /\ Replied' /\ rx' \in Seq(Tokens)
         /\ \A k \in 1 .. m : rx[k] = Byte(Seen + k)
<1>1. Payload(rx \o line, PayloadHeader(m), 0, m, Seen)
  BY DEF Receiving, Stream
<1>2. "OK" \in Awaited /\ "OK" \in Answers("OK")
  BY DEF Awaited, Answers
<1>3. Notices \cap Finals("OK") = {}
  BY <1>2, NoFinalNotices
<1>4. /\ Drop(rx, m) \in Seq(Tokens)
      /\ Answering(Drop(rx, m) \o line, Answers("OK"), Finals("OK"))
      /\ \A k \in 1 .. m : rx[k] = Byte(Seen + k)
  BY <1>1, <1>2, <1>3, PayloadGone
<1>5. Answers("OK")' = Answers("OK") /\ Finals("OK")' = Finals("OK")
  BY SameWords
<1>6. Answering(Stream', Answers("OK")', Finals("OK")')
  BY <1>4, <1>5 DEF Stream
<1>7. Answers(reply)' = Answers("OK")' /\ Finals(reply)' = Finals("OK")'
  BY DEF Answers, Finals
<1>8. Quieted' <=> Quieted
  BY DEF Quieted
<1>9. Answering(Stream, Answers(reply), Finals(reply))'
  BY <1>6, <1>7
<1> QED
  BY <1>2, <1>4, <1>8, <1>9 DEF Replied, Receiving

(* A reset finds nothing on its way but notices.                             *)
LEMMA ResetFinds ==
  ASSUME NEW p \in Nat, NEW m \in Nat, Exchange(p, m), Restarting, ~NeverResets,
         rx \in Seq(Tokens), line \in Seq(Tokens)
  PROVE  /\ m = 0 /\ tx = <<>> /\ prompt = 0 /\ dev.bytesToRead = 0 /\ reply = NULL
         /\ AllNotices(line)
<1>1. \/ m = 0 /\ Resting
      \/ m = 0 /\ Refused
  BY DEF Exchange, Asking, Replied, Prompting, Sending, Dropping, Fetched, Receiving, Quieted
<1>2. AllNotices(rx \o line)
  BY <1>1 DEF Resting, Refused, Stream
<1>3. AllNotices(line)
  <2>1. /\ Len(rx) \in Nat /\ Len(rx \o line) = Len(rx) + Len(line) /\ Len(line) \in Nat
        /\ \A i \in 1 .. Len(rx) + Len(line) :
             (rx \o line)[i] = IF i <= Len(rx) THEN rx[i] ELSE line[i - Len(rx)]
    BY ConcatProperties, LenProperties
  <2> SUFFICES ASSUME NEW k \in 1 .. Len(line) PROVE IsNotice(line[k])
    BY DEF AllNotices
  <2>2. /\ Len(rx) + k \in 1 .. Len(rx) + Len(line) /\ (Len(rx) + k) - Len(rx) = k
        /\ ~(Len(rx) + k <= Len(rx))
    BY <2>1
  <2>3. (rx \o line)[Len(rx) + k] = line[k]
    BY <2>1, <2>2
  <2> QED
    BY <1>2, <2>1, <2>2, <2>3 DEF AllNotices
<1> QED
  BY <1>1, <1>3 DEF Resting, Refused, Prompted

-----------------------------------------------------------------------------
(* The bytes of the application and of the peer.                             *)

LEMMA UpKept ==
  ASSUME Up, peerGot' = peerGot, up' = up, dev'.writeBuffer = dev.writeBuffer,
         Carried' = Carried, \A k \in 1 .. Carried : tx'[k] = tx[k], Lost => Lost'
  PROVE  Up'
BY DEF Up, UpComplete, Numbered

LEMMA DownKept ==
  ASSUME NEW m, Down(m), got' = got, dev'.readBuffer = dev.readBuffer, inbox' = inbox,
         down' = down, link' = link
  PROVE  Down(m)'
BY DEF Down, Numbered, Seen

(* A step of the driver in which nothing comes or goes.                      *)
NothingElse ==
  /\ scenario' = scenario /\ link' = link /\ inbox' = inbox /\ prompt' = prompt /\ line' = line
  /\ connects' = connects /\ requests' = requests /\ up' = up /\ got' = got
  /\ down' = down /\ peerGot' = peerGot /\ discarded' = discarded
  /\ detector' = detector
Silent ==
  /\ NothingElse /\ rx' = rx /\ tx' = tx
  /\ reply' = reply /\ (Fetching' <=> Fetching) /\ (Restarting' <=> Restarting)
  /\ Prompted' = Prompted
  /\ dev'.bytesToRead = dev.bytesToRead /\ dev'.bytesToWrite = dev.bytesToWrite
  /\ dev'.readBuffer = dev.readBuffer /\ dev'.writeBuffer = dev.writeBuffer

LEMMA SilentStep ==
  ASSUME Talk, Silent
  PROVE  Talk'
<1>1. PICK p \in Nat, m \in Nat : Exchange(p, m) /\ Down(m)
  BY DEF Talk
<1>2. Unspoken
  BY DEF Silent, NothingElse, Unspoken, Stream, Seen
<1>3. Exchange(p, m)'
  BY <1>1, <1>2, UnspokenStep
<1>4. Down(m)'
  BY <1>1, DownKept DEF Silent, NothingElse
<1>5. Up'
  <2>1. Carried' = Carried
    BY DEF Carried, Silent
  <2>2. Lost => Lost'
    BY DEF Lost, Silent, NothingElse, NeverResets, Is
  <2> QED
    BY <2>1, <2>2, UpKept DEF Talk, Silent, NothingElse
<1> QED
  BY <1>3, <1>4, <1>5 DEF Talk
=============================================================================
