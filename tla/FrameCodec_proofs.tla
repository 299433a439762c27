-------------------------- MODULE FrameCodec_proofs ---------------------------
(***************************************************************************)
(* Proofs about FrameCodec, for any frames, any noise, any limits and any  *)
(* checksum of 16 bits: a frame arrives whatever was on the line before it, *)
(* and the beginning of a frame is never taken for one.                    *)
(***************************************************************************)
EXTENDS FrameCodec, SequenceTheorems, WellFoundedInduction, TLAPS

\* Induction over the natural numbers.
LEMMA LeastNat ==
  ASSUME NEW T \in SUBSET Nat, T # {}
  PROVE  \E m \in T : \A k \in T : m <= k
<1>1. PICK x \in T : \A y \in T : ~(<<y, x>> \in OpToRel(<, Nat))
  <2>1. \E x \in T : \A y \in T : ~(<<y, x>> \in OpToRel(<, Nat))
    BY NatLessThanWellFounded, WFMin
  <2>. QED BY <2>1
<1>2. ASSUME NEW y \in T PROVE x <= y
  <2>1. ~(y < x)
    BY <1>1 DEF OpToRel
  <2>. QED BY <2>1
<1>. QED BY <1>2

(***************************************************************************)
(* The bytes of a frame still to come.                                     *)
(***************************************************************************)
EndsOf(f, data, L) ==
  f = [n \in 0..L |-> IF n = 0 THEN <<>> ELSE Escaped(data[Len(data) - n + 1]) \o f[n - 1]]

LEMMA EndsStep ==
  ASSUME NEW f, NEW data, NEW L \in Nat, EndsOf(f, data, L)
  PROVE  /\ f[0] = <<>>
         /\ \A n \in 1..L : f[n] = Escaped(data[Len(data) - n + 1]) \o f[n - 1]
<1>1. 0 \in 0..L /\ \A n \in 1..L : n \in 0..L /\ n # 0
  BY SMT
<1>. QED BY <1>1, Zenon DEF EndsOf

LEMMA EndsFurther ==
  ASSUME NEW f, NEW data, NEW L \in Nat, EndsOf(f, data, L)
  PROVE  \E g : EndsOf(g, data, L + 1)
<1> DEFINE e(n) == Escaped(data[Len(data) - n + 1])
           g == [n \in 0..(L + 1) |-> IF n = L + 1 THEN e(n) \o f[n - 1] ELSE f[n]]
<1>1. ASSUME NEW n \in 0..(L + 1)
      PROVE  g[n] = IF n = 0 THEN <<>> ELSE e(n) \o g[n - 1]
  <2>1. CASE n = L + 1
    <3>1. n # 0 /\ n - 1 # L + 1 /\ n - 1 \in 0..(L + 1)
      BY <2>1, SMT
    <3>2. g[n] = e(n) \o f[n - 1] /\ g[n - 1] = f[n - 1]
      BY <2>1, <3>1, Zenon
    <3>. QED BY <3>1, <3>2, Zenon
  <2>2. CASE n # L + 1 /\ n # 0
    <3>1. n - 1 # L + 1 /\ n - 1 \in 0..(L + 1) /\ n \in 1..L
      BY <2>2, SMT
    <3>2. g[n] = f[n] /\ g[n - 1] = f[n - 1]
      BY <2>2, <3>1, Zenon
    <3>3. f[n] = e(n) \o f[n - 1]
      BY <3>1, EndsStep, Zenon
    <3>. QED BY <2>2, <3>2, <3>3, Zenon
  <2>3. CASE n # L + 1 /\ n = 0
    <3>1. f[0] = <<>>
      BY EndsStep
    <3>. QED BY <2>3, <3>1, Zenon
  <2>. QED BY <2>1, <2>2, <2>3, Zenon
<1>2. g = [n \in 0..(L + 1) |-> g[n]]
  BY Zenon
<1> HIDE DEF g
<1>3. EndsOf(g, data, L + 1)
  BY <1>1, <1>2, Zenon DEF EndsOf
<1>. QED BY <1>3

LEMMA EndsExist ==
  ASSUME NEW data, NEW L \in Nat
  PROVE  \E f : EndsOf(f, data, L)
<1> DEFINE T == {n \in Nat : ~\E f : EndsOf(f, data, n)}
<1>1. SUFFICES ASSUME T # {} PROVE FALSE
  OBVIOUS
<1>2. PICK n \in T : \A k \in T : n <= k
  BY <1>1, LeastNat
<1>3. EndsOf([n0 \in 0..0 |-> <<>>], data, 0)
  <2>1. \A n0 \in 0..0 : n0 = 0
    BY SMT
  <2>. QED BY <2>1, Zenon DEF EndsOf
<1>4. n # 0
  BY <1>2, <1>3
<1>5. n - 1 \in Nat /\ ~(n - 1 \in T) /\ (n - 1) + 1 = n
  BY <1>2, <1>4
<1>6. \E f : EndsOf(f, data, n - 1)
  BY <1>5
<1>7. \E f : EndsOf(f, data, (n - 1) + 1)
  BY <1>5, <1>6, EndsFurther
<1>. QED BY <1>2, <1>5, <1>7

\* The bytes that encode data from behind its first n.
Ahead(data, n) == (CHOOSE f : EndsOf(f, data, Len(data)))[Len(data) - n]

LEMMA EscapedBytes ==
  ASSUME NEW byte \in Byte
  PROVE  /\ Escaped(byte) \in Seq(Byte) /\ EscapeXor(byte) \in Byte
         /\ byte \in {Delimiter, Escape} =>
              /\ EscapeXor(byte) \notin {Delimiter, Escape}
              /\ EscapeXor(EscapeXor(byte)) = byte
<1>1. byte \in Int /\ 0 <= byte /\ byte <= 255
  BY DEF Byte
<1>2. /\ EscapeXor(byte) \in Byte
      /\ byte \in {Delimiter, Escape} =>
              /\ EscapeXor(byte) \notin {Delimiter, Escape}
              /\ EscapeXor(EscapeXor(byte)) = byte
  BY <1>1, SMT DEF EscapeXor, Byte, Delimiter, Escape
<1>3. Escape \in Byte
  BY SMT DEF Escape, Byte
<1>. QED BY <1>2, <1>3, SMT DEF Escaped

LEMMA AheadValue ==
  ASSUME NEW data \in Seq(Byte)
  PROVE  /\ AllEscaped(data) = Ahead(data, 0)
         /\ Ahead(data, Len(data)) = <<>>
         /\ \A n \in 0..(Len(data) - 1) :
              Ahead(data, n) = Escaped(data[n + 1]) \o Ahead(data, n + 1)
<1> DEFINE L == Len(data)
           f == CHOOSE g : EndsOf(g, data, L)
<1>0. L \in Nat /\ L - 0 = L /\ L - L = 0
  OBVIOUS
<1>1. EndsOf(f, data, L)
  BY <1>0, EndsExist, Zenon
<1>2. AllEscaped(data) = f[L]
  BY Zenon DEF AllEscaped, EndsOf
<1>3. \A n : Ahead(data, n) = f[L - n]
  BY Zenon DEF Ahead
<1> HIDE DEF f
<1>4. f[0] = <<>> /\ \A n \in 1..L : f[n] = Escaped(data[L - n + 1]) \o f[n - 1]
  BY <1>0, <1>1, EndsStep
<1> HIDE DEF L
<1>5. ASSUME NEW n \in 0..(L - 1)
      PROVE  Ahead(data, n) = Escaped(data[n + 1]) \o Ahead(data, n + 1)
  <2>1. L - n \in 1..L /\ L - (L - n) + 1 = n + 1 /\ (L - n) - 1 = L - (n + 1)
    BY <1>0
  <2>. QED BY <1>3, <1>4, <2>1, Zenon
<1>6. AllEscaped(data) = Ahead(data, 0) /\ Ahead(data, L) = <<>>
  BY <1>0, <1>2, <1>3, <1>4, Zenon
<1>. QED BY <1>5, <1>6 DEF L

LEMMA AheadBytes ==
  ASSUME NEW data \in Seq(Byte)
  PROVE  \A n \in 0..Len(data) : Ahead(data, n) \in Seq(Byte)
<1> DEFINE L == Len(data)
           T == {n \in 0..L : Ahead(data, L - n) \notin Seq(Byte)}
<1>0. L \in Nat /\ L - 0 = L /\ T \in SUBSET Nat
  OBVIOUS
<1>1. T = {}
  <2>1. SUFFICES ASSUME T # {} PROVE FALSE
    OBVIOUS
  <2>2. PICK n \in T : \A k \in T : n <= k
    BY <1>0, <2>1, LeastNat
  <2>3. n \in 0..L /\ Ahead(data, L - n) \notin Seq(Byte)
    OBVIOUS
  <2>4. n # 0
    <3>1. SUFFICES ASSUME n = 0 PROVE FALSE
      OBVIOUS
    <3>2. L - n = L
      BY <1>0, <3>1
    <3>3. Ahead(data, L - n) = <<>>
      BY <3>2, AheadValue, Zenon
    <3>. QED BY <2>3, <3>3, EmptySeq
  <2>5. n - 1 \in 0..L /\ n - 1 \notin T
    <3>. HIDE DEF T
    <3>1. n - 1 \in 0..L /\ ~(n <= n - 1)
      BY <1>0, <2>3, <2>4, SMT
    <3>. QED BY <2>2, <3>1
  <2>6. /\ L - n \in 0..(L - 1) /\ (L - n) + 1 = L - (n - 1)
        /\ (L - n) + 1 \in 1..L
    BY <1>0, <2>3, <2>4
  <2>7. Ahead(data, L - n) = Escaped(data[(L - n) + 1]) \o Ahead(data, L - (n - 1))
    BY <2>6, AheadValue
  <2>8. Ahead(data, L - (n - 1)) \in Seq(Byte)
    BY <2>5
  <2>9. Escaped(data[(L - n) + 1]) \in Seq(Byte)
    <3>1. data[(L - n) + 1] \in Byte
      BY <2>6, ElementOfSeq
    <3>. QED BY <3>1, EscapedBytes
  <2>. QED BY <2>3, <2>7, <2>8, <2>9, ConcatProperties
<1>2. ASSUME NEW n \in 0..L PROVE Ahead(data, n) \in Seq(Byte)
  <2>1. L - n \in 0..L /\ L - (L - n) = n
    BY <1>0
  <2>. QED BY <1>1, <2>1
<1>. QED BY <1>2

(***************************************************************************)
(* The receivers.                                                          *)
(***************************************************************************)
Parsers ==
  [active : BOOLEAN, escaped : BOOLEAN, overflow : BOOLEAN, body : Seq(Byte)]
Hosts ==
  [active : BOOLEAN, escaped : BOOLEAN, body : Seq(Byte),
   result : {"reading", "malformed", "frame"}]

\* Within a frame of which they have stored body.
ParserIn(p, escaped, body) ==
  p \in Parsers /\ p.active /\ ~p.overflow /\ p.escaped = escaped /\ p.body = body

HostIn(h, escaped, body) ==
  h \in Hosts /\ h.active /\ h.result = "reading" /\ h.escaped = escaped /\ h.body = body

LEMMA ParserStarts == Listening \in Parsers /\ ParserIn(Started, FALSE, <<>>)
<1>1. /\ Listening \in Parsers /\ ~Listening.overflow /\ ~Listening.escaped
      /\ Listening.body = <<>>
  BY DEF Listening, Parsers
<1>2. \A p \in Parsers :
        /\ [p EXCEPT !.active = TRUE] \in Parsers
        /\ [p EXCEPT !.active = TRUE].active
        /\ [p EXCEPT !.active = TRUE].overflow = p.overflow
        /\ [p EXCEPT !.active = TRUE].escaped = p.escaped
        /\ [p EXCEPT !.active = TRUE].body = p.body
  BY DEF Parsers
<1>. QED BY <1>1, <1>2 DEF Started, ParserIn

LEMMA HostStarts ==
  /\ HostListening \in Hosts /\ ~HostListening.active /\ ~HostListening.escaped
  /\ HostListening.body = <<>> /\ HostListening.result = "reading"
  BY DEF HostListening, Hosts

\* A byte that is no delimiter, within a frame.
LEMMA ParserWithin ==
  ASSUME NEW p, NEW body \in Seq(Byte), NEW escaped \in BOOLEAN, NEW x \in Byte,
         ParserIn(p, escaped, body), x # Delimiter
  PROVE  /\ ~escaped /\ x = Escape => ParserIn(ParserFeed(p, x), TRUE, body)
         /\ (escaped \/ x # Escape) /\ Len(body) # HeaderSize + MaxPayload + CrcSize =>
              ParserIn(ParserFeed(p, x), FALSE,
                       Append(body, IF escaped THEN EscapeXor(x) ELSE x))
<1> DEFINE y == IF escaped THEN EscapeXor(x) ELSE x
           open == [p EXCEPT !.escaped = TRUE]
           longer == [p EXCEPT !.escaped = FALSE, !.body = Append(@, y)]
<1>1. /\ p \in Parsers /\ p.active /\ ~p.overflow /\ p.escaped = escaped
      /\ p.escaped \in BOOLEAN /\ p.body = body
  BY DEF ParserIn
<1>2. ASSUME ~escaped /\ x = Escape PROVE ParserFeed(p, x) = open
  BY <1>1, <1>2, Zenon DEF ParserFeed
<1>3. ASSUME escaped \/ x # Escape, Len(body) # HeaderSize + MaxPayload + CrcSize
      PROVE  ParserFeed(p, x) = longer
  BY <1>1, <1>3, Zenon DEF ParserFeed
<1>4. ParserIn(open, TRUE, body)
  BY <1>1 DEF ParserIn, Parsers
<1>5. ParserIn(longer, FALSE, Append(body, y))
  <2>1. y \in Byte
    BY EscapedBytes
  <2>2. Append(p.body, y) \in Seq(Byte)
    <3> HIDE DEF y
    <3>. QED BY <1>1, <2>1
  <2> HIDE DEF y
  <2>. QED BY <1>1, <2>2 DEF ParserIn, Parsers
<1> HIDE DEF open, longer
<1>. QED BY <1>2, <1>3, <1>4, <1>5, Zenon

LEMMA HostWithin ==
  ASSUME NEW h, NEW body \in Seq(Byte), NEW escaped \in BOOLEAN, NEW x \in Byte,
         HostIn(h, escaped, body), x # Delimiter
  PROVE  /\ ~escaped /\ x = Escape => HostIn(HostFeed(h, x), TRUE, body)
         /\ (escaped \/ x # Escape) /\ Len(body) # HeaderSize + HostLimit + CrcSize =>
              HostIn(HostFeed(h, x), FALSE,
                     Append(body, IF escaped THEN EscapeXor(x) ELSE x))
<1> DEFINE y == IF escaped THEN EscapeXor(x) ELSE x
           open == [h EXCEPT !.escaped = TRUE]
           longer == [h EXCEPT !.escaped = FALSE, !.body = Append(@, y)]
<1>1. /\ h \in Hosts /\ h.active /\ h.result = "reading" /\ h.escaped = escaped
      /\ h.escaped \in BOOLEAN /\ h.body = body
  BY DEF HostIn
<1>2. ASSUME ~escaped /\ x = Escape PROVE HostFeed(h, x) = open
  BY <1>1, <1>2, Zenon DEF HostFeed
<1>3. ASSUME escaped \/ x # Escape, Len(body) # HeaderSize + HostLimit + CrcSize
      PROVE  HostFeed(h, x) = longer
  BY <1>1, <1>3, Zenon DEF HostFeed
<1>4. HostIn(open, TRUE, body)
  BY <1>1 DEF HostIn, Hosts
<1>5. HostIn(longer, FALSE, Append(body, y))
  <2>1. y \in Byte
    BY EscapedBytes
  <2>2. Append(h.body, y) \in Seq(Byte)
    <3> HIDE DEF y
    <3>. QED BY <1>1, <2>1
  <2> HIDE DEF y
  <2>. QED BY <1>1, <2>2 DEF HostIn, Hosts
<1> HIDE DEF open, longer
<1>. QED BY <1>2, <1>3, <1>4, <1>5, Zenon

(***************************************************************************)
(* Reading a frame.  n bytes of data, header, payload and checksum, have   *)
(* been read, and when open the escape of the next.                        *)
(***************************************************************************)
Framed(data, n) == Ahead(data, n) \o <<Delimiter>>

At(data, rest, n, open) ==
  /\ n \in 0..Len(data) /\ open \in BOOLEAN
  /\ ~open => rest = Framed(data, n)
  /\ open => /\ n < Len(data) /\ data[n + 1] \in {Delimiter, Escape}
             /\ rest = <<EscapeXor(data[n + 1])>> \o Framed(data, n + 1)

ParserAt(p, data, n, open) == ParserIn(p, open, SubSeq(data, 1, n))
HostAt(h, data, n, open) == HostIn(h, open, SubSeq(data, 1, n))

LEMMA ByteBefore ==
  ASSUME NEW x \in Byte, NEW s \in Seq(Byte)
  PROVE  /\ <<x>> \o s \in Seq(Byte) /\ <<x>> \o s # <<>>
         /\ Head(<<x>> \o s) = x /\ Tail(<<x>> \o s) = s
<1>1. <<x>> \in Seq(Byte) /\ Len(<<x>>) = 1 /\ <<x>>[1] = x
  OBVIOUS
<1> DEFINE t == <<x>> \o s
<1>2. /\ t \in Seq(Byte) /\ Len(t) = Len(s) + 1 /\ t[1] = x
      /\ \A i \in 1..Len(s) : t[i + 1] = s[i]
  <2>1. /\ t \in Seq(Byte) /\ Len(t) = 1 + Len(s)
        /\ \A i \in 1..(1 + Len(s)) : t[i] = IF i <= 1 THEN <<x>>[i] ELSE s[i - 1]
    BY <1>1, ConcatProperties
  <2>2. Len(s) \in Nat
    OBVIOUS
  <2> HIDE DEF t
  <2>. QED BY <1>1, <2>1, <2>2
<1> HIDE DEF t
<1>3. t # <<>> /\ Head(t) = x
  BY <1>2
<1>4. Tail(t) \in Seq(Byte) /\ Len(Tail(t)) = Len(s) /\ \A i \in 1..Len(s) : Tail(t)[i] = s[i]
  BY <1>2, <1>3, HeadTailProperties
<1>5. Tail(t) = s
  BY <1>4, SeqEqual
<1>. QED BY <1>2, <1>3, <1>5 DEF t

LEMMA FramedBytes ==
  ASSUME NEW data \in Seq(Byte)
  PROVE  /\ \A n \in 0..Len(data) : Framed(data, n) \in Seq(Byte)
         /\ Framed(data, Len(data)) = <<Delimiter>>
         /\ \A n \in 0..(Len(data) - 1) :
              Framed(data, n) =
                IF data[n + 1] \in {Delimiter, Escape}
                THEN <<Escape>> \o (<<EscapeXor(data[n + 1])>> \o Framed(data, n + 1))
                ELSE <<data[n + 1]>> \o Framed(data, n + 1)
<1>1. Delimiter \in Byte /\ Escape \in Byte
  BY SMT DEF Delimiter, Escape, Byte
<1>2. <<Delimiter>> \in Seq(Byte) /\ <<Escape>> \in Seq(Byte)
  BY <1>1
<1>3. \A n \in 0..Len(data) : Framed(data, n) \in Seq(Byte)
  BY <1>2, AheadBytes, ConcatProperties DEF Framed
<1>4. Framed(data, Len(data)) = <<Delimiter>>
  BY <1>2, AheadValue, ConcatEmptySeq DEF Framed
<1>5. ASSUME NEW n \in 0..(Len(data) - 1)
      PROVE  Framed(data, n) =
                IF data[n + 1] \in {Delimiter, Escape}
                THEN <<Escape>> \o (<<EscapeXor(data[n + 1])>> \o Framed(data, n + 1))
                ELSE <<data[n + 1]>> \o Framed(data, n + 1)
  <2> DEFINE x == data[n + 1]
             s == Ahead(data, n + 1)
  <2>1. n + 1 \in 1..Len(data) /\ n + 1 \in 0..Len(data)
    OBVIOUS
  <2>2. x \in Byte /\ Escaped(x) \in Seq(Byte) /\ EscapeXor(x) \in Byte
    BY <2>1, ElementOfSeq, EscapedBytes
  <2>3. s \in Seq(Byte)
    BY <2>1, AheadBytes
  <2>4. Framed(data, n) = (Escaped(x) \o s) \o <<Delimiter>>
    BY AheadValue DEF Framed
  <2>5. Framed(data, n + 1) = s \o <<Delimiter>>
    BY DEF Framed
  <2>6. Framed(data, n) = Escaped(x) \o Framed(data, n + 1)
    <3>1. (Escaped(x) \o s) \o <<Delimiter>> = Escaped(x) \o (s \o <<Delimiter>>)
      <4> HIDE DEF x, s
      <4>. QED BY <1>2, <2>2, <2>3, ConcatAssociative
    <3>. QED BY <2>4, <2>5, <3>1, Zenon
  <2>7. CASE x \in {Delimiter, Escape}
    <3>1. Escaped(x) = <<Escape, EscapeXor(x)>>
      BY <2>7 DEF Escaped
    <3>2. Escaped(x) = <<Escape>> \o <<EscapeXor(x)>>
      <4> HIDE DEF x
      <4>. QED BY <3>1, <1>1, <2>2
    <3>3. Framed(data, n + 1) \in Seq(Byte) /\ <<EscapeXor(x)>> \in Seq(Byte)
      BY <1>3, <2>1, <2>2
    <3> HIDE DEF x
    <3>4. (<<Escape>> \o <<EscapeXor(x)>>) \o Framed(data, n + 1)
            = <<Escape>> \o (<<EscapeXor(x)>> \o Framed(data, n + 1))
      BY <1>2, <3>3, ConcatAssociative
    <3>. QED BY <2>6, <2>7, <3>2, <3>4 DEF x
  <2>8. CASE x \notin {Delimiter, Escape}
    BY <2>6, <2>8 DEF Escaped
  <2>. QED BY <2>7, <2>8
<1>. QED BY <1>3, <1>4, <1>5

LEMMA TakenFurther ==
  ASSUME NEW data \in Seq(Byte), NEW n \in 0..(Len(data) - 1)
  PROVE  /\ SubSeq(data, 1, n) \in Seq(Byte) /\ Len(SubSeq(data, 1, n)) = n
         /\ Append(SubSeq(data, 1, n), data[n + 1]) = SubSeq(data, 1, n + 1)
<1>1. Len(data) \in Nat /\ n + 1 \in 1..Len(data) /\ 1 \in 1..Len(data) /\ (n + 1) - 1 = n
  OBVIOUS
<1>2. \A i \in 1..n : data[i] \in Byte
  BY <1>1, ElementOfSeq
<1>3. SubSeq(data, 1, n) \in Seq(Byte) /\ Len(SubSeq(data, 1, n)) = n
  BY <1>1, <1>2, SubSeqProperties
<1>4. SubSeq(data, 1, n + 1) = SubSeq(data, 1, (n + 1) - 1) \o <<data[n + 1]>>
  BY <1>1, SubSeqRecursiveSecond
<1>5. Append(SubSeq(data, 1, n), data[n + 1]) = SubSeq(data, 1, n) \o <<data[n + 1]>>
  BY <1>1, <1>3, ElementOfSeq, AppendIsConcat
<1>. QED BY <1>1, <1>3, <1>4, <1>5

\* The next byte is the closing delimiter, ...
Closes(data, rest, n, open) ==
  Head(rest) = Delimiter /\ Tail(rest) = <<>> /\ n = Len(data) /\ ~open

\* ... or takes both receivers further.
Advances(data, rest, n, open) ==
  /\ Head(rest) # Delimiter
  /\ \E m, o :
       /\ At(data, Tail(rest), m, o)
       /\ \A p : ParserAt(p, data, n, open) =>
                  ParserAt(ParserFeed(p, Head(rest)), data, m, o)
       /\ Len(data) <= HeaderSize + HostLimit + CrcSize =>
            \A h : HostAt(h, data, n, open) => HostAt(HostFeed(h, Head(rest)), data, m, o)

LEMMA NextByte ==
  ASSUME NEW data \in Seq(Byte), NEW rest, NEW n, NEW open, At(data, rest, n, open),
         Len(data) <= HeaderSize + MaxPayload + CrcSize
  PROVE  /\ rest \in Seq(Byte) /\ rest # <<>>
         /\ Closes(data, rest, n, open) \/ Advances(data, rest, n, open)
<1> DEFINE body == SubSeq(data, 1, n)
<1>0. n \in 0..Len(data) /\ open \in BOOLEAN /\ Len(data) \in Nat
  BY DEF At
<1>1. Delimiter \in Byte /\ Escape \in Byte /\ Delimiter # Escape
  BY SMT DEF Delimiter, Escape, Byte
<1>2. CASE ~open /\ n = Len(data)
  <2>1. rest = <<Delimiter>>
    BY <1>2, FramedBytes DEF At
  <2>. QED BY <1>0, <1>1, <1>2, <2>1 DEF Closes
<1>3. ASSUME n \in 0..(Len(data) - 1)
      PROVE  /\ n + 1 \in 0..Len(data) /\ n < Len(data)
             /\ data[n + 1] \in Byte /\ EscapeXor(data[n + 1]) \in Byte
             /\ Framed(data, n + 1) \in Seq(Byte)
             /\ body \in Seq(Byte) /\ Len(body) = n
             /\ n # HeaderSize + MaxPayload + CrcSize
             /\ Len(data) <= HeaderSize + HostLimit + CrcSize =>
                  n # HeaderSize + HostLimit + CrcSize
  <2>1. n + 1 \in 0..Len(data) /\ n + 1 \in 1..Len(data) /\ n < Len(data)
    BY <1>3
  <2>2. n # HeaderSize + MaxPayload + CrcSize
    BY <1>0, <2>1, LimitsAssumption, SMT DEF HeaderSize, CrcSize
  <2>3. Len(data) <= HeaderSize + HostLimit + CrcSize =>
                  n # HeaderSize + HostLimit + CrcSize
    BY <1>0, <2>1, LimitsAssumption, SMT DEF HeaderSize, CrcSize
  <2>4. data[n + 1] \in Byte
    BY <2>1, ElementOfSeq
  <2>5. body \in Seq(Byte) /\ Len(body) = n
    BY <1>3, TakenFurther
  <2> HIDE DEF body
  <2>. QED BY <2>1, <2>2, <2>3, <2>4, <2>5, EscapedBytes, FramedBytes
<1>4. CASE ~open /\ n \in 0..(Len(data) - 1) /\ data[n + 1] \in {Delimiter, Escape}
  <2> DEFINE tail == <<EscapeXor(data[n + 1])>> \o Framed(data, n + 1)
  <2>1. rest = <<Escape>> \o tail
    BY <1>4, FramedBytes DEF At
  <2>2. tail \in Seq(Byte)
    BY <1>3, <1>4, ByteBefore
  <2>3. rest \in Seq(Byte) /\ rest # <<>> /\ Head(rest) = Escape /\ Tail(rest) = tail
    <3> HIDE DEF tail
    <3>. QED BY <1>1, <2>1, <2>2, ByteBefore
  <2>4. At(data, Tail(rest), n, TRUE)
    <3>1. n < Len(data)
      BY <1>3, <1>4
    <3> HIDE DEF tail
    <3>. QED BY <1>0, <1>4, <2>3, <3>1, Zenon DEF At, tail
  <2>5. body \in Seq(Byte)
    BY <1>3, <1>4
  <2> HIDE DEF body
  <2>6. ASSUME NEW p, ParserIn(p, open, body) PROVE ParserIn(ParserFeed(p, Escape), TRUE, body)
    BY <1>0, <1>1, <1>4, <2>5, <2>6, ParserWithin, Zenon
  <2>7. ASSUME NEW h, HostIn(h, open, body) PROVE HostIn(HostFeed(h, Escape), TRUE, body)
    BY <1>0, <1>1, <1>4, <2>5, <2>7, HostWithin, Zenon
  <2>. QED BY <1>1, <2>3, <2>4, <2>6, <2>7, Zenon DEF Advances, ParserAt, HostAt, body
<1>5. ASSUME NEW x, n \in 0..(Len(data) - 1), rest = <<x>> \o Framed(data, n + 1),
             x \in Byte, x # Delimiter, open \/ x # Escape,
             data[n + 1] = IF open THEN EscapeXor(x) ELSE x
      PROVE  rest \in Seq(Byte) /\ rest # <<>> /\ Advances(data, rest, n, open)
  <2>1. /\ rest \in Seq(Byte) /\ rest # <<>>
        /\ Head(rest) = x /\ Tail(rest) = Framed(data, n + 1)
    BY <1>3, <1>5, ByteBefore
  <2>2. At(data, Tail(rest), n + 1, FALSE)
    BY <1>0, <1>3, <1>5, <2>1 DEF At
  <2> DEFINE longer == SubSeq(data, 1, n + 1)
  <2>3. longer = Append(body, IF open THEN EscapeXor(x) ELSE x)
    BY <1>5, TakenFurther
  <2>4. body \in Seq(Byte) /\ Len(body) # HeaderSize + MaxPayload + CrcSize
    BY <1>3, <1>5
  <2>5. Len(data) <= HeaderSize + HostLimit + CrcSize =>
          Len(body) # HeaderSize + HostLimit + CrcSize
    BY <1>3, <1>5
  <2> HIDE DEF body, longer
  <2>6. ASSUME NEW p, ParserIn(p, open, body) PROVE ParserIn(ParserFeed(p, x), FALSE, longer)
    BY <1>0, <1>5, <2>3, <2>4, <2>6, ParserWithin, Zenon
  <2>7. ASSUME NEW h, HostIn(h, open, body), Len(data) <= HeaderSize + HostLimit + CrcSize
        PROVE  HostIn(HostFeed(h, x), FALSE, longer)
    BY <1>0, <1>5, <2>3, <2>4, <2>5, <2>7, HostWithin, Zenon
  <2>. QED BY <1>5, <2>1, <2>2, <2>6, <2>7, Zenon DEF Advances, ParserAt, HostAt, body, longer
<1>6. CASE ~open /\ n \in 0..(Len(data) - 1) /\ data[n + 1] \notin {Delimiter, Escape}
  <2> DEFINE x == data[n + 1]
  <2>1. rest = <<x>> \o Framed(data, n + 1)
    BY <1>6, FramedBytes DEF At
  <2>2. x \in Byte /\ x # Delimiter /\ x # Escape /\ x = IF open THEN EscapeXor(x) ELSE x
    BY <1>3, <1>6
  <2>3. data[n + 1] = IF open THEN EscapeXor(x) ELSE x
    BY <1>6
  <2> HIDE DEF x
  <2>. QED BY <1>5, <1>6, <2>1, <2>2, <2>3
<1>7. CASE open
  <2> DEFINE x == EscapeXor(data[n + 1])
  <2>1. /\ n \in 0..(Len(data) - 1) /\ data[n + 1] \in {Delimiter, Escape}
        /\ rest = <<x>> \o Framed(data, n + 1)
    BY <1>0, <1>7 DEF At
  <2>2. data[n + 1] \in Byte
    BY <1>3, <2>1
  <2>3. x \in Byte /\ x # Delimiter /\ EscapeXor(x) = data[n + 1]
    BY <2>1, <2>2, EscapedBytes
  <2> HIDE DEF x
  <2>. QED BY <1>5, <1>7, <2>1, <2>3
<1>8. n \in 0..(Len(data) - 1) \/ n = Len(data)
  BY <1>0
<1>. QED BY <1>0, <1>2, <1>4, <1>6, <1>7, <1>8

(***************************************************************************)
(* A whole frame.                                                          *)
(***************************************************************************)
LEMMA WholeFrame ==
  ASSUME NEW b \in Bodies
  PROVE  /\ WithCrc(b) \in Seq(Byte) /\ Len(WithCrc(b)) > 0
         /\ Len(WithCrc(b)) <= HeaderSize + MaxPayload + CrcSize
         /\ Len(WithCrc(b)) <= HeaderSize + HostLimit + CrcSize
         /\ Valid(WithCrc(b), MaxPayload) /\ Valid(WithCrc(b), HostLimit)
         /\ Body(WithCrc(b)) = b
         /\ Encode(b) = <<Delimiter>> \o Framed(WithCrc(b), 0)
         /\ Encode(b) \in Seq(Byte)
<1> DEFINE data == WithCrc(b)
           crc == Crc16(b)
           ends == <<crc % 256, crc \div 256>>
           L == Len(b)
<1>1. /\ b \in Seq(Byte) /\ L \in Nat /\ L >= HeaderSize
      /\ L = HeaderSize + Word(b[5], b[6])
      /\ Word(b[5], b[6]) <= MaxPayload /\ Word(b[5], b[6]) <= HostLimit
      /\ crc \in Word16
  <2>1. /\ b \in Seq(Byte) /\ Len(b) >= HeaderSize
        /\ Len(b) = HeaderSize + Word(b[5], b[6])
        /\ Word(b[5], b[6]) <= MaxPayload /\ Word(b[5], b[6]) <= HostLimit
        /\ crc \in Word16
    BY BodiesAssumption, Zenon
  <2>2. L \in Nat
    BY <2>1
  <2>. QED BY <2>1, <2>2, Zenon
<1>2. crc % 256 \in Byte /\ crc \div 256 \in Byte /\ crc = (crc % 256) + 256 * (crc \div 256)
  <2> HIDE DEF crc
  <2>1. crc \in Int /\ 0 <= crc /\ crc <= 65535
    BY <1>1, SMT DEF Word16
  <2>. QED BY <2>1, SMT DEF Byte
<1>3. /\ ends \in Seq(Byte) /\ Len(ends) = 2
      /\ ends[1] = crc % 256 /\ ends[2] = crc \div 256
  <2> HIDE DEF crc
  <2>. QED BY <1>2
<1>4. data = b \o ends
  BY DEF WithCrc
<1> HIDE DEF ends, L, crc, data
<1>5. /\ data \in Seq(Byte) /\ Len(data) = L + 2
      /\ \A i \in 1..(L + 2) : data[i] = IF i <= L THEN b[i] ELSE ends[i - L]
  <2>0. /\ b \o ends \in Seq(Byte) /\ Len(b \o ends) = Len(b) + Len(ends)
        /\ \A i \in 1..(Len(b) + Len(ends)) :
             (b \o ends)[i] = IF i <= Len(b) THEN b[i] ELSE ends[i - Len(b)]
    <3>1. b \in Seq(Byte) /\ ends \in Seq(Byte)
      BY <1>1, <1>3, Zenon
    <3>. QED BY <3>1, ConcatProperties
  <2>1. /\ data \in Seq(Byte) /\ Len(data) = Len(b) + Len(ends)
        /\ \A i \in 1..(Len(b) + Len(ends)) :
             data[i] = IF i <= Len(b) THEN b[i] ELSE ends[i - Len(b)]
    BY <1>4, <2>0, Zenon
  <2>. QED BY <1>3, <2>1, Zenon DEF L
<1>6. /\ data[L + 1] = crc % 256 /\ data[L + 2] = crc \div 256
      /\ \A i \in 1..L : data[i] = b[i]
  <2>1. L + 1 \in 1..(L + 2) /\ L + 2 \in 1..(L + 2) /\ ~(L + 1 <= L) /\ ~(L + 2 <= L)
        /\ (L + 1) - L = 1 /\ (L + 2) - L = 2
        /\ \A i \in 1..L : i \in 1..(L + 2) /\ i <= L
    BY <1>1
  <2>. QED BY <1>3, <1>5, <2>1
<1>7. SubSeq(data, 1, L) = b
  <2>1. /\ SubSeq(data, 1, L) \in Seq(Byte) /\ Len(SubSeq(data, 1, L)) = L
        /\ \A i \in 1..L : SubSeq(data, 1, L)[i] = data[i]
    <3>1. \A i \in 1..L : i \in 1..Len(data)
      BY <1>1, <1>5
    <3>2. \A i \in 1..L : data[i] \in Byte
      BY <1>5, <3>1, ElementOfSeq
    <3>3. /\ SubSeq(data, 1, L) \in Seq(Byte)
          /\ Len(SubSeq(data, 1, L)) = IF 1 <= L THEN L - 1 + 1 ELSE 0
          /\ \A i \in 1 .. L - 1 + 1 : SubSeq(data, 1, L)[i] = data[1 + i - 1]
      BY <1>1, <3>2, SubSeqProperties
    <3>. QED BY <1>1, <3>3
  <2>. QED BY <1>1, <1>6, <2>1, SeqEqual DEF L
<1>8. L = Len(data) - CrcSize /\ L + 1 = Len(data) - 1 /\ L + 2 = Len(data)
  BY <1>1, <1>5, SMT DEF CrcSize
<1>9. Body(data) = b
  BY <1>7, <1>8, Zenon DEF Body
<1>10. data[5] = b[5] /\ data[6] = b[6]
  <2>1. 5 \in 1..L /\ 6 \in 1..L
    BY <1>1, SMT DEF HeaderSize
  <2>. QED BY <1>6, <2>1
<1>11. Crc16(SubSeq(data, 1, Len(data) - CrcSize)) = Word(data[Len(data) - 1], data[Len(data)])
  <2>1. Crc16(SubSeq(data, 1, Len(data) - CrcSize)) = crc
    BY <1>7, <1>8, Zenon DEF crc
  <2>2. data[Len(data) - 1] = crc % 256 /\ data[Len(data)] = crc \div 256
    BY <1>6, <1>8, Zenon
  <2>. QED BY <1>2, <2>1, <2>2, Zenon DEF Word
<1>12. ASSUME NEW limit, Word(b[5], b[6]) <= limit PROVE Valid(data, limit)
  <2>1. Len(data) >= HeaderSize + CrcSize
    BY <1>1, <1>5, SMT DEF HeaderSize, CrcSize
  <2>2. Len(data) = HeaderSize + Word(data[5], data[6]) + CrcSize
    <3>1. Word(b[5], b[6]) = L - HeaderSize
      <4>1. b[5] \in Int /\ b[6] \in Int
        <5>1. 5 \in 1..Len(b) /\ 6 \in 1..Len(b)
          BY <1>1, SMT DEF HeaderSize, L
        <5>2. b[5] \in Byte /\ b[6] \in Byte
          BY <1>1, <5>1, ElementOfSeq
        <5>. QED BY <5>2 DEF Byte
      <4>2. Word(b[5], b[6]) \in Int
        BY <4>1 DEF Word
      <4>. QED BY <1>1, <4>2, SMT DEF HeaderSize
    <3>. QED BY <1>1, <1>5, <1>10, <3>1, SMT DEF HeaderSize, CrcSize
  <2>. QED BY <1>10, <1>11, <1>12, <2>1, <2>2, Zenon DEF Valid
<1>13. /\ Len(data) > 0 /\ Len(data) <= HeaderSize + MaxPayload + CrcSize
       /\ Len(data) <= HeaderSize + HostLimit + CrcSize
  <2>0. Valid(data, MaxPayload)
    BY <1>1, <1>12
  <2>1. /\ Len(data) = HeaderSize + Word(data[5], data[6]) + CrcSize
        /\ Word(data[5], data[6]) <= MaxPayload /\ Word(data[5], data[6]) <= HostLimit
    BY <1>1, <1>10, <2>0, Zenon DEF Valid
  <2>2. Word(data[5], data[6]) \in Int
    <3>1. 5 \in 1..Len(data) /\ 6 \in 1..Len(data)
      BY <1>1, <1>5, SMT DEF HeaderSize
    <3>2. data[5] \in Byte /\ data[6] \in Byte
      BY <1>5, <3>1, ElementOfSeq
    <3>3. data[5] \in Int /\ data[6] \in Int
      BY <3>2 DEF Byte
    <3>. QED BY <3>3 DEF Word
  <2>. QED BY <1>1, <1>5, <2>1, <2>2, LimitsAssumption, SMT DEF HeaderSize, CrcSize
<1>14. Encode(b) = <<Delimiter>> \o Framed(data, 0) /\ Encode(b) \in Seq(Byte)
  <2>1. Delimiter \in Byte
    BY SMT DEF Delimiter, Byte
  <2>2. <<Delimiter>> \in Seq(Byte)
    BY <2>1
  <2>3. Ahead(data, 0) \in Seq(Byte) /\ AllEscaped(data) = Ahead(data, 0)
    <3>1. 0 \in 0..Len(data)
      BY <1>1, <1>5
    <3>. QED BY <1>5, <3>1, AheadBytes, AheadValue
  <2>4. Encode(b) = (<<Delimiter>> \o Ahead(data, 0)) \o <<Delimiter>>
    BY <2>3, Zenon DEF Encode, data
  <2>5. Encode(b) = <<Delimiter>> \o Framed(data, 0)
    BY <2>2, <2>3, <2>4, ConcatAssociative DEF Framed
  <2>6. Framed(data, 0) \in Seq(Byte)
    BY <2>2, <2>3, ConcatProperties DEF Framed
  <2>. QED BY <2>2, <2>5, <2>6, ConcatProperties
<1>15. Valid(data, MaxPayload) /\ Valid(data, HostLimit)
  BY <1>1, <1>12
<1>. QED BY <1>5, <1>9, <1>13, <1>14, <1>15, Zenon DEF data

\* A delimiter within noise, or the one that begins the frame.
LEMMA HostOpens ==
  ASSUME NEW h \in Hosts, h.result = "reading", h.body = <<>>, ~h.escaped
  PROVE  HostIn(HostFeed(h, Delimiter), FALSE, <<>>)
<1>1. CASE h.active
  <2>1. HostFeed(h, Delimiter) = h
    BY <1>1, Zenon DEF HostFeed
  <2>. QED BY <1>1, <2>1 DEF HostIn, Hosts
<1>2. CASE ~h.active
  <2>1. HostFeed(h, Delimiter) = [h EXCEPT !.active = TRUE]
    BY <1>2, Zenon DEF HostFeed
  <2>. QED BY <1>2, <2>1 DEF HostIn, Hosts
<1>. QED BY <1>1, <1>2

\* A delimiter begins a frame, and leaves both receivers at its start.
LEMMA FrameBegins ==
  ASSUME NEW b \in Bodies
  PROVE  /\ Encode(b) \in Seq(Byte) /\ Encode(b) # <<>>
         /\ Head(Encode(b)) = Delimiter
         /\ At(WithCrc(b), Tail(Encode(b)), 0, FALSE)
         /\ \A p : ParserAt(ParserFeed(p, Delimiter), WithCrc(b), 0, FALSE)
         /\ \A h \in Hosts : h.result = "reading" /\ h.body = <<>> /\ ~h.escaped =>
              HostAt(HostFeed(h, Delimiter), WithCrc(b), 0, FALSE)
<1> DEFINE data == WithCrc(b)
<1>1. data \in Seq(Byte) /\ Encode(b) = <<Delimiter>> \o Framed(data, 0)
  BY WholeFrame
<1> HIDE DEF data
<1>2. 0 \in 0..Len(data)
  BY <1>1
<1>3. Framed(data, 0) \in Seq(Byte)
  BY <1>1, <1>2, FramedBytes
<1>4. /\ Encode(b) \in Seq(Byte) /\ Encode(b) # <<>>
      /\ Head(Encode(b)) = Delimiter /\ Tail(Encode(b)) = Framed(data, 0)
  <2>1. Delimiter \in Byte
    BY SMT DEF Delimiter, Byte
  <2>. QED BY <1>1, <1>3, <2>1, ByteBefore
<1>5. SubSeq(data, 1, 0) = <<>>
  BY SubSeqEmpty
<1>6. At(data, Tail(Encode(b)), 0, FALSE)
  BY <1>2, <1>4, Zenon DEF At
<1>7. ASSUME NEW p PROVE ParserAt(ParserFeed(p, Delimiter), data, 0, FALSE)
  <2>1. ParserFeed(p, Delimiter) = Started
    BY Zenon DEF ParserFeed
  <2>. QED BY <1>5, <2>1, ParserStarts, Zenon DEF ParserAt
<1>8. ASSUME NEW h \in Hosts, h.result = "reading", h.body = <<>>, ~h.escaped
      PROVE  HostAt(HostFeed(h, Delimiter), data, 0, FALSE)
  BY <1>5, <1>8, HostOpens, Zenon DEF HostAt
<1>. QED BY <1>4, <1>6, <1>7, <1>8, Zenon DEF data

\* What both receivers make of the closing delimiter.
LEMMA FrameCloses ==
  ASSUME NEW b \in Bodies, NEW p, NEW h, NEW n, NEW open \in BOOLEAN,
         n = Len(WithCrc(b)), ~open
  PROVE  /\ ParserAt(p, WithCrc(b), n, open) =>
              ParserDelivers(p, Delimiter) /\ Body(p.body) = b
         /\ HostAt(h, WithCrc(b), n, open) =>
              /\ HostFeed(h, Delimiter).result = "frame"
              /\ Body(HostFeed(h, Delimiter).body) = b
<1> DEFINE data == WithCrc(b)
<1>1. /\ data \in Seq(Byte) /\ Len(data) > 0
      /\ Valid(data, MaxPayload) /\ Valid(data, HostLimit) /\ Body(data) = b
  BY WholeFrame
<1> HIDE DEF data
<1>2. SubSeq(data, 1, n) = data /\ data # <<>>
  BY <1>1, SubSeqFull DEF data
<1>3. ASSUME ParserAt(p, data, n, open)
      PROVE  ParserDelivers(p, Delimiter) /\ Body(p.body) = b
  <2>1. /\ p.active /\ ~p.escaped /\ ~p.overflow /\ p.body = data
    BY <1>2, <1>3, Zenon DEF ParserAt, ParserIn
  <2>. QED BY <1>1, <2>1, Zenon DEF ParserDelivers
<1>4. ASSUME HostAt(h, data, n, open)
      PROVE  /\ HostFeed(h, Delimiter).result = "frame"
             /\ Body(HostFeed(h, Delimiter).body) = b
  <2>1. /\ h \in Hosts /\ h.active /\ h.result = "reading"
        /\ ~h.escaped /\ h.body = data
    BY <1>2, <1>4, Zenon DEF HostAt, HostIn
  <2>2. HostFeed(h, Delimiter) = [h EXCEPT !.result = "frame"]
    BY <1>1, <1>2, <2>1, Zenon DEF HostFeed
  <2>3. HostFeed(h, Delimiter).result = "frame" /\ HostFeed(h, Delimiter).body = data
    BY <2>1, <2>2 DEF Hosts
  <2>. QED BY <1>1, <2>3
<1>. QED BY <1>3, <1>4 DEF data

FeedParts ==
  /\ frame' = frame /\ noise' = noise /\ wire' = Tail(wire)
  /\ parser' = ParserFeed(parser, Head(wire)) /\ host' = HostFeed(host, Head(wire))
  /\ latest' = ParserDelivers(parser, Head(wire))
  /\ heard' = IF latest' THEN heard \cup {Body(parser.body)} ELSE heard

-----------------------------------------------------------------------------
(***************************************************************************)
(* The frame arrives.  First the noise is read, then the frame, and then   *)
(* it has been heard.                                                      *)
(***************************************************************************)
HostWaits(k) ==
  /\ host \in Hosts /\ host.result = "reading" /\ host.body = <<>> /\ ~host.escaped
  /\ host.active => \E i \in 1..k : noise[i] = Delimiter

InNoise ==
  \E k \in 0..Len(noise) :
    /\ wire = SubSeq(noise, k + 1, Len(noise)) \o Encode(frame)
    /\ Quiet(noise) => HostWaits(k)

InFrame ==
  \E n, open :
    /\ At(WithCrc(frame), wire, n, open)
    /\ ParserAt(parser, WithCrc(frame), n, open)
    /\ Quiet(noise) => HostAt(host, WithCrc(frame), n, open)

Arrived ==
  /\ wire = <<>> /\ latest /\ frame \in heard
  /\ Quiet(noise) => host.result = "frame" /\ Body(host.body) = frame

ArrivalInv ==
  /\ frame \in Bodies /\ noise \in Seq(Byte)
  /\ InNoise \/ InFrame \/ Arrived

LEMMA DamagedBytes == \A d \in Damaged : d \in Seq(Byte)
<1>1. ASSUME NEW b \in Bodies, NEW n \in 0..Len(Encode(b))
      PROVE  SubSeq(Encode(b), 1, n) \in Seq(Byte)
  <2>1. Encode(b) \in Seq(Byte)
    BY WholeFrame
  <2>2. \A i \in 1..n : Encode(b)[i] \in Byte
    BY <2>1, ElementOfSeq
  <2>. QED BY <2>2, SubSeqProperties
<1>2. ASSUME NEW b \in Bodies, NEW n \in 1..Len(Encode(b))
      PROVE  SubSeq(Encode(b), 1, n - 1) \o SubSeq(Encode(b), n + 1, Len(Encode(b)))
               \in Seq(Byte)
  <2> DEFINE e == Encode(b)
  <2>1. e \in Seq(Byte)
    BY WholeFrame
  <2> HIDE DEF e
  <2>2. Len(e) \in Nat /\ \A i \in 1..Len(e) : e[i] \in Byte
    BY <2>1, ElementOfSeq
  <2>3. SubSeq(e, 1, n - 1) \in Seq(Byte) /\ SubSeq(e, n + 1, Len(e)) \in Seq(Byte)
    <3>1. /\ n - 1 \in Int /\ n + 1 \in Int /\ Len(e) \in Int
          /\ \A i \in 1..(n - 1) : i \in 1..Len(e)
          /\ \A i \in (n + 1)..Len(e) : i \in 1..Len(e)
      BY <2>2 DEF e
    <3>2. /\ \A i \in 1..(n - 1) : e[i] \in Byte
          /\ \A i \in (n + 1)..Len(e) : e[i] \in Byte
      BY <2>2, <3>1, Zenon
    <3>. QED BY <3>1, <3>2, SubSeqProperties
  <2>4. SubSeq(e, 1, n - 1) \o SubSeq(e, n + 1, Len(e)) \in Seq(Byte)
    BY <2>3, ConcatProperties
  <2>. QED BY <2>4 DEF e
<1>3. ASSUME NEW b \in Bodies, NEW d \in CutShort(b) PROVE d \in Seq(Byte)
  <2>1. PICK n \in 0..Len(Encode(b)) : d = SubSeq(Encode(b), 1, n)
    BY Zenon DEF CutShort
  <2>. QED BY <1>1, <2>1, Zenon
<1>4. ASSUME NEW b \in Bodies, NEW d \in ByteLost(b) PROVE d \in Seq(Byte)
  <2>1. PICK n \in 1..Len(Encode(b)) :
          d = SubSeq(Encode(b), 1, n - 1) \o SubSeq(Encode(b), n + 1, Len(Encode(b)))
    BY Zenon DEF ByteLost
  <2>. QED BY <1>2, <2>1, Zenon
<1>5. ASSUME NEW d \in Damaged PROVE d \in Noises \/ \E b \in Bodies : d \in CutShort(b) \cup ByteLost(b)
  BY Zenon DEF Damaged
<1>. QED BY <1>3, <1>4, <1>5, NoisesAssumption, Zenon

LEMMA ArrivalInit == CodecInit => ArrivalInv
<1> SUFFICES ASSUME CodecInit PROVE ArrivalInv
  OBVIOUS
<1>1. /\ frame \in Bodies /\ noise \in Damaged /\ wire = noise \o Encode(frame)
      /\ host = HostListening
  BY DEF CodecInit, CodecStart
<1>2. noise \in Seq(Byte)
  BY <1>1, DamagedBytes
<1>3. SubSeq(noise, 0 + 1, Len(noise)) = noise
  BY <1>2, SubSeqFull
<1>4. HostWaits(0)
  BY <1>1, HostStarts, Zenon DEF HostWaits
<1>5. 0 \in 0..Len(noise)
  BY <1>2
<1>. QED BY <1>1, <1>2, <1>3, <1>4, <1>5, Zenon DEF ArrivalInv, InNoise

LEMMA NoiseStep ==
  ASSUME frame \in Bodies, noise \in Seq(Byte), InNoise, Feed
  PROVE  InNoise' \/ InFrame'
<1> DEFINE L == Len(noise)
<1>1. FeedParts
  BY DEF Feed, FeedParts
<1>2. PICK k \in 0..L : /\ wire = SubSeq(noise, k + 1, L) \o Encode(frame)
                        /\ Quiet(noise) => HostWaits(k)
  BY DEF InNoise
<1>3. Encode(frame) \in Seq(Byte)
  BY FrameBegins
<1>4. L \in Nat
  OBVIOUS
<1>5. CASE k = L
  <2>1. wire = Encode(frame)
    <3>1. L \in Int /\ L + 1 \in Int /\ L < L + 1
      BY <1>4
    <3>2. SubSeq(noise, L + 1, L) = <<>>
      BY <3>1, SubSeqEmpty
    <3>. QED BY <1>2, <1>3, <1>5, <3>2, ConcatEmptySeq
  <2>. QED BY <1>1, <1>2, <2>1, FrameBegins, Zenon DEF FeedParts, InFrame, HostWaits
<1>6. CASE k # L
  <2>1. k + 1 \in 1..L /\ k + 1 \in 0..L
    BY <1>4, <1>6
  <2> DEFINE x == noise[k + 1]
             later == SubSeq(noise, (k + 1) + 1, L)
  <2>2. x \in Byte /\ later \in Seq(Byte)
    <3>1. \A i \in ((k + 1) + 1)..L : i \in 1..L
      BY <1>4, <2>1
    <3>2. \A i \in ((k + 1) + 1)..L : noise[i] \in Byte
      BY <3>1, ElementOfSeq
    <3>. QED BY <1>4, <2>1, <3>2, ElementOfSeq, SubSeqProperties
  <2>3. SubSeq(noise, k + 1, L) = <<x>> \o later
    <3>1. L \in (k + 1)..L
      BY <1>4, <2>1
    <3>. QED BY <2>1, <3>1, SubSeqRecursiveFirst
  <2>4. wire = <<x>> \o (later \o Encode(frame)) /\ later \o Encode(frame) \in Seq(Byte)
    <3> HIDE DEF x, later
    <3>1. <<x>> \in Seq(Byte)
      BY <2>2
    <3>2. (<<x>> \o later) \o Encode(frame) = <<x>> \o (later \o Encode(frame))
      BY <1>3, <2>2, <3>1, ConcatAssociative
    <3>3. later \o Encode(frame) \in Seq(Byte)
      BY <1>3, <2>2, ConcatProperties
    <3>. QED BY <1>2, <2>3, <3>2, <3>3, Zenon
  <2>5. Head(wire) = x /\ wire' = later \o Encode(frame)
    <3> HIDE DEF x, later
    <3>. QED BY <1>1, <2>2, <2>4, ByteBefore DEF FeedParts
  <2>6. ASSUME Quiet(noise) PROVE HostWaits(k + 1)'
    <3>1. HostWaits(k)
      BY <1>2, <2>6
    <3>2. host' = HostFeed(host, x)
      BY <1>1, <2>5, Zenon DEF FeedParts
    <3>3. CASE x = Delimiter
      <4>1. HostIn(host', FALSE, <<>>)
        BY <3>1, <3>2, <3>3, HostOpens, Zenon DEF HostWaits
      <4>2. k + 1 \in 1..(k + 1)
        BY <2>1
      <4>. QED BY <1>1, <3>3, <4>1, <4>2, Zenon DEF HostWaits, HostIn, FeedParts
    <3>4. CASE x # Delimiter
      <4>1. ~host.active
        <5>1. SUFFICES ASSUME host.active PROVE FALSE
          OBVIOUS
        <5>2. PICK i \in 1..k : noise[i] = Delimiter
          BY <3>1, <5>1 DEF HostWaits
        <5>3. i \in 1..L /\ i < k + 1
          BY <1>4, <2>1
        <5>. QED BY <2>1, <2>6, <3>4, <5>2, <5>3 DEF Quiet
      <4>2. HostFeed(host, x) = host
        BY <3>1, <3>4, <4>1, Zenon DEF HostFeed, HostWaits
      <4>. QED BY <1>1, <3>1, <3>2, <4>1, <4>2, Zenon DEF HostWaits, FeedParts
    <3>. QED BY <3>3, <3>4
  <2>7. InNoise'
    <3> HIDE DEF x, later
    <3>. QED BY <1>1, <2>1, <2>5, <2>6, Zenon DEF InNoise, FeedParts, later
  <2>. QED BY <2>7
<1>. QED BY <1>5, <1>6

LEMMA FrameStep ==
  ASSUME frame \in Bodies, InFrame, Feed
  PROVE  InFrame' \/ Arrived'
<1> DEFINE data == WithCrc(frame)
<1>1. FeedParts
  BY DEF Feed, FeedParts
<1>2. /\ data \in Seq(Byte) /\ Len(data) <= HeaderSize + MaxPayload + CrcSize
      /\ Len(data) <= HeaderSize + HostLimit + CrcSize
  BY WholeFrame
<1>3. PICK n, open : /\ At(data, wire, n, open)
                     /\ ParserAt(parser, data, n, open)
                     /\ Quiet(noise) => HostAt(host, data, n, open)
  BY Zenon DEF InFrame
<1>4. Closes(data, wire, n, open) \/ Advances(data, wire, n, open)
  BY <1>2, <1>3, NextByte
<1>5. CASE Closes(data, wire, n, open)
  <2>1. /\ Head(wire) = Delimiter /\ wire' = <<>> /\ n = Len(data)
        /\ ~open /\ open \in BOOLEAN
    BY <1>1, <1>3, <1>5, Zenon DEF Closes, At, FeedParts
  <2>2. latest' /\ Body(parser.body) = frame
    BY <1>1, <1>3, <2>1, FrameCloses, Zenon DEF FeedParts
  <2>3. frame \in heard'
    BY <1>1, <2>2, Zenon DEF FeedParts
  <2>4. Quiet(noise) => host'.result = "frame" /\ Body(host'.body) = frame
    BY <1>1, <1>3, <2>1, FrameCloses, Zenon DEF FeedParts
  <2>. QED BY <1>1, <2>1, <2>2, <2>3, <2>4, Zenon DEF Arrived, FeedParts
<1>6. CASE Advances(data, wire, n, open)
  <2>1. PICK m, o :
          /\ At(data, Tail(wire), m, o)
          /\ ParserAt(ParserFeed(parser, Head(wire)), data, m, o)
          /\ HostAt(host, data, n, open) => HostAt(HostFeed(host, Head(wire)), data, m, o)
    BY <1>2, <1>3, <1>6, Zenon DEF Advances
  <2>. QED BY <1>1, <1>3, <2>1, Zenon DEF InFrame, FeedParts
<1>. QED BY <1>4, <1>5, <1>6

LEMMA ArrivalStep == ArrivalInv /\ [Feed]_codecVars => ArrivalInv'
<1> SUFFICES ASSUME ArrivalInv, [Feed]_codecVars PROVE ArrivalInv'
  OBVIOUS
<1>1. CASE Feed
  <2>1. frame' = frame /\ noise' = noise /\ wire # <<>>
    BY <1>1 DEF Feed
  <2>2. ~Arrived
    BY <2>1 DEF Arrived
  <2>. QED BY <1>1, <2>1, <2>2, NoiseStep, FrameStep, Zenon DEF ArrivalInv
<1>2. CASE UNCHANGED codecVars
  <2>1. /\ wire' = wire /\ frame' = frame /\ noise' = noise /\ parser' = parser
        /\ heard' = heard /\ latest' = latest /\ host' = host
    BY <1>2 DEF codecVars
  <2>. QED BY <2>1, Zenon DEF ArrivalInv, InNoise, InFrame, Arrived, HostWaits
<1>. QED BY <1>1, <1>2

\* Once the line is empty the Pico's parser has just delivered the frame that came
\* behind the noise (p2wp_parser_feed), and the cartridge has it too unless the
\* noise had begun a frame for it (receive_frame).
THEOREM FrameAlwaysArrives == CodecSpec => []FrameArrives
<1>1. ArrivalInv => FrameArrives
  <2> SUFFICES ASSUME ArrivalInv, wire = <<>> PROVE Arrived
    BY Zenon DEF FrameArrives, Arrived
  <2>1. ~InFrame
    <3>1. ASSUME NEW n, NEW open, At(WithCrc(frame), wire, n, open) PROVE FALSE
      BY <3>1, NextByte, WholeFrame DEF ArrivalInv
    <3>. QED BY <3>1 DEF InFrame
  <2>2. ~InNoise
    <3> DEFINE L == Len(noise)
    <3>1. ASSUME NEW k \in 0..L, wire = SubSeq(noise, k + 1, L) \o Encode(frame)
          PROVE  FALSE
      <4>1. frame \in Bodies /\ noise \in Seq(Byte) /\ L \in Nat
        BY DEF ArrivalInv
      <4>2. Encode(frame) \in Seq(Byte) /\ Encode(frame) # <<>>
        BY <4>1, FrameBegins
      <4>3. \A i \in (k + 1)..L : i \in 1..L
        BY <4>1
      <4>4. \A i \in (k + 1)..L : noise[i] \in Byte
        BY <4>1, <4>3, ElementOfSeq
      <4>5. SubSeq(noise, k + 1, L) \in Seq(Byte)
        BY <4>1, <4>4, SubSeqProperties
      <4>. QED BY <3>1, <4>2, <4>5, ConcatEqualIffEmpty
    <3>. QED BY <3>1, Zenon DEF InNoise
  <2>. QED BY <2>1, <2>2 DEF ArrivalInv
<1>. QED BY <1>1, ArrivalInit, ArrivalStep, PTL DEF CodecSpec

-----------------------------------------------------------------------------
(***************************************************************************)
(* A frame cut short.                                                      *)
(***************************************************************************)

\* The length in the header gives it away.
LEMMA PartOfFrame ==
  ASSUME NEW b \in Bodies, NEW n \in 0..(Len(WithCrc(b)) - 1), NEW limit
  PROVE  ~Valid(SubSeq(WithCrc(b), 1, n), limit)
<1> DEFINE data == WithCrc(b)
           part == SubSeq(data, 1, n)
<1>1. data \in Seq(Byte) /\ Valid(data, MaxPayload)
  BY WholeFrame
<1> HIDE DEF data
<1>2. Len(data) \in Nat /\ n \in Nat /\ n < Len(data)
  BY <1>1 DEF data
<1>3. Len(part) = n /\ \A i \in 1..n : part[i] = data[i]
  <2>1. \A i \in 1..n : i \in 1..Len(data)
    BY <1>2
  <2>2. \A i \in 1..n : data[i] \in Byte
    BY <1>1, <2>1, ElementOfSeq
  <2>3. /\ Len(part) = IF 1 <= n THEN n - 1 + 1 ELSE 0
        /\ \A i \in 1 .. n - 1 + 1 : part[i] = data[1 + i - 1]
    BY <1>2, <2>2, SubSeqProperties
  <2>. QED BY <1>2, <2>3
<1> HIDE DEF part
<1>4. SUFFICES ASSUME Valid(part, limit) PROVE FALSE
  BY DEF part, data
<1>5. n >= HeaderSize + CrcSize /\ n = HeaderSize + Word(part[5], part[6]) + CrcSize
  BY <1>3, <1>4, Zenon DEF Valid
<1>6. part[5] = data[5] /\ part[6] = data[6]
  <2>1. 5 \in 1..n /\ 6 \in 1..n
    BY <1>2, <1>5, SMT DEF HeaderSize, CrcSize
  <2>. QED BY <1>3, <2>1
<1>7. Len(data) = HeaderSize + Word(data[5], data[6]) + CrcSize
  BY <1>1, Zenon DEF Valid
<1>8. n = Len(data)
  BY <1>5, <1>6, <1>7, Zenon
<1>. QED BY <1>2, <1>8

\* Whatever the checksum, neither end takes the beginning of a frame, and what
\* comes after it, for a frame of its own.  The cartridge keeps an escape over an
\* empty frame, so it may misread the frame that follows one cut off in the
\* escape of its first byte; that byte is the version, which needs no escape.
CutFrameUnheard ==
  \A b \in Bodies :
    noise \in CutShort(b) =>
      /\ heard \subseteq {b, frame}
      /\ b[1] \notin {Delimiter, Escape} /\ host.result = "frame" =>
           Body(host.body) \in {b, frame}

Plain(b) == b[1] \notin {Delimiter, Escape}

\* The cartridge has given up, or has one of the frames sent.
HostDone(b) ==
  /\ host.result # "reading"
  /\ host.result = "frame" => Body(host.body) \in {b, frame}

InCut(b) ==
  \E rest \in Seq(Byte) : \E c \in 0..Len(rest) :
    /\ wire = SubSeq(rest, 1, c) \o Encode(frame)
    /\ \/ /\ rest = Encode(b) /\ heard = {}
          /\ parser = Listening /\ host = HostListening
       \/ \E n, open :
            /\ At(WithCrc(b), rest, n, open) /\ heard = {}
            /\ ParserAt(parser, WithCrc(b), n, open)
            /\ HostAt(host, WithCrc(b), n, open)
       \/ /\ rest = <<>> /\ heard = {b} /\ parser = Started
          /\ HostDone(b)

BehindCut(b) ==
  \E n, open :
    /\ At(WithCrc(frame), wire, n, open) /\ heard \subseteq {b}
    /\ ParserAt(parser, WithCrc(frame), n, open)
    /\ Plain(b) => HostDone(b) \/ HostAt(host, WithCrc(frame), n, open)

CutRead(b) ==
  wire = <<>> /\ heard \subseteq {b, frame} /\ (Plain(b) => HostDone(b))

CutInv(b) == frame \in Bodies /\ (InCut(b) \/ BehindCut(b) \/ CutRead(b))

\* receive_frame reads no further once it has a result.
LEMMA HostStaysDone ==
  ASSUME NEW b, HostDone(b), Feed
  PROVE  HostDone(b)'
<1>1. host' = HostFeed(host, Head(wire)) /\ frame' = frame
  BY DEF Feed
<1>2. HostFeed(host, Head(wire)) = host
  BY Zenon DEF HostFeed, HostDone
<1>. QED BY <1>1, <1>2, Zenon DEF HostDone

LEMMA CutInit ==
  ASSUME NEW b \in Bodies, CodecInit, noise \in CutShort(b)
  PROVE  CutInv(b)
<1>1. /\ frame \in Bodies /\ wire = noise \o Encode(frame)
      /\ heard = {} /\ parser = Listening /\ host = HostListening
  BY DEF CodecInit, CodecStart
<1>2. PICK c \in 0..Len(Encode(b)) : noise = SubSeq(Encode(b), 1, c)
  BY DEF CutShort
<1>3. Encode(b) \in Seq(Byte)
  BY WholeFrame
<1>. QED BY <1>1, <1>2, <1>3, Zenon DEF CutInv, InCut

\* The delimiter of the next frame ends the part that has been read.
LEMMA CutEnds ==
  ASSUME NEW b \in Bodies, NEW rest, NEW n, NEW open, At(WithCrc(b), rest, n, open)
  PROVE  /\ \A p : ParserAt(p, WithCrc(b), n, open) /\ ParserDelivers(p, Delimiter) =>
              Body(p.body) = b
         /\ Plain(b) => \A h : HostAt(h, WithCrc(b), n, open) =>
              \/ h.body = <<>> /\ ~h.escaped
              \/ /\ HostFeed(h, Delimiter).result # "reading"
                 /\ HostFeed(h, Delimiter).result = "frame" =>
                      Body(HostFeed(h, Delimiter).body) = b
<1> DEFINE data == WithCrc(b)
<1>1. data \in Seq(Byte) /\ Len(data) \in Nat /\ Len(data) > 0
  BY WholeFrame
<1>2. n \in 0..Len(data) /\ open \in BOOLEAN /\ (open => n < Len(data))
  BY DEF At
<1>3. ASSUME n # Len(data), NEW limit PROVE ~Valid(SubSeq(data, 1, n), limit)
  <2>1. n \in 0..(Len(data) - 1)
    BY <1>1, <1>2, <1>3
  <2>. QED BY <2>1, PartOfFrame
<1>4. ASSUME n = Len(data)
      PROVE  /\ ~open
             /\ \A p : ParserAt(p, data, n, open) => Body(p.body) = b
             /\ \A h : HostAt(h, data, n, open) =>
                  /\ HostFeed(h, Delimiter).result = "frame"
                  /\ Body(HostFeed(h, Delimiter).body) = b
  <2>1. ~open
    BY <1>1, <1>2, <1>4
  <2>. QED BY <1>2, <1>4, <2>1, FrameCloses
<1>5. n = 0 /\ open => ~Plain(b)
  <2>1. SUFFICES ASSUME n = 0, open PROVE b[1] \in {Delimiter, Escape}
    BY DEF Plain
  <2>2. data[1] \in {Delimiter, Escape}
    BY <2>1 DEF At
  <2>3. data[1] = b[1]
    <3> DEFINE ends == <<Crc16(b) % 256, Crc16(b) \div 256>>
               L == Len(b)
    <3>1. b \in Seq(Byte) /\ L >= HeaderSize /\ b = Body(data)
      BY BodiesAssumption, WholeFrame, Zenon
    <3>2. L \in Nat /\ L >= 1
      BY <3>1, SMT DEF HeaderSize
    <3>3. b = SubSeq(data, 1, Len(data) - CrcSize)
      BY <3>1, Zenon DEF Body
    <3> HIDE DEF data
    <3>4. Len(data) - CrcSize \in Int /\ \A i \in 1..(Len(data) - CrcSize) : i \in 1..Len(data)
      BY <1>1, SMT DEF CrcSize
    <3>5. \A i \in 1..(Len(data) - CrcSize) : data[i] \in Byte
      BY <1>1, <3>4, ElementOfSeq
    <3> DEFINE m == Len(data) - CrcSize
    <3>6. /\ Len(SubSeq(data, 1, m)) = IF 1 <= m THEN m - 1 + 1 ELSE 0
          /\ \A i \in 1 .. m - 1 + 1 : SubSeq(data, 1, m)[i] = data[1 + i - 1]
      BY <3>4, <3>5, SubSeqProperties
    <3> HIDE DEF m
    <3>7. m \in Int /\ Len(SubSeq(data, 1, m)) = L /\ b[1] = SubSeq(data, 1, m)[1]
      BY <3>3, <3>4, Zenon DEF m
    <3>8. 1 \in 1..(m - 1 + 1) /\ 1 + 1 - 1 = 1
      BY <3>2, <3>6, <3>7
    <3>. QED BY <3>6, <3>7, <3>8
  <2>. QED BY <2>2, <2>3
<1>6. ASSUME NEW p, ParserAt(p, data, n, open), ParserDelivers(p, Delimiter)
      PROVE  Body(p.body) = b
  <2>1. Valid(SubSeq(data, 1, n), MaxPayload)
    BY <1>6, Zenon DEF ParserAt, ParserIn, ParserDelivers
  <2>. QED BY <1>3, <1>4, <1>6, <2>1, Zenon
<1>7. ASSUME Plain(b), NEW h, HostAt(h, data, n, open)
      PROVE  \/ h.body = <<>> /\ ~h.escaped
             \/ /\ HostFeed(h, Delimiter).result # "reading"
                /\ HostFeed(h, Delimiter).result = "frame" =>
                     Body(HostFeed(h, Delimiter).body) = b
  <2>1. /\ h \in Hosts /\ h.active /\ h.result = "reading"
        /\ h.escaped = open /\ h.body = SubSeq(data, 1, n)
    BY <1>7, Zenon DEF HostAt, HostIn
  <2>2. CASE n = 0
    <3>1. SubSeq(data, 1, n) = <<>>
      BY <2>2, SubSeqEmpty
    <3>. QED BY <1>2, <1>5, <1>7, <2>1, <2>2, <3>1, Zenon
  <2>3. CASE n = Len(data)
    BY <1>4, <1>7, <2>3
  <2>4. CASE n # 0 /\ n # Len(data)
    <3>1. ~Valid(h.body, HostLimit)
      BY <1>3, <2>1, <2>4, Zenon
    <3>2. h.body # <<>>
      <4>1. n \in 0..(Len(data) - 1)
        BY <1>1, <1>2, <2>4
      <4>2. Len(SubSeq(data, 1, n)) = n
        BY <1>1, <4>1, TakenFurther
      <4>. QED BY <2>1, <2>4, <4>2, EmptySeq
    <3>3. HostFeed(h, Delimiter) = [h EXCEPT !.result = "malformed"]
      BY <2>1, <3>1, <3>2, Zenon DEF HostFeed
    <3>4. HostFeed(h, Delimiter).result = "malformed"
      BY <2>1, <3>3 DEF Hosts
    <3>. QED BY <3>4
  <2>. QED BY <2>2, <2>3, <2>4
<1>. QED BY <1>6, <1>7, Zenon

LEMMA CutStep ==
  ASSUME NEW b \in Bodies, frame \in Bodies, InCut(b), Feed
  PROVE  InCut(b)' \/ BehindCut(b)'
<1> DEFINE data == WithCrc(b)
           Unread(rest) == rest = Encode(b) /\ heard = {}
                           /\ parser = Listening /\ host = HostListening
           Read(rest) == \E n, open :
                           /\ At(data, rest, n, open) /\ heard = {}
                           /\ ParserAt(parser, data, n, open) /\ HostAt(host, data, n, open)
           Whole(rest) == rest = <<>> /\ heard = {b} /\ parser = Started /\ HostDone(b)
<1>1. FeedParts
  BY DEF Feed, FeedParts
<1>2. PICK rest \in Seq(Byte) : \E c \in 0..Len(rest) :
        /\ wire = SubSeq(rest, 1, c) \o Encode(frame)
        /\ Unread(rest) \/ Read(rest) \/ Whole(rest)
  BY Zenon DEF InCut
<1>6. PICK c \in 0..Len(rest) :
        /\ wire = SubSeq(rest, 1, c) \o Encode(frame)
        /\ Unread(rest) \/ Read(rest) \/ Whole(rest)
  BY <1>2
<1>3. /\ data \in Seq(Byte) /\ Len(data) <= HeaderSize + MaxPayload + CrcSize
      /\ Len(data) <= HeaderSize + HostLimit + CrcSize /\ Len(data) > 0
  BY WholeFrame
<1>4. CASE c = 0
  <2>1. wire = Encode(frame)
    <3>1. SubSeq(rest, 1, c) = <<>>
      BY <1>4, SubSeqEmpty
    <3>2. Encode(frame) \in Seq(Byte)
      BY WholeFrame
    <3>. QED BY <1>6, <3>1, <3>2, ConcatEmptySeq
  <2>2. /\ Head(wire) = Delimiter
        /\ At(WithCrc(frame), wire', 0, FALSE)
        /\ ParserAt(parser', WithCrc(frame), 0, FALSE)
        /\ host \in Hosts /\ host.result = "reading" /\ host.body = <<>> /\ ~host.escaped =>
             HostAt(host', WithCrc(frame), 0, FALSE)
    BY <1>1, <2>1, FrameBegins, Zenon DEF FeedParts
  <2>3. heard' \subseteq {b} /\ (Plain(b) => HostDone(b)' \/ HostAt(host', WithCrc(frame), 0, FALSE))
    <3>1. CASE Unread(rest)
      <4>1. ~ParserDelivers(parser, Delimiter)
        BY <3>1 DEF ParserDelivers, Listening
      <4>2. heard' = {}
        BY <1>1, <2>2, <3>1, <4>1, Zenon DEF FeedParts
      <4>. QED BY <2>2, <3>1, <4>2, HostStarts, Zenon
    <3>2. CASE Read(rest)
      <4>1. PICK n, open : /\ At(data, rest, n, open) /\ heard = {}
                           /\ ParserAt(parser, data, n, open) /\ HostAt(host, data, n, open)
        BY <3>2
      <4>2. ParserDelivers(parser, Delimiter) => Body(parser.body) = b
        BY <4>1, CutEnds
      <4>3. heard' \subseteq {b}
        BY <1>1, <2>2, <4>1, <4>2, Zenon DEF FeedParts
      <4>4. ASSUME Plain(b) PROVE HostDone(b)' \/ HostAt(host', WithCrc(frame), 0, FALSE)
        <5>1. \/ host.body = <<>> /\ ~host.escaped
              \/ /\ HostFeed(host, Delimiter).result # "reading"
                 /\ HostFeed(host, Delimiter).result = "frame" =>
                      Body(HostFeed(host, Delimiter).body) = b
          BY <4>1, <4>4, CutEnds
        <5>2. host \in Hosts /\ host.result = "reading"
          BY <4>1, Zenon DEF HostAt, HostIn
        <5>. QED BY <1>1, <2>2, <5>1, <5>2, Zenon DEF FeedParts, HostDone
      <4>. QED BY <4>3, <4>4
    <3>3. CASE Whole(rest)
      <4>1. ~ParserDelivers(parser, Delimiter)
        <5>1. 0 \in 0..(Len(WithCrc(b)) - 1) /\ SubSeq(WithCrc(b), 1, 0) = <<>>
          BY <1>3, SubSeqEmpty
        <5>2. ~Valid(<<>>, MaxPayload)
          BY <5>1, PartOfFrame
        <5>. QED BY <3>3, <5>2, ParserStarts, Zenon DEF ParserDelivers, ParserIn
      <4>2. heard' = {b}
        BY <1>1, <2>2, <3>3, <4>1, Zenon DEF FeedParts
      <4>. QED BY <3>3, <4>2, HostStaysDone
    <3>. QED BY <1>6, <3>1, <3>2, <3>3
  <2>. QED BY <1>1, <2>2, <2>3, Zenon DEF BehindCut, FeedParts
<1>5. CASE c # 0
  <2>1. /\ rest # <<>> /\ Head(wire) = Head(rest) /\ Tail(rest) \in Seq(Byte)
        /\ c - 1 \in 0..Len(Tail(rest))
        /\ wire' = SubSeq(Tail(rest), 1, c - 1) \o Encode(frame)
    <3> DEFINE x == Head(rest)
               part == SubSeq(Tail(rest), 1, c - 1)
    <3>1. rest # <<>> /\ c \in 1..Len(rest) /\ Len(rest) \in 1..Len(rest) /\ 1 \in 1..Len(rest)
      BY <1>5
    <3>2. /\ x \in Byte /\ Tail(rest) \in Seq(Byte) /\ Len(Tail(rest)) = Len(rest) - 1
          /\ c - 1 \in 0..Len(Tail(rest))
      BY <3>1, HeadTailProperties
    <3>3. SubSeq(rest, 1, c) = <<x>> \o part
      <4>1. \A i \in 1..c : i \in 1..Len(rest)
        BY <3>1
      <4>2. \A i \in 1..c : rest[i] \in Byte
        BY <4>1, ElementOfSeq
      <4>3. SubSeq(rest, 1, c) = <<rest[1]>> \o SubSeq(rest, 1 + 1, c)
        BY <3>1, SubSeqRecursiveFirst
      <4>4. SubSeq(rest, 2, c) = part
        BY <3>1, <3>2
      <4>. QED BY <3>1, <4>3, <4>4
    <3>4. part \in Seq(Byte) /\ Encode(frame) \in Seq(Byte)
      <4>1. \A i \in 1..(c - 1) : i \in 1..Len(Tail(rest))
        BY <3>2
      <4>2. \A i \in 1..(c - 1) : Tail(rest)[i] \in Byte
        BY <3>2, <4>1, ElementOfSeq
      <4>. QED BY <4>2, SubSeqProperties, WholeFrame
    <3> HIDE DEF x, part
    <3>5. wire = <<x>> \o (part \o Encode(frame)) /\ part \o Encode(frame) \in Seq(Byte)
      <4>1. <<x>> \in Seq(Byte)
        BY <3>2
      <4>2. (<<x>> \o part) \o Encode(frame) = <<x>> \o (part \o Encode(frame))
        BY <3>4, <4>1, ConcatAssociative
      <4>3. part \o Encode(frame) \in Seq(Byte)
        BY <3>4, ConcatProperties
      <4>. QED BY <1>6, <3>3, <4>2, <4>3, Zenon
    <3>6. Head(wire) = x /\ Tail(wire) = part \o Encode(frame)
      BY <3>2, <3>5, ByteBefore
    <3>. QED BY <1>1, <3>1, <3>2, <3>6, Zenon DEF FeedParts, x, part
  <2>2. Read(Tail(rest))' \/ Whole(Tail(rest))'
    <3>1. CASE Unread(rest)
      <4>1. /\ Head(wire) = Delimiter /\ At(data, Tail(rest), 0, FALSE)
            /\ ParserAt(parser', data, 0, FALSE) /\ HostAt(host', data, 0, FALSE)
        BY <1>1, <2>1, <3>1, FrameBegins, HostStarts, Zenon DEF FeedParts
      <4>2. ~ParserDelivers(parser, Delimiter)
        BY <3>1 DEF ParserDelivers, Listening
      <4>3. heard' = {}
        BY <1>1, <3>1, <4>1, <4>2, Zenon DEF FeedParts
      <4>. QED BY <4>1, <4>3, Zenon
    <3>2. CASE Read(rest)
      <4>1. PICK n, open : /\ At(data, rest, n, open) /\ heard = {}
                           /\ ParserAt(parser, data, n, open) /\ HostAt(host, data, n, open)
        BY <3>2
      <4>2. Closes(data, rest, n, open) \/ Advances(data, rest, n, open)
        BY <1>3, <4>1, NextByte
      <4>3. CASE Closes(data, rest, n, open)
        <5>1. /\ Head(wire) = Delimiter /\ Tail(rest) = <<>> /\ n = Len(data)
              /\ ~open /\ open \in BOOLEAN
          BY <2>1, <4>1, <4>3, Zenon DEF Closes, At
        <5>2. /\ ParserDelivers(parser, Delimiter) /\ Body(parser.body) = b
              /\ HostFeed(host, Delimiter).result = "frame"
              /\ Body(HostFeed(host, Delimiter).body) = b
          BY <4>1, <5>1, FrameCloses, Zenon
        <5>3. heard' = {b} /\ HostDone(b)'
          <6>1. host'.result = "frame" /\ Body(host'.body) = b
            BY <1>1, <5>1, <5>2, Zenon DEF FeedParts
          <6>2. heard' = {b}
            BY <1>1, <4>1, <5>1, <5>2, Zenon DEF FeedParts
          <6>. QED BY <6>1, <6>2 DEF HostDone
        <5>4. parser' = Started
          BY <1>1, <5>1, Zenon DEF FeedParts, ParserFeed
        <5>. QED BY <5>1, <5>3, <5>4, Zenon
      <4>4. CASE Advances(data, rest, n, open)
        <5>1. PICK m, o :
                /\ At(data, Tail(rest), m, o)
                /\ ParserAt(ParserFeed(parser, Head(rest)), data, m, o)
                /\ HostAt(HostFeed(host, Head(rest)), data, m, o)
          BY <1>3, <4>1, <4>4, Zenon DEF Advances
        <5>2. Head(wire) # Delimiter
          BY <2>1, <4>4, Zenon DEF Advances
        <5>3. heard' = {}
          BY <1>1, <4>1, <5>2, Zenon DEF FeedParts, ParserDelivers
        <5>. QED BY <1>1, <2>1, <5>1, <5>3, Zenon DEF FeedParts
      <4>. QED BY <4>2, <4>3, <4>4
    <3>3. CASE Whole(rest)
      BY <2>1, <3>3
    <3>. QED BY <1>6, <3>1, <3>2, <3>3
  <2>3. InCut(b)'
    BY <1>1, <2>1, <2>2, Zenon DEF InCut, FeedParts
  <2>. QED BY <2>3
<1>. QED BY <1>4, <1>5

LEMMA BehindStep ==
  ASSUME NEW b \in Bodies, frame \in Bodies, BehindCut(b), Feed
  PROVE  BehindCut(b)' \/ CutRead(b)'
<1> DEFINE data == WithCrc(frame)
<1>1. FeedParts
  BY DEF Feed, FeedParts
<1>2. PICK n, open : /\ At(data, wire, n, open) /\ heard \subseteq {b}
                     /\ ParserAt(parser, data, n, open)
                     /\ Plain(b) => HostDone(b) \/ HostAt(host, data, n, open)
  BY Zenon DEF BehindCut
<1>3. /\ data \in Seq(Byte) /\ Len(data) <= HeaderSize + MaxPayload + CrcSize
      /\ Len(data) <= HeaderSize + HostLimit + CrcSize
  BY WholeFrame
<1>4. Closes(data, wire, n, open) \/ Advances(data, wire, n, open)
  BY <1>2, <1>3, NextByte
<1>5. HostDone(b) => HostDone(b)'
  BY HostStaysDone
<1>6. CASE Closes(data, wire, n, open)
  <2>1. Head(wire) = Delimiter /\ wire' = <<>> /\ n = Len(data) /\ ~open /\ open \in BOOLEAN
    BY <1>1, <1>2, <1>6, Zenon DEF Closes, At, FeedParts
  <2>2. Body(parser.body) = frame
    BY <1>2, <2>1, FrameCloses, Zenon
  <2>3. heard' \subseteq {b, frame}
    BY <1>1, <1>2, <2>2, Zenon DEF FeedParts
  <2>4. ASSUME HostAt(host, data, n, open) PROVE HostDone(b)'
    <3>1. host'.result = "frame" /\ Body(host'.body) = frame /\ frame' = frame
      BY <1>1, <2>1, <2>4, FrameCloses, Zenon DEF FeedParts
    <3>. QED BY <3>1 DEF HostDone
  <2>. QED BY <1>1, <1>2, <1>5, <2>1, <2>3, <2>4, Zenon DEF CutRead, FeedParts
<1>7. CASE Advances(data, wire, n, open)
  <2>1. PICK m, o :
          /\ At(data, Tail(wire), m, o)
          /\ ParserAt(ParserFeed(parser, Head(wire)), data, m, o)
          /\ HostAt(host, data, n, open) => HostAt(HostFeed(host, Head(wire)), data, m, o)
    BY <1>2, <1>3, <1>7, Zenon DEF Advances
  <2>2. Head(wire) # Delimiter
    BY <1>7, Zenon DEF Advances
  <2>3. heard' = heard
    BY <1>1, <2>2, Zenon DEF FeedParts, ParserDelivers
  <2>. QED BY <1>1, <1>2, <1>5, <2>1, <2>3, Zenon DEF BehindCut, FeedParts
<1>. QED BY <1>4, <1>6, <1>7

LEMMA CutInvStep ==
  ASSUME NEW b \in Bodies, CutInv(b), [Feed]_codecVars
  PROVE  CutInv(b)'
<1>1. CASE Feed
  <2>1. frame' = frame /\ wire # <<>>
    BY <1>1 DEF Feed
  <2>. QED BY <1>1, <2>1, CutStep, BehindStep DEF CutInv, CutRead
<1>2. CASE UNCHANGED codecVars
  <2>1. /\ wire' = wire /\ frame' = frame /\ noise' = noise /\ parser' = parser
        /\ heard' = heard /\ latest' = latest /\ host' = host
    BY <1>2 DEF codecVars
  <2>. QED BY <2>1, Zenon DEF CutInv, InCut, BehindCut, CutRead, HostDone
<1>. QED BY <1>1, <1>2

\* After a frame that was cut off anywhere, the Pico hears at most that frame, whole,
\* and the one that follows it, and so does the cartridge: the length in the header
\* gives the rest away (decode_body, receive_frame).
THEOREM CutFrameIsUnheard == CodecSpec => []CutFrameUnheard
<1> DEFINE Inv == \A b \in Bodies : noise \in CutShort(b) => CutInv(b)
<1>1. CodecInit => Inv
  BY CutInit
<1>2. Inv /\ [Feed]_codecVars => Inv'
  <2>1. [Feed]_codecVars => noise' = noise
    BY DEF Feed, codecVars
  <2>2. \A b : CutShort(b)' = CutShort(b)
    OBVIOUS
  <2>. QED BY <2>1, CutInvStep
<1>3. Inv => CutFrameUnheard
  <2> SUFFICES ASSUME NEW b \in Bodies, CutInv(b)
               PROVE  /\ heard \subseteq {b, frame}
                      /\ b[1] \notin {Delimiter, Escape} /\ host.result = "frame" =>
                           Body(host.body) \in {b, frame}
    BY DEF CutFrameUnheard
  <2>1. ASSUME NEW f, NEW n, NEW open, HostAt(host, WithCrc(f), n, open)
        PROVE  host.result # "frame"
    BY <2>1 DEF HostAt, HostIn
  <2>2. CASE InCut(b)
    BY <2>1, <2>2, HostStarts DEF InCut, HostDone
  <2>3. CASE BehindCut(b)
    BY <2>1, <2>3, Zenon DEF BehindCut, HostDone, Plain
  <2>4. CASE CutRead(b)
    BY <2>4, Zenon DEF CutRead, HostDone, Plain
  <2>. QED BY <2>2, <2>3, <2>4 DEF CutInv
<1>. QED BY <1>1, <1>2, <1>3, PTL DEF CodecSpec
=============================================================================
