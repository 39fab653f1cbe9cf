---- MODULE BmsLinkProofs ----
(* Proofs about BmsLink, for every length of the long frames, every size of  *)
(* the fragments, every number of requests, connections and losses. What the *)
(* functions of the code do byte after byte is a recursive function here;    *)
(* the well-ordering of its positions takes the place of induction.          *)
EXTENDS BmsLink, SequenceTheorems, WellFoundedInduction, TLAPS

------------------------------------------------------------------------------
LEMMA Least ==
    ASSUME NEW T, T \subseteq Nat, T # {}
    PROVE  \E m \in T : \A n \in T : m <= n
<1>1. PICK m \in T : \A n \in T : ~ (<<n, m>> \in OpToRel(<, Nat))
    BY NatLessThanWellFounded, WFMin
<1>2. ASSUME NEW n \in T PROVE m <= n
    <2>1. ~ (n < m)
        BY <1>1 DEF OpToRel
    <2> QED BY <2>1
<1> QED BY <1>2

LEMMA Induct ==
    ASSUME NEW T, 0 \in T, \A n \in Nat : n \in T => n + 1 \in T
    PROVE  Nat \subseteq T
<1> SUFFICES ASSUME Nat \ T # {} PROVE FALSE
    OBVIOUS
<1>1. PICK m \in Nat \ T : \A n \in Nat \ T : m <= n
    BY Least
<1>2. m # 0 /\ m - 1 \in Nat
    BY <1>1
<1>3. m - 1 \in T
    BY <1>1, <1>2
<1>4. (m - 1) + 1 \in T
    BY <1>2, <1>3
<1> QED BY <1>1, <1>4

LEMMA Inside ==
    ASSUME NEW m \in Nat, NEW a \in Nat, NEW z \in Nat, NEW x \in 1 .. z, a + z <= m
    PROVE  a + x \in 1 .. m
OBVIOUS

LEMMA ConstantFacts == /\ MaxRequests \in Nat /\ MaxSessions \in Nat /\ MaxLosses \in Nat
                       /\ LongPayload \in Nat /\ FragmentSize \in Nat /\ FragmentSize >= 3
                       /\ FragmentSize <= 4 + LongPayload
BY BmsLinkAssumption

LEMMA FunctionIsSequence ==
    ASSUME NEW S, NEW n \in Nat, NEW q \in [1 .. n -> S]
    PROVE  q \in Seq(S) /\ Len(q) = n
OBVIOUS

LEMMA Joined ==
    ASSUME NEW S, NEW a \in Seq(S), NEW b \in Seq(S)
    PROVE  /\ a \o b \in Seq(S) /\ Len(a \o b) = Len(a) + Len(b)
           /\ \A i \in 1 .. Len(a) + Len(b) : (a \o b)[i] = IF i <= Len(a) THEN a[i] ELSE b[i - Len(a)]
BY ConcatProperties

------------------------------------------------------------------------------
(* Frames.                                                                   *)
Kinds == {"sof0", "sof1", "head", "data", "crc"}
Tokens == [kind : Kinds, frame : Nat, of : {"any", "request", "answer"}, n : Nat]

PayloadOf(of, command) == IF (of = "request") = (command = "write") THEN LongPayload ELSE 0

LEMMA EncodeFacts ==
    ASSUME NEW of \in {"request", "answer"}, NEW id \in Nat, NEW command,
           NEW length, length = PayloadOf(of, command)
    PROVE  /\ length \in Nat /\ length <= LongPayload
           /\ Encode(of, id, command) \in Seq(Tokens) /\ Len(Encode(of, id, command)) = 4 + length
           /\ Encode(of, id, command)[1] = Sof0
           /\ Encode(of, id, command)[2] = Sof1
           /\ Encode(of, id, command)[3] = Token("head", of, id, length)
           /\ Encode(of, id, command)[4 + length] = Token("crc", of, id, 0)
           /\ \A p \in 4 .. 3 + length :
                 Encode(of, id, command)[p] = IF p = 5 THEN Sof0 ELSE Token("data", of, id, p - 3)
<1>1. length \in Nat /\ length <= LongPayload /\ LongPayload \in Nat
    BY BmsLinkAssumption DEF PayloadOf
<1>2. PICK a : a = <<Sof0, Sof1, Token("head", of, id, length)>>
    OBVIOUS
<1>3. PICK b : b = [n \in 1 .. length |-> IF n = 2 THEN Sof0 ELSE Token("data", of, id, n)]
    OBVIOUS
<1>4. PICK c : c = <<Token("crc", of, id, 0)>>
    OBVIOUS
<1>5. Sof0 \in Tokens /\ Sof1 \in Tokens /\ Token("head", of, id, length) \in Tokens /\ Token("crc", of, id, 0) \in Tokens
      /\ \A n \in 1 .. length : Token("data", of, id, n) \in Tokens
    BY <1>1 DEF Sof0, Sof1, Token, Tokens, Kinds
<1>6. a \in Seq(Tokens) /\ Len(a) = 3 /\ a[1] = Sof0 /\ a[2] = Sof1 /\ a[3] = Token("head", of, id, length)
    BY <1>2, <1>5
<1>7. b \in Seq(Tokens) /\ Len(b) = length
    <2>1. b \in [1 .. length -> Tokens]
        BY <1>3, <1>5
    <2> QED BY <1>1, <2>1, FunctionIsSequence
<1>8. c \in Seq(Tokens) /\ Len(c) = 1 /\ c[1] = Token("crc", of, id, 0)
    BY <1>4, <1>5
<1>9. PICK ab \in Seq(Tokens) : /\ ab = a \o b /\ Len(ab) = 3 + length
                                /\ \A i \in 1 .. 3 + length : ab[i] = IF i <= 3 THEN a[i] ELSE b[i - 3]
    <2>1. /\ a \o b \in Seq(Tokens) /\ Len(a \o b) = Len(a) + Len(b)
          /\ \A i \in 1 .. Len(a) + Len(b) : (a \o b)[i] = IF i <= Len(a) THEN a[i] ELSE b[i - Len(a)]
        BY <1>6, <1>7, Joined
    <2> QED BY <1>6, <1>7, <2>1
<1>10. PICK e \in Seq(Tokens) : /\ e = ab \o c /\ Len(e) = 4 + length
                                /\ \A i \in 1 .. 4 + length : e[i] = IF i <= 3 + length THEN ab[i] ELSE c[i - (3 + length)]
    <2>1. /\ ab \o c \in Seq(Tokens) /\ Len(ab \o c) = Len(ab) + Len(c)
          /\ \A i \in 1 .. Len(ab) + Len(c) : (ab \o c)[i] = IF i <= Len(ab) THEN ab[i] ELSE c[i - Len(ab)]
        BY <1>8, Joined
    <2>2. Len(ab) = 3 + length /\ Len(c) = 1 /\ 3 + length + 1 = 4 + length
        BY <1>1, <1>8, <1>9
    <2> QED BY <2>1, <2>2
<1>11. Encode(of, id, command) = e
    BY <1>2, <1>3, <1>4, <1>9, <1>10 DEF Encode, PayloadOf
<1>12. e[1] = Sof0 /\ e[2] = Sof1 /\ e[3] = Token("head", of, id, length)
    BY <1>1, <1>6, <1>9, <1>10
<1>13. e[4 + length] = Token("crc", of, id, 0)
    <2>1. 4 + length \in 1 .. 4 + length /\ ~ (4 + length <= 3 + length) /\ (4 + length) - (3 + length) = 1
        BY <1>1
    <2>2. e[4 + length] = c[(4 + length) - (3 + length)]
        BY <1>10, <2>1
    <2> QED BY <1>8, <2>1, <2>2
<1>14. ASSUME NEW p \in 4 .. 3 + length
       PROVE  e[p] = IF p = 5 THEN Sof0 ELSE Token("data", of, id, p - 3)
    <2>1. p \in 1 .. 4 + length /\ p \in 1 .. 3 + length /\ ~ (p <= 3) /\ p <= 3 + length
        BY <1>1
    <2>2. e[p] = b[p - 3]
        BY <1>9, <1>10, <2>1
    <2>3. p - 3 \in 1 .. length /\ (p - 3 = 2 <=> p = 5)
        BY <1>1
    <2>4. b[p - 3] = IF p - 3 = 2 THEN Sof0 ELSE Token("data", of, id, p - 3)
        BY <1>3, <2>3
    <2> QED BY <2>2, <2>3, <2>4
<1> QED BY <1>1, <1>10, <1>11, <1>12, <1>13, <1>14

(* Which token of a frame is which.                                          *)
LEMMA FrameFacts ==
    ASSUME NEW of \in {"request", "answer"}, NEW id \in Nat, NEW command,
           NEW f, f = Encode(of, id, command)
    PROVE  /\ f \in Seq(Tokens) /\ Len(f) \in 4 .. MaxFrame
           /\ f[1] = Sof0 /\ f[2] = Sof1
           /\ f[3] = Token("head", of, id, Len(f) - 4)
           /\ f[Len(f)] = Token("crc", of, id, 0)
           /\ \A p \in 1 .. Len(f) : /\ f[p] \in Tokens
                                     /\ f[p].kind = "head" <=> p = 3
                                     /\ f[p].kind = "sof1" <=> p = 2
                                     /\ f[p].kind = "crc" <=> p = Len(f)
<1>1. PICK length : length = PayloadOf(of, command)
    OBVIOUS
<1>2. /\ length \in Nat /\ length <= LongPayload
      /\ f \in Seq(Tokens) /\ Len(f) = 4 + length
      /\ f[1] = Sof0 /\ f[2] = Sof1
      /\ f[3] = Token("head", of, id, length)
      /\ f[4 + length] = Token("crc", of, id, 0)
      /\ \A p \in 4 .. 3 + length : f[p] = IF p = 5 THEN Sof0 ELSE Token("data", of, id, p - 3)
    BY <1>1, EncodeFacts
<1>3. Len(f) \in 4 .. MaxFrame
    BY <1>2, BmsLinkAssumption DEF MaxFrame
<1>4. Len(f) - 4 = length
    BY <1>2
<1>5. ASSUME NEW p \in 1 .. Len(f)
      PROVE  /\ f[p] \in Tokens
             /\ f[p].kind = "head" <=> p = 3
             /\ f[p].kind = "sof1" <=> p = 2
             /\ f[p].kind = "crc" <=> p = Len(f)
    <2>1. f[p] \in Tokens
        BY <1>2
    <2>2. CASE p = 1
        BY <1>2, <2>1, <2>2 DEF Sof0
    <2>3. CASE p = 2
        BY <1>2, <2>1, <2>3 DEF Sof1
    <2>4. CASE p = 3
        BY <1>2, <2>1, <2>4 DEF Token
    <2>5. CASE p \in 4 .. 3 + length
        <3>1. f[p] = IF p = 5 THEN Sof0 ELSE Token("data", of, id, p - 3)
            BY <1>2, <2>5
        <3>2. p # 3 /\ p # 2 /\ p # Len(f)
            BY <1>2, <2>5
        <3>3. f[p].kind \in {"sof0", "data"}
            BY <3>1 DEF Token, Sof0
        <3> QED BY <2>1, <3>2, <3>3
    <2>6. CASE p = 4 + length
        BY <1>2, <2>1, <2>6 DEF Token
    <2> QED BY <1>2, <2>2, <2>3, <2>4, <2>5, <2>6
<1> QED BY <1>2, <1>3, <1>4, <1>5

------------------------------------------------------------------------------
(* Fragments. Base(k) tokens of a frame come before its k-th fragment.       *)
Base(k) == (k - 1) * FragmentSize

LEMMA Pieces ==
    ASSUME NEW n \in Nat, n >= 1, NEW f \in Nat, f >= 1, NEW q, q = (n + f - 1) \div f
    PROVE  /\ q \in Nat /\ q >= 1
           /\ (q - 1) * f < n /\ n <= q * f
<1>1. n + f - 1 \in Nat /\ f \in Nat \ {0}
    OBVIOUS
<1>2. PICK a \in Nat : a = n + f - 1
    BY <1>1
<1>3. q = a \div f
    BY <1>2
<1>4. q \in Int /\ f * q <= a /\ a < f * (q + 1)
    BY <1>1, <1>3
<1>5. f * (q + 1) = f * q + f /\ f * (q - 1) = f * q - f /\ f * q = q * f /\ (q - 1) * f = f * (q - 1)
    BY <1>4
<1>6. q >= 1
    <2>1. a >= f
        BY <1>2
    <2>2. ~ (q <= 0)
        <3> SUFFICES ASSUME q <= 0 PROVE FALSE
            OBVIOUS
        <3>1. f * (q + 1) <= f
            BY <1>4
        <3> QED BY <3>1, <2>1, <1>4
    <2> QED BY <2>2, <1>4
<1> QED BY <1>2, <1>4, <1>5, <1>6

LEMMA BaseFacts ==
    ASSUME NEW k \in Nat, k >= 1
    PROVE  /\ Base(k) \in Nat /\ Base(1) = 0
           /\ Base(k + 1) = Base(k) + FragmentSize
           /\ k >= 2 => Base(k) >= 3
<1>1. FragmentSize \in Nat /\ FragmentSize >= 3
    BY BmsLinkAssumption
<1>2. PICK f \in Nat : f = FragmentSize /\ f >= 3
    BY <1>1
<1>3. (k - 1) * f \in Nat /\ (1 - 1) * f = 0 /\ ((k + 1) - 1) * f = (k - 1) * f + f
    BY <1>2
<1>4. k >= 2 => (k - 1) * f >= 3
    <2>1. CASE k >= 2
        <3>1. PICK j \in Nat : k = j + 2
            <4>1. k - 2 \in Nat /\ k = (k - 2) + 2
                BY <2>1
            <4> QED BY <4>1
        <3>2. (k - 1) * f = j * f + f /\ j * f \in Nat
            BY <3>1, <1>2
        <3> QED BY <3>2, <1>2
    <2> QED BY <2>1
<1> QED BY <1>2, <1>3, <1>4 DEF Base

Cut(f, pieces, n) ==
    /\ pieces \in Seq(Seq(Tokens)) /\ n \in Nat /\ n >= 1
    /\ \A k \in 1 .. n :
          /\ Base(k) \in Nat /\ Base(k) < Len(f)
          /\ pieces[k] \in Seq(Tokens) /\ Len(pieces[k]) >= 1
          /\ Base(k) + Len(pieces[k]) = IF k = n THEN Len(f) ELSE Base(k + 1)
          /\ \A j \in 1 .. Len(pieces[k]) : pieces[k][j] = f[Base(k) + j]

LEMMA FragmentFacts ==
    ASSUME NEW f \in Seq(Tokens), Len(f) >= 1, NEW n, n = Len(Fragments(f))
    PROVE  Cut(f, Fragments(f), n)
<1>1. PICK L \in Nat : L = Len(f) /\ L >= 1
    OBVIOUS
<1>2. FragmentSize \in Nat /\ FragmentSize >= 3
    BY BmsLinkAssumption
<1>3. PICK q : q = (L + FragmentSize - 1) \div FragmentSize
    OBVIOUS
<1>4. q \in Nat /\ q >= 1 /\ (q - 1) * FragmentSize < L /\ L <= q * FragmentSize
    <2>1. FragmentSize >= 1
        BY <1>2
    <2> QED BY <1>1, <1>2, <1>3, <2>1, Pieces
<1>5. Base(q) < L /\ L <= Base(q + 1)
    BY <1>4 DEF Base
<1>6. \A k \in Nat : k >= 1 /\ k < q => Base(k) + FragmentSize <= Base(q)
    <2> SUFFICES ASSUME NEW k \in Nat, k >= 1, k < q PROVE Base(k) + FragmentSize <= Base(q)
        OBVIOUS
    <2>1. PICK d \in Nat : q = k + 1 + d
        <3>1. q - k - 1 \in Nat /\ q = k + 1 + (q - k - 1)
            BY <1>4
        <3> QED BY <3>1
    <2>2. PICK b \in Nat : b = FragmentSize
        BY <1>2
    <2>3. (q - 1) * b = (k - 1) * b + b + d * b /\ d * b \in Nat /\ (k - 1) * b \in Nat
        BY <2>1, <2>2
    <2> QED BY <2>2, <2>3 DEF Base
<1>7. ASSUME NEW k \in 1 .. q
      PROVE  /\ Base(k) \in Nat /\ Base(k + 1) = Base(k) + FragmentSize
             /\ Base(k) < L
             /\ k < q => Base(k) + FragmentSize < L
             /\ k = q => Base(k) + FragmentSize >= L
    <2>1. Base(k) \in Nat /\ Base(k + 1) = Base(k) + FragmentSize
        <3>1. k \in Nat /\ k >= 1
            BY <1>4
        <3> QED BY <3>1, BaseFacts
    <2>2. Base(q) \in Nat /\ Base(q + 1) = Base(q) + FragmentSize
        BY <1>4, BaseFacts
    <2>3. k < q => Base(k) + FragmentSize <= Base(q)
        BY <1>4, <1>6
    <2>4. CASE k < q
        BY <2>1, <2>2, <2>3, <2>4, <1>1, <1>2, <1>5
    <2>5. CASE k = q
        BY <2>1, <2>2, <2>5, <1>1, <1>2, <1>5
    <2> QED BY <2>4, <2>5, <1>4
<1>8. PICK end : end = [k \in 1 .. q |-> IF k * FragmentSize > L THEN L ELSE k * FragmentSize]
    OBVIOUS
<1>9. ASSUME NEW k \in 1 .. q
      PROVE  /\ end[k] \in Base(k) + 1 .. L
             /\ end[k] = IF k = q THEN L ELSE Base(k + 1)
    <2>1. k * FragmentSize = Base(k + 1)
        BY DEF Base
    <2>2. end[k] = IF Base(k + 1) > L THEN L ELSE Base(k + 1)
        BY <1>8, <2>1
    <2>3. /\ Base(k) \in Nat /\ Base(k + 1) = Base(k) + FragmentSize /\ Base(k) < L
          /\ k < q => Base(k) + FragmentSize < L
          /\ k = q => Base(k) + FragmentSize >= L
        BY <1>7
    <2>4. CASE k = q
        BY <1>1, <1>2, <2>2, <2>3, <2>4
    <2>5. CASE k < q
        BY <1>1, <1>2, <2>2, <2>3, <2>5
    <2> QED BY <2>4, <2>5, <1>4
<1>10. Fragments(f) = [k \in 1 .. q |-> SubSeq(f, Base(k) + 1, end[k])]
    BY <1>1, <1>3, <1>8 DEF Fragments, Base
<1>11. ASSUME NEW k \in 1 .. q
       PROVE  /\ SubSeq(f, Base(k) + 1, end[k]) \in Seq(Tokens)
              /\ Len(SubSeq(f, Base(k) + 1, end[k])) = end[k] - Base(k)
              /\ \A j \in 1 .. end[k] - Base(k) : SubSeq(f, Base(k) + 1, end[k])[j] = f[Base(k) + j]
    <2>1. PICK m \in 1 .. Len(f) : m = Base(k) + 1
        BY <1>1, <1>7
    <2>2. PICK e \in m .. Len(f) : e = end[k]
        BY <1>1, <1>9, <2>1
    <2>3. /\ SubSeq(f, m, e) \in Seq(Tokens)
          /\ Len(SubSeq(f, m, e)) = e - m + 1
          /\ \A j \in 1 .. e - m + 1 : SubSeq(f, m, e)[j] = f[m + j - 1]
        BY <2>1, <2>2, SubSeqProperties
    <2>4. PICK b \in Nat : b = Base(k)
        BY <1>7
    <2>5. e - m + 1 = e - b /\ m \in Nat /\ e \in Nat /\ m = b + 1
        BY <2>1, <2>2, <2>4
    <2>6. /\ Len(SubSeq(f, m, e)) = e - b
          /\ \A j \in 1 .. e - b : SubSeq(f, m, e)[j] = f[b + j]
        BY <2>3, <2>5, SMT
    <2> QED BY <2>1, <2>2, <2>3, <2>4, <2>6
<1>12. Fragments(f) \in Seq(Seq(Tokens)) /\ n = q
    <2>1. Fragments(f) \in [1 .. q -> Seq(Tokens)]
        BY <1>10, <1>11
    <2> QED BY <1>4, <2>1, FunctionIsSequence
<1>13. ASSUME NEW k \in 1 .. n
       PROVE  /\ Base(k) \in Nat /\ Base(k) < Len(f)
              /\ Fragments(f)[k] \in Seq(Tokens) /\ Len(Fragments(f)[k]) >= 1
              /\ Base(k) + Len(Fragments(f)[k]) = IF k = n THEN Len(f) ELSE Base(k + 1)
              /\ \A j \in 1 .. Len(Fragments(f)[k]) : Fragments(f)[k][j] = f[Base(k) + j]
    <2>1. Fragments(f)[k] = SubSeq(f, Base(k) + 1, end[k])
        BY <1>10, <1>12
    <2>2. PICK e \in Nat, b \in Nat, len \in Nat : e = end[k] /\ b = Base(k) /\ len = Len(Fragments(f)[k])
        BY <1>1, <1>7, <1>9, <1>11, <1>12, <2>1
    <2>3. len = e - b
        BY <1>11, <1>12, <2>1, <2>2
    <2>4. e \in b + 1 .. L /\ e = IF k = q THEN L ELSE Base(k + 1)
        BY <1>9, <1>12, <2>2
    <2>5. b < Len(f) /\ len >= 1 /\ b + len = IF k = n THEN Len(f) ELSE Base(k + 1)
        BY <1>1, <1>12, <2>2, <2>3, <2>4
    <2>6. /\ Fragments(f)[k] \in Seq(Tokens)
          /\ \A j \in 1 .. len : Fragments(f)[k][j] = f[Base(k) + j]
        BY <1>11, <1>12, <2>1, <2>2, <2>3
    <2> QED BY <2>2, <2>5, <2>6
<1> QED BY <1>4, <1>12, <1>13 DEF Cut

------------------------------------------------------------------------------
(* The firmware's decoder while the p-th token of request r is the last it   *)
(* was given; missing counts the fragments of r that did not come before.   *)
Request(s, r) == Encode("request", r, s[r].command)
Count(s, r) == Len(Fragments(Request(s, r)))

Collecting(s, tokens) ==
    /\ tokens \in Seq(Tokens)
    /\ Len(tokens) >= 3 =>
          /\ tokens[3].frame \in 1 .. Len(s)
          /\ tokens[3] = Request(s, tokens[3].frame)[3]
          /\ Len(tokens) < Len(Request(s, tokens[3].frame))

Agrees(tokens, frame) == \A i \in 1 .. Len(tokens) : tokens[i] = frame[i]

Within(s, tokens, r, p, missing) ==
    Len(tokens) >= 3 =>
        /\ tokens[3].frame <= r
        /\ p < 3 => tokens[3].frame < r
        /\ tokens[3].frame = r /\ Agrees(tokens, Request(s, r)) =>
              Len(tokens) <= p /\ (Len(tokens) = p => missing = 0)

LEMMA Restarted ==
    ASSUME NEW s, NEW r, NEW p, NEW missing, NEW token \in Tokens
    PROVE  /\ Collecting(s, Restart(token).tokens)
           /\ Within(s, Restart(token).tokens, r, p, missing)
           /\ Restart(token).frame = 0
<1>1. PICK t : t = Restart(token).tokens
    OBVIOUS
<1>2. t = IF token = Sof0 THEN <<token>> ELSE <<>>
    BY <1>1 DEF Restart
<1>3. t \in Seq(Tokens) /\ Len(t) <= 1
    BY <1>2
<1>4. ~ (Len(t) >= 3)
    BY <1>3
<1>5. Restart(token).frame = 0
    BY DEF Restart, NoFrame
<1> QED BY <1>1, <1>3, <1>4, <1>5 DEF Collecting, Within

(* What bmslink_decoder_push does of a token t: it starts over, collects it, *)
(* or ends a frame.                                                          *)
Expected(s, tokens) == Request(s, tokens[3].frame)
Pushed(s, tokens, t, next) ==
    \/ /\ Len(tokens) <= 2 /\ next = Restart(t)
       /\ Len(tokens) = 1 => t # Sof1
       /\ Len(tokens) = 2 => t.kind # "head"
    \/ /\ (Len(tokens) = 1 /\ t = Sof1) \/ (Len(tokens) = 2 /\ t.kind = "head")
       /\ next = [tokens |-> Append(tokens, t), frame |-> 0]
    \/ /\ Len(tokens) >= 3 /\ Len(tokens) + 1 < Len(Expected(s, tokens))
       /\ next = [tokens |-> Append(tokens, t), frame |-> 0]
    \/ /\ Len(tokens) >= 3 /\ Len(tokens) + 1 = Len(Expected(s, tokens))
       /\ next = IF Append(tokens, t) = Expected(s, tokens)
                 THEN [tokens |-> <<>>, frame |-> tokens[3].frame] ELSE Restart(t)

LEMMA ExpectedFacts ==
    ASSUME NEW s, NEW tokens, Collecting(s, tokens), Len(tokens) >= 3
    PROVE  /\ tokens[3].frame \in 1 .. Len(s) /\ Expected(s, tokens) \in Seq(Tokens)
           /\ Len(Expected(s, tokens)) \in Nat /\ Len(Expected(s, tokens)) >= 4
           /\ Len(Expected(s, tokens)) <= MaxFrame /\ Len(tokens) < Len(Expected(s, tokens))
           /\ tokens[3] = Expected(s, tokens)[3]
           /\ tokens[3] = Token("head", "request", tokens[3].frame, Len(Expected(s, tokens)) - 4)
           /\ Expected(s, tokens)[Len(Expected(s, tokens))] = Token("crc", "request", tokens[3].frame, 0)
<1>1. PICK a : a = tokens[3].frame
    OBVIOUS
<1>2. a \in 1 .. Len(s) /\ tokens[3] = Request(s, a)[3] /\ Len(tokens) < Len(Request(s, a))
    BY <1>1 DEF Collecting
<1>3. PICK A : A = Request(s, a)
    OBVIOUS
<1>4. /\ A \in Seq(Tokens) /\ Len(A) \in 4 .. MaxFrame
      /\ A[3] = Token("head", "request", a, Len(A) - 4)
      /\ A[Len(A)] = Token("crc", "request", a, 0)
    <2>1. a \in Nat
        BY <1>2
    <2>2. PICK c : c = s[a].command
        OBVIOUS
    <2>3. A = Encode("request", a, c)
        BY <1>3, <2>2 DEF Request
    <2> QED BY <2>1, <2>3, FrameFacts
<1>5. Len(A) \in Nat /\ Len(A) >= 4 /\ Len(A) <= MaxFrame
    BY <1>4, ConstantFacts DEF MaxFrame
<1>6. A = Expected(s, tokens)
    BY <1>1, <1>3 DEF Expected
<1> QED BY <1>1, <1>2, <1>3, <1>4, <1>5, <1>6

LEMMA PushCases ==
    ASSUME NEW tokens, Collecting(sent, tokens), NEW t \in Tokens
    PROVE  Pushed(sent, tokens, t, Push(tokens, t))
<1>1. PICK next : next = Push(tokens, t)
    OBVIOUS
<1>2. PICK n \in Nat : n = Len(tokens)
    BY DEF Collecting
<1>3. PICK more : more = Append(tokens, t)
    OBVIOUS
<1>4. /\ more \in Seq(Tokens) /\ Len(more) = n + 1 /\ more[n + 1] = t
      /\ \A i \in 1 .. n : more[i] = tokens[i]
    BY <1>2, <1>3, AppendProperties DEF Collecting
<1>5. n = 0 <=> tokens = <<>>
    BY <1>2, EmptySeq DEF Collecting
<1>6. CASE n = 0 \/ (n = 1 /\ t # Sof1)
    <2>1. tokens = <<>> \/ (Len(tokens) = 1 /\ t # Sof1)
        BY <1>2, <1>5, <1>6
    <2>2. ~ (Len(tokens) >= 2)
        BY <1>2, <1>6
    <2>3. next = Restart(t)
        BY <1>1, <2>1, <2>2 DEF Push
    <2>4. Len(tokens) <= 2 /\ Len(tokens) # 2 /\ (Len(tokens) = 1 => t # Sof1)
        BY <1>2, <1>6
    <2> QED BY <1>1, <2>3, <2>4 DEF Pushed
<1>7. CASE n = 1 /\ t = Sof1
    <2>1. tokens # <<>>
        BY <1>5, <1>7
    <2>2. ~ (Len(tokens) = 1 /\ t # Sof1) /\ Len(tokens) # 2 /\ ~ (Len(tokens) >= 2)
        BY <1>2, <1>7
    <2>3. next = [tokens |-> more, frame |-> 0]
        BY <1>1, <1>3, <2>1, <2>2 DEF Push, NoFrame
    <2>4. Len(tokens) = 1 /\ t = Sof1
        BY <1>2, <1>7
    <2>5. next = [tokens |-> Append(tokens, t), frame |-> 0]
        BY <1>3, <2>3
    <2>6. Pushed(sent, tokens, t, next)
        BY <2>4, <2>5 DEF Pushed
    <2> QED BY <1>1, <2>6
<1>8. CASE n = 2 /\ t.kind # "head"
    <2>1. tokens # <<>>
        BY <1>5, <1>8
    <2>2. Len(tokens) = 2 /\ Len(tokens) # 1 /\ more[3] = t
        BY <1>2, <1>4, <1>8
    <2>3. next = Restart(t)
        BY <1>1, <1>3, <1>8, <2>1, <2>2 DEF Push
    <2>4. Len(tokens) <= 2
        BY <2>2
    <2> QED BY <1>1, <1>8, <2>2, <2>3, <2>4 DEF Pushed
<1>9. CASE n = 2 /\ t.kind = "head"
    <2>1. more[3] = t /\ Len(more) = 3
        BY <1>4, <1>9
    <2>2. t.n \in Nat
        BY DEF Tokens
    <2>3. Len(more) # 4 + more[3].n
        BY <2>1, <2>2
    <2>4. tokens # <<>>
        BY <1>5, <1>9
    <2>5. Len(tokens) = 2 /\ Len(tokens) # 1
        BY <1>2, <1>9
    <2>6. next = [tokens |-> more, frame |-> 0]
        BY <1>1, <1>3, <1>9, <2>3, <2>4, <2>5 DEF Push, NoFrame
    <2> QED BY <1>1, <1>3, <1>9, <2>5, <2>6 DEF Pushed
<1>10. CASE n >= 3
    <2>1. PICK A, a : A = Expected(sent, tokens) /\ a = tokens[3].frame
        OBVIOUS
    <2>2. Len(tokens) >= 3
        BY <1>2, <1>10
    <2>3. /\ Len(A) \in Nat /\ Len(A) >= 4 /\ n < Len(A)
          /\ tokens[3] = Token("head", "request", a, Len(A) - 4)
        BY <1>2, <2>1, <2>2, ExpectedFacts
    <2>4. more[3] = Token("head", "request", a, Len(A) - 4)
        BY <1>4, <1>10, <2>3
    <2>5. more[3].kind = "head" /\ more[3].n = Len(A) - 4 /\ more[3].of = "request" /\ more[3].frame = a
        BY <2>4 DEF Token
    <2>6. tokens # <<>> /\ Len(tokens) # 1 /\ Len(tokens) # 2 /\ Len(tokens) >= 2
        <3>1. tokens # <<>>
            BY <1>5, <1>10
        <3>2. n # 1 /\ n # 2 /\ n >= 2
            BY <1>10
        <3> QED BY <1>2, <3>1, <3>2, Zenon
    <2>7. CASE n + 1 < Len(A)
        <3>1. Len(more) # 4 + more[3].n
            BY <1>4, <2>3, <2>5, <2>7
        <3>2. next = [tokens |-> more, frame |-> 0]
            BY <1>1, <1>3, <2>6, <3>1 DEF Push, NoFrame
        <3> QED BY <1>1, <1>2, <1>3, <2>1, <2>2, <2>7, <3>2 DEF Pushed
    <2>8. CASE n + 1 = Len(A)
        <3>1. Len(more) = 4 + more[3].n
            BY <1>4, <2>3, <2>5, <2>8
        <3>2. next = IF Checks(more) THEN [tokens |-> <<>>, frame |-> more[3].frame] ELSE Restart(t)
            BY <1>1, <1>3, <2>5, <2>6, <3>1 DEF Push
        <3>3. Checks(more) <=> more = A
            BY <2>1, <2>5 DEF Checks, FrameOf, Request, Expected
        <3>4. next = IF more = A THEN [tokens |-> <<>>, frame |-> a] ELSE Restart(t)
            BY <2>5, <3>2, <3>3
        <3> QED BY <1>1, <1>2, <1>3, <2>1, <2>2, <2>8, <3>4 DEF Pushed
    <2> QED BY <2>3, <2>7, <2>8
<1> QED BY <1>6, <1>7, <1>8, <1>9, <1>10

LEMMA PushStep ==
    ASSUME sent \in Seq([session : 1 .. MaxSessions, sequence : Ids, command : Commands]),
           NEW r \in 1 .. Len(sent), NEW p \in 1 .. Len(Request(sent, r)),
           NEW missing \in Nat, p <= 3 => missing = 0,
           NEW tokens, Collecting(sent, tokens), Within(sent, tokens, r, p - 1, missing),
           NEW next, next = Push(tokens, Request(sent, r)[p])
    PROVE  /\ Collecting(sent, next.tokens)
           /\ Within(sent, next.tokens, r, p, missing)
           /\ next.frame \in {0, r}
           /\ next.frame = r => p = Len(Request(sent, r)) /\ missing = 0
<1>1. PICK R : R = Request(sent, r)
    OBVIOUS
<1>2. PICK t : t = R[p]
    OBVIOUS
<1>3. PICK n \in Nat : n = Len(tokens)
    BY DEF Collecting
<1>4. /\ R \in Seq(Tokens) /\ Len(R) \in Nat /\ Len(R) >= 4
      /\ R[3] = Token("head", "request", r, Len(R) - 4)
      /\ R[Len(R)] = Token("crc", "request", r, 0)
      /\ \A i \in 1 .. Len(R) : /\ R[i] \in Tokens
                                /\ R[i].kind = "head" <=> i = 3
                                /\ R[i].kind = "crc" <=> i = Len(R)
    BY <1>1, FrameFacts DEF Request
<1>5. t \in Tokens /\ (t.kind = "head" <=> p = 3)
    BY <1>1, <1>2, <1>4
<1>6. PICK more : more = Append(tokens, t)
    OBVIOUS
<1>7. /\ more \in Seq(Tokens) /\ Len(more) = n + 1 /\ more[n + 1] = t
      /\ \A i \in 1 .. n : more[i] = tokens[i]
    BY <1>3, <1>5, <1>6, AppendProperties DEF Collecting
<1>8. Pushed(sent, tokens, t, next)
    BY <1>1, <1>2, <1>5, PushCases
<1>9. CASE next = Restart(t)
    <2>1. /\ Collecting(sent, Restart(t).tokens)
          /\ Within(sent, Restart(t).tokens, r, p, missing)
          /\ Restart(t).frame = 0
        BY <1>5, Restarted
    <2>2. r # 0
        OBVIOUS
    <2> QED BY <1>9, <2>1, <2>2
<1>10. CASE n = 1 /\ next = [tokens |-> more, frame |-> 0]
    <2>1. next.tokens = more /\ next.frame = 0 /\ Len(more) = 2
        BY <1>7, <1>10
    <2>2. ~ (Len(more) >= 3) /\ r # 0
        BY <2>1
    <2> QED BY <1>7, <2>1, <2>2 DEF Collecting, Within
<1>11. CASE n = 2 /\ t.kind = "head" /\ next = [tokens |-> more, frame |-> 0]
    <2>1. next.tokens = more /\ next.frame = 0 /\ Len(more) = 3 /\ r # 0
        BY <1>7, <1>11
    <2>2. p = 3 /\ more[3] = R[3] /\ missing = 0
        BY <1>2, <1>5, <1>7, <1>11
    <2>3. more[3].frame = r
        BY <1>4, <2>2 DEF Token
    <2>4. Collecting(sent, more)
        <3>1. Request(sent, more[3].frame) = R
            BY <1>1, <2>3
        <3>2. more[3].frame \in 1 .. Len(sent)
            BY <2>3
        <3>3. Len(more) < Len(Request(sent, more[3].frame))
            BY <1>4, <2>1, <3>1
        <3>4. more[3] = Request(sent, more[3].frame)[3]
            BY <2>2, <3>1
        <3> QED BY <1>7, <3>2, <3>3, <3>4 DEF Collecting
    <2>5. Within(sent, more, r, p, missing)
        <3>1. more[3].frame <= r /\ ~ (p < 3)
            BY <2>2, <2>3
        <3>2. Len(more) <= p /\ missing = 0
            BY <2>1, <2>2
        <3> QED BY <3>1, <3>2 DEF Within
    <2> QED BY <2>1, <2>4, <2>5
<1>12. ASSUME n >= 3
       PROVE  \E a, A : /\ a = tokens[3].frame /\ a \in 1 .. Len(sent)
                        /\ A = Request(sent, a) /\ A = Expected(sent, tokens)
                        /\ Len(A) \in Nat /\ n < Len(A) /\ tokens[3] = A[3]
                        /\ A[Len(A)] = Token("crc", "request", a, 0)
                        /\ a <= r /\ (p - 1 < 3 => a < r)
                        /\ a = r /\ Agrees(tokens, R) => n <= p - 1 /\ (n = p - 1 => missing = 0)
    <2>1. PICK a, A : a = tokens[3].frame /\ A = Expected(sent, tokens)
        OBVIOUS
    <2>2. /\ a \in 1 .. Len(sent) /\ Len(A) \in Nat /\ n < Len(A) /\ tokens[3] = A[3]
          /\ A[Len(A)] = Token("crc", "request", a, 0) /\ A = Request(sent, a)
        BY <1>3, <1>12, <2>1, ExpectedFacts DEF Expected
    <2>3. /\ a <= r
          /\ p - 1 < 3 => a < r
          /\ a = r /\ Agrees(tokens, R) => n <= p - 1 /\ (n = p - 1 => missing = 0)
        BY <1>1, <1>3, <1>12, <2>1 DEF Within
    <2> QED BY <2>1, <2>2, <2>3
<1>13. CASE n >= 3 /\ n + 1 < Len(Expected(sent, tokens)) /\ next = [tokens |-> more, frame |-> 0]
    <2>1. PICK a, A : /\ a = tokens[3].frame /\ a \in 1 .. Len(sent)
                      /\ A = Request(sent, a) /\ A = Expected(sent, tokens)
                      /\ Len(A) \in Nat /\ n < Len(A) /\ tokens[3] = A[3]
                      /\ a <= r /\ (p - 1 < 3 => a < r)
                      /\ a = r /\ Agrees(tokens, R) => n <= p - 1 /\ (n = p - 1 => missing = 0)
        BY <1>12, <1>13
    <2>2. next.tokens = more /\ next.frame = 0 /\ r # 0
        BY <1>13
    <2>3. more[3] = tokens[3] /\ more[3].frame = a
        BY <1>7, <1>13, <2>1
    <2>4. Collecting(sent, more)
        BY <1>7, <1>13, <2>1, <2>3 DEF Collecting
    <2>5. p < 3 => a < r
        BY <2>1
    <2>6. ASSUME a = r, Agrees(more, R) PROVE Len(more) <= p /\ (Len(more) = p => missing = 0)
        <3>1. Agrees(tokens, R)
            <4> SUFFICES ASSUME NEW i \in 1 .. n PROVE tokens[i] = R[i]
                BY <1>3 DEF Agrees
            <4>1. i \in 1 .. Len(more) /\ more[i] = tokens[i]
                BY <1>7
            <4> QED BY <2>6, <4>1 DEF Agrees
        <3> QED BY <1>7, <2>1, <2>6, <3>1
    <2>7. Within(sent, more, r, p, missing)
        BY <1>1, <2>1, <2>3, <2>5, <2>6 DEF Within
    <2> QED BY <2>2, <2>4, <2>7
<1>14. CASE /\ n >= 3 /\ n + 1 = Len(Expected(sent, tokens)) /\ more = Expected(sent, tokens)
            /\ next = [tokens |-> <<>>, frame |-> tokens[3].frame]
    <2>1. PICK a, A : /\ a = tokens[3].frame /\ a \in 1 .. Len(sent)
                      /\ A = Request(sent, a) /\ A = Expected(sent, tokens)
                      /\ Len(A) \in Nat /\ A[Len(A)] = Token("crc", "request", a, 0)
                      /\ a = r /\ Agrees(tokens, R) => n <= p - 1 /\ (n = p - 1 => missing = 0)
        BY <1>12, <1>14
    <2>2. t = Token("crc", "request", a, 0)
        BY <1>7, <1>14, <2>1
    <2>3. t.kind = "crc" /\ t.frame = a
        BY <2>2 DEF Token
    <2>4. p = Len(R)
        BY <1>1, <1>2, <1>4, <2>3
    <2>5. a = r
        BY <1>2, <1>4, <2>3, <2>4 DEF Token
    <2>6. A = R /\ more = R
        BY <1>1, <1>14, <2>1, <2>5
    <2>7. Agrees(tokens, R)
        BY <1>3, <1>7, <2>6 DEF Agrees
    <2>8. missing = 0
        BY <1>14, <2>1, <2>4, <2>5, <2>6, <2>7
    <2>9. next.tokens = <<>> /\ next.frame = r
        BY <1>14, <2>1, <2>5
    <2>10. <<>> \in Seq(Tokens) /\ ~ (Len(<<>>) >= 3)
        OBVIOUS
    <2>11. Collecting(sent, <<>>) /\ Within(sent, <<>>, r, p, missing)
        BY <2>10 DEF Collecting, Within
    <2> QED BY <1>1, <2>4, <2>8, <2>9, <2>11
<1> QED BY <1>3, <1>6, <1>8, <1>9, <1>10, <1>11, <1>13, <1>14 DEF Pushed

(* How long a decoder that is in a frame cut short stays deaf. When the      *)
(* first p tokens of request r have come, next to one another, lost tokens   *)
(* of whole requests before it have not been handled since the last break,   *)
(* and the decoder has nothing, is in a frame from before the break, or is   *)
(* in request r.                                                             *)
Bound == (MaxFrame - FragmentSize) + (MaxFrame - 2)
Listens(s, tokens, lost, r, p) ==
    \/ Len(tokens) <= 1 /\ (p = 0 \/ (p >= 2 /\ lost + Len(Request(s, r)) <= Bound))
    \/ Len(tokens) >= 3 /\ lost + p + FragmentSize <= Len(tokens)
    \/ p > 0 /\ Len(tokens) = p /\ Agrees(tokens, Request(s, r))
Loose(tokens) == Len(tokens) <= 1 \/ Len(tokens) >= FragmentSize
Tuned(s, tokens, lost, r, p, missing) ==
    IF missing = 0 THEN Listens(s, tokens, lost, r, p) ELSE Loose(tokens)

LEMMA PushTuned ==
    ASSUME NEW r \in 1 .. Len(sent), NEW p \in 1 .. Len(Request(sent, r)),
           NEW missing \in Nat, p <= 3 => missing = 0, NEW lost \in Nat,
           NEW tokens, Collecting(sent, tokens), Tuned(sent, tokens, lost, r, p - 1, missing)
    PROVE  LET next == Push(tokens, Request(sent, r)[p])
           IN  /\ next.frame = 0 => Tuned(sent, next.tokens, lost, r, p, missing)
               /\ next.frame # 0 => next.tokens = <<>>
<1>1. PICK R : R = Request(sent, r)
    OBVIOUS
<1>2. PICK t : t = R[p]
    OBVIOUS
<1>3. PICK n \in Nat : n = Len(tokens)
    BY DEF Collecting
<1>4. /\ R \in Seq(Tokens) /\ Len(R) \in Nat /\ Len(R) >= 4 /\ Len(R) <= MaxFrame /\ MaxFrame \in Nat
      /\ R[1] = Sof0 /\ R[2] = Sof1
      /\ R[3] = Token("head", "request", r, Len(R) - 4)
      /\ \A i \in 1 .. Len(R) : /\ R[i] \in Tokens
                                /\ R[i].kind = "head" <=> i = 3
                                /\ R[i].kind = "sof1" <=> i = 2
    <2>1. MaxFrame \in Nat
        BY ConstantFacts DEF MaxFrame
    <2>2. /\ R \in Seq(Tokens) /\ Len(R) \in 4 .. MaxFrame
          /\ R[1] = Sof0 /\ R[2] = Sof1
          /\ R[3] = Token("head", "request", r, Len(R) - 4)
          /\ \A i \in 1 .. Len(R) : /\ R[i] \in Tokens
                                    /\ R[i].kind = "head" <=> i = 3
                                    /\ R[i].kind = "sof1" <=> i = 2
        BY <1>1, FrameFacts DEF Request
    <2> QED BY <2>1, <2>2
<1>5. /\ t \in Tokens /\ (t.kind = "head" <=> p = 3)
      /\ t = Sof1 <=> p = 2
      /\ p = 1 => t = Sof0
    <2>1. p \in 1 .. Len(R)
        BY <1>1
    <2>2. t \in Tokens /\ (t.kind = "head" <=> p = 3) /\ (t.kind = "sof1" <=> p = 2)
        BY <1>2, <1>4, <2>1
    <2>3. t = Sof1 => t.kind = "sof1"
        BY DEF Sof1
    <2> QED BY <1>2, <1>4, <2>2, <2>3
<1>6. PICK more : more = Append(tokens, t)
    OBVIOUS
<1>7. /\ more \in Seq(Tokens) /\ Len(more) = n + 1 /\ more[n + 1] = t
      /\ \A i \in 1 .. n : more[i] = tokens[i]
    BY <1>3, <1>5, <1>6, AppendProperties DEF Collecting
<1>8. PICK next : next = Push(tokens, t)
    OBVIOUS
<1>9. Pushed(sent, tokens, t, next)
    BY <1>5, <1>8, PushCases
<1>10. p \in Nat /\ p >= 1 /\ p <= Len(R) /\ lost \in Nat /\ FragmentSize \in Nat /\ FragmentSize >= 3
    BY <1>1, <1>4, ConstantFacts
<1>11. /\ Restart(t).frame = 0 /\ Len(Restart(t).tokens) <= 1
       /\ p = 1 => Restart(t).tokens = <<Sof0>>
    <2>1. Restart(t) = [tokens |-> IF t = Sof0 THEN <<t>> ELSE <<>>, frame |-> 0]
        BY DEF Restart, NoFrame
    <2>2. Len(<<t>>) = 1 /\ Len(<<>>) = 0
        OBVIOUS
    <2> QED BY <1>5, <2>1, <2>2
<1>12. Agrees(<<Sof0>>, R) /\ Len(<<Sof0>>) = 1
    BY <1>4 DEF Agrees
(* Whoever starts over with the first token of a request is in it.           *)
<1>13. ASSUME p = 1, missing = 0, next = Restart(t) PROVE Tuned(sent, next.tokens, lost, r, p, missing)
    BY <1>1, <1>11, <1>12, <1>13 DEF Tuned, Listens
<1>14. ASSUME next = [tokens |-> more, frame |-> 0]
       PROVE  next.tokens = more /\ next.frame = 0
    BY <1>14
<1>15. CASE missing = 0
    <2>1. Listens(sent, tokens, lost, r, p - 1)
        BY <1>15 DEF Tuned
    <2>2. SUFFICES /\ next.frame = 0 => Listens(sent, next.tokens, lost, r, p)
                   /\ next.frame # 0 => next.tokens = <<>>
        BY <1>1, <1>2, <1>8, <1>15 DEF Tuned
    <2>3. CASE n <= 1 /\ p = 1
        <3>1. next = Restart(t)
            BY <1>3, <1>5, <1>9, <2>3 DEF Pushed
        <3> QED BY <1>11, <1>13, <1>15, <2>3, <3>1 DEF Tuned
    <2>4. CASE n <= 1 /\ p >= 3 /\ lost + Len(R) <= Bound
        <3>1. next = Restart(t)
            BY <1>3, <1>5, <1>9, <2>4 DEF Pushed
        <3> QED BY <1>1, <1>11, <2>4, <3>1 DEF Listens
    <2>5. CASE n >= 3 /\ lost + (p - 1) + FragmentSize <= n
        <3>1. PICK A : A = Expected(sent, tokens)
            OBVIOUS
        <3>2. Len(A) \in Nat /\ Len(A) <= MaxFrame /\ n < Len(A)
            BY <1>3, <2>5, <3>1, ExpectedFacts
        <3>3. CASE n + 1 < Len(A)
            <4>1. next = [tokens |-> more, frame |-> 0]
                BY <1>3, <1>6, <1>9, <2>5, <3>1, <3>3 DEF Pushed
            <4>2. Len(more) >= 3 /\ lost + p + FragmentSize <= Len(more)
                BY <1>7, <1>10, <2>5
            <4> QED BY <1>14, <4>1, <4>2 DEF Listens
        <3>4. CASE n + 1 = Len(A)
            <4>1. next = [tokens |-> <<>>, frame |-> tokens[3].frame] \/ next = Restart(t)
                <5>1. Len(tokens) + 1 = Len(Expected(sent, tokens)) /\ Len(tokens) >= 3 /\ ~ (Len(tokens) <= 2)
                      /\ ~ (Len(tokens) = 1) /\ ~ (Len(tokens) = 2) /\ ~ (Len(tokens) + 1 < Len(Expected(sent, tokens)))
                    BY <1>3, <2>5, <3>1, <3>2, <3>4
                <5> QED BY <1>9, <5>1, Zenon DEF Pushed
            <4>2. CASE next = [tokens |-> <<>>, frame |-> tokens[3].frame]
                <5>1. tokens[3].frame # 0
                    BY <1>3, <2>5, ExpectedFacts
                <5> QED BY <4>2, <5>1
            <4>3. CASE next = Restart(t) /\ p = 1
                BY <1>11, <1>13, <1>15, <4>3 DEF Tuned
            <4>4. CASE next = Restart(t) /\ p >= 2
                <5>1. lost + Len(R) <= Bound
                    <6>1. lost + 2 + FragmentSize <= MaxFrame
                        BY <1>4, <1>10, <2>5, <3>2, <3>4, <4>4
                    <6> QED BY <1>4, <1>10, <6>1 DEF Bound
                <5> QED BY <1>1, <1>11, <4>4, <5>1 DEF Listens
            <4>5. p = 1 \/ p >= 2
                BY <1>10
            <4> QED BY <4>1, <4>2, <4>3, <4>4, <4>5
        <3> QED BY <3>2, <3>3, <3>4
    <2>6. CASE p - 1 > 0 /\ n = p - 1 /\ Agrees(tokens, R)
        <3>1. Agrees(more, R) /\ Len(more) = p
            <4>1. ASSUME NEW i \in 1 .. p PROVE more[i] = R[i]
                <5>1. CASE i = p
                    BY <1>2, <1>7, <2>6, <5>1
                <5>2. CASE i # p
                    <6>1. i \in 1 .. n
                        BY <1>10, <2>6, <5>2
                    <6> QED BY <1>3, <1>7, <2>6, <6>1 DEF Agrees
                <5> QED BY <5>1, <5>2
            <4>2. Len(more) = p
                BY <1>7, <1>10, <2>6
            <4> QED BY <4>1, <4>2 DEF Agrees
        <3>2. CASE next = [tokens |-> more, frame |-> 0]
            BY <1>1, <1>10, <1>14, <3>1, <3>2 DEF Listens
        <3>3. CASE n <= 2
            <4>1. CASE n = 1
                <5>1. p = 2
                    BY <1>10, <2>6, <4>1
                <5>2. Len(tokens) = 1 /\ Len(tokens) # 2 /\ ~ (Len(tokens) >= 3) /\ t = Sof1
                    BY <1>3, <1>5, <4>1, <5>1
                <5>3. next = [tokens |-> Append(tokens, t), frame |-> 0]
                    BY <1>9, <5>2, Zenon DEF Pushed
                <5> QED BY <1>6, <3>2, <5>3
            <4>2. CASE n = 2
                <5>1. p = 3
                    BY <1>10, <2>6, <4>2
                <5>2. Len(tokens) # 1 /\ Len(tokens) = 2 /\ ~ (Len(tokens) >= 3) /\ t.kind = "head"
                    BY <1>3, <1>5, <4>2, <5>1
                <5>3. next = [tokens |-> Append(tokens, t), frame |-> 0]
                    BY <1>9, <5>2, Zenon DEF Pushed
                <5> QED BY <1>6, <3>2, <5>3
            <4>3. n = 1 \/ n = 2
                BY <1>10, <2>6, <3>3
            <4> QED BY <4>1, <4>2, <4>3
        <3>4. CASE n >= 3
            <4>1. PICK A : A = Expected(sent, tokens)
                OBVIOUS
            <4>2. A = R
                <5>1. tokens[3] = R[3]
                    BY <1>3, <2>6, <3>4 DEF Agrees
                <5>2. tokens[3].frame = r
                    BY <1>4, <5>1 DEF Token
                <5> QED BY <1>1, <4>1, <5>2 DEF Expected
            <4>3. CASE n + 1 < Len(A)
                <5>1. next = [tokens |-> more, frame |-> 0]
                    BY <1>3, <1>6, <1>9, <3>4, <4>1, <4>3 DEF Pushed
                <5> QED BY <3>2, <5>1
            <4>4. CASE n + 1 = Len(A)
                <5>1. Len(more) = Len(R) /\ \A i \in 1 .. Len(R) : more[i] = R[i]
                    BY <1>7, <3>1, <4>2, <4>4 DEF Agrees
                <5>2. more = R
                    BY <1>4, <1>7, <5>1, SeqEqual
                <5>3. next = [tokens |-> <<>>, frame |-> tokens[3].frame]
                    BY <1>3, <1>6, <1>9, <3>4, <4>1, <4>2, <4>4, <5>2 DEF Pushed
                <5>4. tokens[3].frame # 0
                    BY <1>3, <3>4, ExpectedFacts
                <5> QED BY <5>3, <5>4
            <4> QED BY <1>4, <1>10, <2>6, <4>2, <4>3, <4>4
        <3>5. n <= 2 \/ n >= 3
            OBVIOUS
        <3> QED BY <3>3, <3>4, <3>5
    <2>7. \/ n <= 1 /\ (p = 1 \/ (p >= 3 /\ lost + Len(R) <= Bound))
          \/ n >= 3 /\ lost + (p - 1) + FragmentSize <= n
          \/ p - 1 > 0 /\ n = p - 1 /\ Agrees(tokens, R)
        <3>1. (p - 1 = 0 <=> p = 1) /\ (p - 1 >= 2 <=> p >= 3)
            BY <1>10
        <3> QED BY <1>1, <1>3, <2>1, <3>1 DEF Listens
    <2> QED BY <2>3, <2>4, <2>5, <2>6, <2>7
<1>16. CASE missing # 0
    <2>1. Loose(tokens) /\ p > 3
        BY <1>10, <1>16 DEF Tuned
    <2>2. SUFFICES /\ next.frame = 0 => Loose(next.tokens)
                   /\ next.frame # 0 => next.tokens = <<>>
        BY <1>1, <1>2, <1>8, <1>16 DEF Tuned
    <2>3. CASE next = Restart(t)
        BY <1>11, <2>3 DEF Loose
    <2>4. CASE n >= 3 /\ next = [tokens |-> more, frame |-> 0]
        <3>1. Len(more) >= FragmentSize
            BY <1>3, <1>7, <1>10, <2>1, <2>4 DEF Loose
        <3> QED BY <1>14, <2>4, <3>1 DEF Loose
    <2>5. CASE n >= 3 /\ next = [tokens |-> <<>>, frame |-> tokens[3].frame]
        <3>1. tokens[3].frame # 0
            BY <1>3, <2>5, ExpectedFacts
        <3> QED BY <2>5, <3>1
    <2>6. p # 2 /\ p # 3
        BY <1>10, <2>1
    <2> QED BY <1>3, <1>5, <1>6, <1>9, <2>3, <2>4, <2>5, <2>6 DEF Pushed
<1> QED BY <1>15, <1>16

------------------------------------------------------------------------------
(* What one ATT write does to the firmware.                                  *)
LEMMA ReceivedInOrder ==
    ASSUME NEW fw, NEW write, Len(write) \in Nat
    PROVE  \E g : /\ g[0] = fw
                  /\ \A i \in 1 .. Len(write) : g[i] = Received(g[i - 1], write[i])
                  /\ ReceivedAll(fw, write) = g[Len(write)]
<1> PICK n \in Nat : n = Len(write)
    OBVIOUS
<1> DEFINE IsRun(m, g) == g = [i \in 0 .. m |-> IF i = 0 THEN fw ELSE Received(g[i - 1], write[i])]
           T == {m \in Nat : \E g : IsRun(m, g)}
<1>1. 0 \in T
    <2>1. IsRun(0, [i \in 0 .. 0 |-> fw])
        OBVIOUS
    <2> QED BY <2>1
<1>2. ASSUME NEW m \in Nat, m \in T PROVE m + 1 \in T
    <2>1. PICK g : IsRun(m, g)
        BY <1>2
    <2> DEFINE h == [i \in 0 .. m + 1 |-> IF i = m + 1 THEN Received(g[m], write[m + 1]) ELSE g[i]]
    <2>2. ASSUME NEW i \in 0 .. m + 1 PROVE h[i] = IF i = 0 THEN fw ELSE Received(h[i - 1], write[i])
        <3>1. CASE i = m + 1
            BY <3>1
        <3>2. CASE i # m + 1
            <4>1. i \in 0 .. m /\ (i # 0 => i - 1 \in 0 .. m)
                BY <3>2
            <4>2. g[i] = IF i = 0 THEN fw ELSE Received(g[i - 1], write[i])
                BY <4>1, <2>1
            <4> QED BY <4>1, <4>2
        <3> QED BY <3>1, <3>2
    <2>3. IsRun(m + 1, h)
        BY <2>2
    <2>4. \E f : IsRun(m + 1, f)
        BY <2>3
    <2> HIDE DEF IsRun
    <2> QED BY <2>4
<1>3. n \in T
    <2> HIDE DEF T
    <2> QED BY <1>1, <1>2, Induct
<1>4. IsRun(n, CHOOSE g : IsRun(n, g))
    BY <1>3
<1>5. PICK g : g = (CHOOSE h : IsRun(n, h))
    OBVIOUS
<1>6. ReceivedAll(fw, write) = g[n]
    BY <1>5 DEF ReceivedAll
<1>7. g = [i \in 0 .. n |-> IF i = 0 THEN fw ELSE Received(g[i - 1], write[i])]
    BY <1>4, <1>5
<1>8. g[0] = fw
    BY <1>7
<1>9. ASSUME NEW i \in 1 .. n PROVE g[i] = Received(g[i - 1], write[i])
    BY <1>7
<1> QED BY <1>6, <1>8, <1>9

Asked == [session : 1 .. MaxSessions, sequence : Ids, command : Commands]
Collected(tokens) == [decoder |-> tokens, pending |-> pending, tx |-> tx, handled |-> handled, stopped |-> FALSE]
Firmware == Collected(decoder)

LEMMA Replaced ==
    ASSUME NEW fw, NEW a, NEW b, fw = Collected(a)
    PROVE  [fw EXCEPT !.decoder = b] = Collected(b)
<1> DEFINE Fields == {"decoder", "pending", "tx", "handled", "stopped"}
<1>1. PICK y : y = Collected(b)
    OBVIOUS
<1>2. PICK z : z = [fw EXCEPT !.decoder = b]
    OBVIOUS
<1>3. DOMAIN y = Fields /\ DOMAIN fw = Fields /\ DOMAIN z = Fields
    BY <1>1, <1>2 DEF Collected
<1>4. /\ y.decoder = b /\ y.pending = fw.pending /\ y.tx = fw.tx /\ y.handled = fw.handled
    BY <1>1 DEF Collected
<1>5. y.stopped = FALSE /\ fw.stopped = FALSE
    BY <1>1 DEF Collected
<1>6. \A f \in Fields : z[f] = IF f = "decoder" THEN b ELSE fw[f]
    BY <1>2, <1>3
<1>7. \A f \in Fields : z[f] = y[f]
    BY <1>4, <1>5, <1>6
<1>8. y = [f \in Fields |-> y[f]]
    BY <1>1 DEF Collected
<1>9. z = [f \in Fields |-> z[f]]
    BY <1>2 DEF Collected
<1>10. y = z
    BY <1>3, <1>7, <1>8, <1>9
<1> QED BY <1>1, <1>2, <1>10

Outcome(r, k, missing, lost, write, fw) ==
    /\ Collecting(sent, fw.decoder)
    /\ Within(sent, fw.decoder, r, Base(k) + Len(write), missing)
    /\ \/ /\ fw = Collected(fw.decoder)
          /\ Tuned(sent, fw.decoder, lost, r, Base(k) + Len(write), missing)
       \/ /\ k = Count(sent, r) /\ missing = 0
          /\ fw = Handle(Collected(fw.decoder), r) /\ fw.decoder = <<>>

LEMMA WriteFacts ==
    ASSUME sent \in Seq(Asked), NEW r \in 1 .. Len(sent), NEW k \in 1 .. Count(sent, r),
           NEW missing \in Nat, k = 1 => missing = 0,
           Collecting(sent, decoder), Within(sent, decoder, r, Base(k), missing),
           NEW lost \in Nat, Tuned(sent, decoder, lost, r, Base(k), missing)
    PROVE  Outcome(r, k, missing, lost, Fragments(Request(sent, r))[k],
                   ReceivedAll(Firmware, Fragments(Request(sent, r))[k]))
<1>16. PICK n : n = Count(sent, r)
    OBVIOUS
<1>17. PICK write : write = Fragments(Request(sent, r))[k]
    OBVIOUS
<1>18. PICK fw : fw = ReceivedAll(Firmware, write)
    OBVIOUS
<1>1. PICK R : R = Request(sent, r)
    OBVIOUS
<1>2. R \in Seq(Tokens) /\ Len(R) \in Nat /\ Len(R) >= 4
    <2>1. r \in Nat
        OBVIOUS
    <2> QED BY <1>1, <2>1, FrameFacts DEF Request
<1>15. Cut(R, Fragments(R), n) /\ write = Fragments(R)[k]
    <2>1. Len(R) >= 1 /\ n = Len(Fragments(R))
        BY <1>1, <1>2, <1>16 DEF Count
    <2> QED BY <1>1, <1>2, <1>17, <2>1, FragmentFacts
<1>3. PICK b \in Nat : b = Base(k)
    BY <1>15, <1>16 DEF Cut
<1>4. PICK m \in Nat : m = Len(write)
    BY <1>15, <1>16 DEF Cut
<1>5. /\ n \in Nat /\ k \in Nat /\ k >= 1 /\ m >= 1
      /\ b + m = IF k = n THEN Len(R) ELSE Base(k + 1)
      /\ \A j \in 1 .. m : write[j] = R[b + j]
    BY <1>3, <1>4, <1>15, <1>16 DEF Cut
<1>6. k < n => b + m < Len(R)
    <2>1. CASE k < n
        <3>1. k + 1 \in 1 .. n /\ k # n
            BY <1>5, <2>1
        <3>2. Base(k + 1) < Len(R)
            BY <1>15, <3>1 DEF Cut
        <3> QED BY <1>5, <3>1, <3>2
    <2> QED BY <2>1
<1>7. b + m <= Len(R) /\ (b + m = Len(R) => k = n)
    BY <1>2, <1>5, <1>6, <1>16
<1>8. PICK g : /\ g[0] = Firmware
               /\ \A i \in 1 .. m : g[i] = Received(g[i - 1], write[i])
               /\ fw = g[m]
    <2>1. \E g : /\ g[0] = Firmware
                 /\ \A i \in 1 .. Len(write) : g[i] = Received(g[i - 1], write[i])
                 /\ ReceivedAll(Firmware, write) = g[Len(write)]
        <3>1. Len(write) \in Nat
            BY <1>4
        <3> QED BY <3>1, ReceivedInOrder
    <2> QED BY <1>4, <1>18, <2>1
<1> DEFINE Quiet(i) == /\ g[i] = Collected(g[i].decoder)
                       /\ Tuned(sent, g[i].decoder, lost, r, b + i, missing)
           Acted(i) == /\ i = m /\ k = n /\ missing = 0
                       /\ g[i] = Handle(Collected(g[i].decoder), r) /\ g[i].decoder = <<>>
           C(i) == i <= m => /\ Collecting(sent, g[i].decoder)
                             /\ Within(sent, g[i].decoder, r, b + i, missing)
                             /\ Quiet(i) \/ Acted(i)
           T == {i \in Nat : C(i)}
<1>9. 0 \in T
    <2>1. g[0].decoder = decoder /\ Quiet(0)
        <3>1. g[0] = Collected(decoder)
            BY <1>8 DEF Firmware
        <3>2. g[0].decoder = decoder
            BY <3>1 DEF Collected
        <3>3. Tuned(sent, g[0].decoder, lost, r, b + 0, missing)
            BY <1>3, <3>2
        <3> QED BY <3>1, <3>2, <3>3
    <2>2. b + 0 = b
        OBVIOUS
    <2> QED BY <1>3, <2>1, <2>2
<1>10. ASSUME NEW i \in Nat, i \in T PROVE i + 1 \in T
    <2> SUFFICES ASSUME i + 1 <= m PROVE C(i + 1)
        OBVIOUS
    <2>1. i < m /\ i # m /\ i + 1 \in 1 .. m /\ (i + 1) - 1 = i
        BY <1>4
    <2>2. PICK D : D = g[i].decoder
        OBVIOUS
    <2>3. /\ Collecting(sent, D) /\ Within(sent, D, r, b + i, missing) /\ g[i] = Collected(D)
          /\ Tuned(sent, D, lost, r, b + i, missing)
        BY <1>10, <2>1, <2>2
    <2>4. PICK p \in 1 .. Len(R) : p = b + (i + 1)
        BY <1>2, <1>3, <1>4, <1>7, <2>1
    <2>5. write[i + 1] = R[p]
        BY <1>5, <2>1, <2>4
    <2>6. p <= 3 => missing = 0
        <3>1. CASE k >= 2
            <4>1. b >= 3
                BY <1>3, <1>5, <3>1, BaseFacts
            <4> QED BY <1>3, <2>4, <4>1
        <3> QED BY <1>5, <3>1
    <2>7. p - 1 = b + i
        BY <1>3, <2>4
    <2>8. PICK next : next = Push(D, R[p])
        OBVIOUS
    <2>9. /\ Collecting(sent, next.tokens)
          /\ Within(sent, next.tokens, r, p, missing)
          /\ next.frame \in {0, r}
          /\ next.frame = r => p = Len(R) /\ missing = 0
        <3>1. Within(sent, D, r, p - 1, missing)
            BY <2>3, <2>7
        <3>2. p \in 1 .. Len(Request(sent, r)) /\ next = Push(D, Request(sent, r)[p])
            BY <1>1, <2>4, <2>8
        <3>3. sent \in Seq([session : 1 .. MaxSessions, sequence : Ids, command : Commands])
            BY DEF Asked
        <3>4. /\ Collecting(sent, next.tokens)
              /\ Within(sent, next.tokens, r, p, missing)
              /\ next.frame \in {0, r}
              /\ next.frame = r => p = Len(Request(sent, r)) /\ missing = 0
            BY <2>3, <2>6, <3>1, <3>2, <3>3, PushStep
        <3> QED BY <1>1, <3>4
    <2>16. /\ next.frame = 0 => Tuned(sent, next.tokens, lost, r, p, missing)
           /\ next.frame # 0 => next.tokens = <<>>
        <3>1. Tuned(sent, D, lost, r, p - 1, missing)
            BY <2>3, <2>7
        <3>2. p \in 1 .. Len(Request(sent, r)) /\ next = Push(D, Request(sent, r)[p])
            BY <1>1, <2>4, <2>8
        <3> QED BY <2>3, <2>6, <3>1, <3>2, PushTuned
    <2>10. g[i + 1] = Received(Collected(D), R[p])
        BY <1>8, <2>1, <2>3, <2>5
    <2>11. ~ Collected(D).stopped /\ Collected(D).decoder = D
        BY DEF Collected
    <2>15. [Collected(D) EXCEPT !.decoder = next.tokens] = Collected(next.tokens)
        BY Replaced
    <2>12. g[i + 1] = IF next.frame = 0 THEN Collected(next.tokens) ELSE Handle(Collected(next.tokens), next.frame)
        BY <2>8, <2>10, <2>11, <2>15 DEF Received, NoFrame
    <2>13. CASE next.frame = 0
        <3>1. g[i + 1] = Collected(next.tokens)
            BY <2>12, <2>13
        <3>2. g[i + 1].decoder = next.tokens
            BY <3>1 DEF Collected
        <3>3. Quiet(i + 1)
            BY <2>4, <2>13, <2>16, <3>1, <3>2
        <3> QED BY <2>4, <2>9, <3>2, <3>3
    <2>14. CASE next.frame = r
        <3>1. g[i + 1] = Handle(Collected(next.tokens), r)
            BY <2>12, <2>14
        <3>2. g[i + 1].decoder = next.tokens
            BY <3>1 DEF Collected, Handle
        <3>3. i + 1 = m /\ k = n
            BY <1>3, <1>4, <1>7, <2>1, <2>4, <2>9, <2>14
        <3>4. Acted(i + 1)
            BY <2>9, <2>14, <2>16, <3>1, <3>2, <3>3
        <3> QED BY <2>4, <2>9, <3>2, <3>4
    <2> QED BY <2>9, <2>13, <2>14
<1>11. m \in T
    <2> HIDE DEF T
    <2> QED BY <1>9, <1>10, Induct
<1>12. /\ Collecting(sent, g[m].decoder)
       /\ Within(sent, g[m].decoder, r, b + m, missing)
       /\ Quiet(m) \/ Acted(m)
    BY <1>11
<1>13. Within(sent, fw.decoder, r, Base(k) + Len(write), missing)
    BY <1>3, <1>4, <1>8, <1>12
<1>19. b + m = Base(k) + Len(write)
    BY <1>3, <1>4
<1>14. Outcome(r, k, missing, lost, write, fw)
    BY <1>8, <1>12, <1>13, <1>16, <1>19 DEF Outcome
<1> QED BY <1>14, <1>17, <1>18

------------------------------------------------------------------------------
(* The fragments on their way, the ones still to be written after those in   *)
(* flight: the i-th is fragment k[i] of request r[i], and what follows it is *)
(* the next fragment, or the first one of a later request.                   *)
Way(u, w, i) == IF i <= Len(u) THEN u[i] ELSE w[i - Len(u)]

Comes(s, r, k, next, first) == IF k = Count(s, r) THEN next > r /\ first = 1
                                                  ELSE next = r /\ first = k + 1
OnTheWay(s, u, w, n, r, k) ==
    /\ u \in Seq(Seq(Tokens)) /\ w \in Seq(Seq(Tokens)) /\ n = Len(u) + Len(w)
    /\ \A i \in 1 .. n :
          /\ r[i] \in 1 .. Len(s) /\ k[i] \in 1 .. Count(s, r[i])
          /\ Way(u, w, i) = Fragments(Request(s, r[i]))[k[i]]
    /\ \A i \in 1 .. n - 1 : Comes(s, r[i], k[i], r[i + 1], k[i + 1])
    /\ n > 0 => k[n] = Count(s, r[n])

LEMMA RequestFacts ==
    ASSUME NEW s, NEW r \in Nat, NEW f, f = Request(s, r), NEW n, n = Count(s, r)
    PROVE  /\ f \in Seq(Tokens) /\ Len(f) \in Nat /\ Len(f) >= 4
           /\ f[Len(f)].frame = r
           /\ \A p \in 1 .. Len(f) : f[p].kind = "crc" <=> p = Len(f)
           /\ Cut(f, Fragments(f), n)
           /\ Len(Fragments(f)) = n
<1>1. /\ f \in Seq(Tokens) /\ Len(f) \in Nat /\ Len(f) >= 4
      /\ f[Len(f)] = Token("crc", "request", r, 0)
      /\ \A p \in 1 .. Len(f) : f[p].kind = "crc" <=> p = Len(f)
    BY FrameFacts DEF Request
<1>2. f[Len(f)].frame = r
    BY <1>1 DEF Token
<1>3. Len(f) >= 1 /\ n = Len(Fragments(f))
    BY <1>1 DEF Count
<1>4. Cut(f, Fragments(f), n)
    BY <1>1, <1>3, FragmentFacts
<1> QED BY <1>1, <1>2, <1>3, <1>4

LEMMA LastOfFragment ==
    ASSUME NEW s, NEW r \in Nat, NEW n, n = Count(s, r), NEW k \in 1 .. n,
           NEW write, write = Fragments(Request(s, r))[k]
    PROVE  /\ Last(write).kind = "crc" <=> k = n
           /\ k = n => Last(write).frame = r
<1>1. PICK f : f = Request(s, r)
    OBVIOUS
<1>2. /\ f \in Seq(Tokens) /\ Len(f) \in Nat
      /\ f[Len(f)].frame = r
      /\ \A p \in 1 .. Len(f) : f[p].kind = "crc" <=> p = Len(f)
      /\ Cut(f, Fragments(f), n)
      /\ write = Fragments(f)[k]
    BY <1>1, RequestFacts
<1>3. PICK m \in Nat, b \in Nat : m = Len(write) /\ b = Base(k)
    BY <1>2 DEF Cut
<1>4. m >= 1 /\ n \in Nat /\ b + m = IF k = n THEN Len(f) ELSE Base(k + 1)
    BY <1>2, <1>3 DEF Cut
<1>5. Last(write) = f[b + m]
    <2>1. \A j \in 1 .. Len(write) : write[j] = f[Base(k) + j]
        BY <1>2 DEF Cut
    <2>2. m \in 1 .. Len(write)
        BY <1>3, <1>4
    <2>3. write[m] = f[Base(k) + m]
        BY <2>1, <2>2
    <2> QED BY <1>3, <2>3 DEF Last
<1>6. CASE k = n
    BY <1>2, <1>3, <1>4, <1>5, <1>6
<1>7. CASE k # n
    <2>1. k + 1 \in 1 .. n
        BY <1>4, <1>7
    <2>2. Base(k + 1) < Len(f)
        BY <1>2, <2>1 DEF Cut
    <2>3. b + m \in 1 .. Len(f) /\ b + m # Len(f)
        BY <1>2, <1>3, <1>4, <1>7, <2>2
    <2>4. ~ (Last(write).kind = "crc")
        BY <1>2, <1>5, <2>3
    <2> QED BY <1>7, <2>4
<1> QED BY <1>6, <1>7

(* Sequences whose first element is taken away, or which grow by one.        *)
LEMMA TailFacts ==
    ASSUME NEW S, NEW q \in Seq(S), q # <<>>
    PROVE  /\ Len(q) \in Nat /\ Len(q) >= 1 /\ Head(q) = q[1] /\ q[1] \in S
           /\ Tail(q) \in Seq(S) /\ Len(Tail(q)) = Len(q) - 1
           /\ \A i \in 1 .. Len(q) - 1 : Tail(q)[i] = q[i + 1]
BY HeadTailProperties

LEMMA AppendFacts ==
    ASSUME NEW S, NEW q \in Seq(S), NEW e \in S
    PROVE  /\ Append(q, e) \in Seq(S) /\ Len(Append(q, e)) = Len(q) + 1 /\ Len(q) \in Nat
           /\ Append(q, e)[Len(q) + 1] = e
           /\ \A i \in 1 .. Len(q) : Append(q, e)[i] = q[i]
BY AppendProperties

LEMMA Advance ==
    ASSUME NEW s, NEW u, NEW w, NEW n, NEW r, NEW k, OnTheWay(s, u, w, n, r, k), u # <<>>,
           NEW r2, r2 = [i \in 1 .. n - 1 |-> r[i + 1]],
           NEW k2, k2 = [i \in 1 .. n - 1 |-> k[i + 1]]
    PROVE  OnTheWay(s, Tail(u), w, n - 1, r2, k2) /\ n \in Nat /\ n >= 1
<1>1. PICK v : v = Tail(u)
    OBVIOUS
<1>2. PICK a \in Nat, b \in Nat : a = Len(u) /\ b = Len(w)
    BY DEF OnTheWay
<1>3. /\ a >= 1
      /\ v \in Seq(Seq(Tokens)) /\ Len(v) = a - 1
      /\ \A i \in 1 .. a - 1 : v[i] = u[i + 1]
    BY <1>1, <1>2, TailFacts DEF OnTheWay
<1>4. n \in Nat /\ n >= 1 /\ n - 1 = Len(v) + Len(w) /\ n = a + b
    BY <1>2, <1>3 DEF OnTheWay
<1>5. PICK m \in Nat : m = n - 1
    BY <1>4
<1>6. ASSUME NEW i \in 1 .. m
      PROVE  /\ r2[i] \in 1 .. Len(s) /\ k2[i] \in 1 .. Count(s, r2[i])
             /\ Way(v, w, i) = Fragments(Request(s, r2[i]))[k2[i]]
    <2>1. i + 1 \in 1 .. n
        BY <1>4, <1>5
    <2>2. /\ r[i + 1] \in 1 .. Len(s) /\ k[i + 1] \in 1 .. Count(s, r[i + 1])
          /\ Way(u, w, i + 1) = Fragments(Request(s, r[i + 1]))[k[i + 1]]
        BY <2>1 DEF OnTheWay
    <2>3. r2[i] = r[i + 1] /\ k2[i] = k[i + 1]
        BY <1>5
    <2>4. Way(v, w, i) = Way(u, w, i + 1)
        <3>1. CASE i <= a - 1
            <4>1. i \in 1 .. a - 1 /\ i + 1 <= a
                BY <1>2, <1>5, <3>1
            <4> QED BY <1>2, <1>3, <3>1, <4>1 DEF Way
        <3>2. CASE ~ (i <= a - 1)
            <4>1. ~ (i + 1 <= a) /\ i - (a - 1) = (i + 1) - a
                BY <1>2, <1>5, <3>2
            <4> QED BY <1>2, <1>3, <3>2, <4>1 DEF Way
        <3> QED BY <3>1, <3>2
    <2> QED BY <2>2, <2>3, <2>4
<1>7. ASSUME NEW i \in 1 .. m - 1
      PROVE  Comes(s, r2[i], k2[i], r2[i + 1], k2[i + 1])
    <2>1. i \in 1 .. n - 1 /\ i + 1 \in 1 .. n - 1
        BY <1>4, <1>5
    <2>2. Comes(s, r[i + 1], k[i + 1], r[(i + 1) + 1], k[(i + 1) + 1])
        BY <2>1 DEF OnTheWay
    <2>3. r2[i] = r[i + 1] /\ k2[i] = k[i + 1] /\ r2[i + 1] = r[(i + 1) + 1] /\ k2[i + 1] = k[(i + 1) + 1]
        BY <2>1
    <2> QED BY <2>2, <2>3
<1>8. ASSUME m > 0 PROVE k2[m] = Count(s, r2[m])
    <2>1. m \in 1 .. n - 1 /\ m + 1 = n /\ n > 0
        BY <1>4, <1>5, <1>8
    <2>2. k[n] = Count(s, r[n])
        BY <2>1 DEF OnTheWay
    <2> QED BY <2>1, <2>2
<1>9. w \in Seq(Seq(Tokens)) /\ m = Len(v) + Len(w)
    BY <1>4, <1>5 DEF OnTheWay
<1>10. OnTheWay(s, v, w, m, r2, k2)
    BY <1>3, <1>6, <1>7, <1>8, <1>9 DEF OnTheWay
<1> QED BY <1>1, <1>4, <1>5, <1>10

LEMMA Written ==
    ASSUME NEW s, NEW u, NEW w, NEW n, NEW r, NEW k, OnTheWay(s, u, w, n, r, k), w # <<>>
    PROVE  OnTheWay(s, Append(u, Head(w)), Tail(w), n, r, k)
<1>1. PICK u2, w2 : u2 = Append(u, Head(w)) /\ w2 = Tail(w)
    OBVIOUS
<1>2. PICK a \in Nat, b \in Nat : a = Len(u) /\ b = Len(w)
    BY DEF OnTheWay
<1>3. /\ b >= 1 /\ Head(w) = w[1] /\ w[1] \in Seq(Tokens)
      /\ w2 \in Seq(Seq(Tokens)) /\ Len(w2) = b - 1
      /\ \A i \in 1 .. b - 1 : w2[i] = w[i + 1]
    BY <1>1, <1>2, TailFacts DEF OnTheWay
<1>4. /\ u2 \in Seq(Seq(Tokens)) /\ Len(u2) = a + 1
      /\ u2[a + 1] = w[1]
      /\ \A i \in 1 .. a : u2[i] = u[i]
    <2>1. u \in Seq(Seq(Tokens)) /\ u2 = Append(u, w[1])
        BY <1>1, <1>3 DEF OnTheWay
    <2> QED BY <1>2, <1>3, <2>1, AppendFacts
<1>5. n = a + b /\ n = Len(u2) + Len(w2)
    BY <1>2, <1>3, <1>4 DEF OnTheWay
<1>6. ASSUME NEW i \in 1 .. n PROVE Way(u2, w2, i) = Way(u, w, i)
    <2>1. CASE i <= a
        BY <1>2, <1>4, <2>1 DEF Way
    <2>2. CASE i = a + 1
        BY <1>2, <1>4, <2>2 DEF Way
    <2>3. CASE i > a + 1
        <3>1. ~ (i <= a) /\ ~ (i <= a + 1) /\ i - (a + 1) \in 1 .. b - 1 /\ (i - (a + 1)) + 1 = i - a
            BY <1>2, <1>5, <2>3
        <3> QED BY <1>2, <1>3, <1>4, <3>1 DEF Way
    <2> QED BY <1>2, <1>5, <2>1, <2>2, <2>3
<1>7. OnTheWay(s, u2, w2, n, r, k)
    BY <1>3, <1>4, <1>5, <1>6 DEF OnTheWay
<1> QED BY <1>1, <1>7

LEMMA Grown ==
    ASSUME NEW S, NEW s \in Seq(S), NEW x \in S
    PROVE  \A i \in 1 .. Len(s) : /\ Request(Append(s, x), i) = Request(s, i)
                                 /\ Count(Append(s, x), i) = Count(s, i)
<1> SUFFICES ASSUME NEW i \in 1 .. Len(s)
             PROVE  Request(Append(s, x), i) = Request(s, i) /\ Count(Append(s, x), i) = Count(s, i)
    OBVIOUS
<1>1. Append(s, x)[i] = s[i]
    BY AppendFacts
<1>2. Request(Append(s, x), i) = Request(s, i)
    BY <1>1 DEF Request
<1> QED BY <1>2 DEF Count

Longer(r, n, m, new) == [i \in 1 .. m |-> IF i <= n THEN r[i] ELSE new]
Further(k, n, m) == [i \in 1 .. m |-> IF i <= n THEN k[i] ELSE i - n]
Joins(s, u, n, r, k, new, c) ==
    /\ OnTheWay(s, u, Fragments(Request(s, new)), n + c, Longer(r, n, n + c, new), Further(k, n, n + c))
    /\ n \in Nat /\ c \in Nat /\ c >= 1

LEMMA Queued ==
    ASSUME NEW S, NEW s \in Seq(S), NEW x \in S,
           NEW u, NEW n, NEW r, NEW k, OnTheWay(s, u, <<>>, n, r, k)
    PROVE  Joins(Append(s, x), u, n, r, k, Len(s) + 1, Count(Append(s, x), Len(s) + 1))
<1>20. PICK s2 : s2 = Append(s, x)
    OBVIOUS
<1>21. PICK new : new = Len(s) + 1
    OBVIOUS
<1>22. PICK w2 : w2 = Fragments(Request(s2, new))
    OBVIOUS
<1>23. PICK c : c = Count(s2, new)
    OBVIOUS
<1>24. PICK r2 : r2 = Longer(r, n, n + c, new)
    OBVIOUS
<1>25. PICK k2 : k2 = Further(k, n, n + c)
    OBVIOUS
<1>1. PICK l \in Nat : l = Len(s)
    OBVIOUS
<1>2. /\ Len(s2) = l + 1 /\ new = l + 1
      /\ \A i \in 1 .. l : Request(s2, i) = Request(s, i) /\ Count(s2, i) = Count(s, i)
    <2>1. Len(s2) = Len(s) + 1
        BY <1>20, AppendFacts
    <2>2. ASSUME NEW i \in 1 .. Len(s) PROVE Request(s2, i) = Request(s, i) /\ Count(s2, i) = Count(s, i)
        BY <1>20, Grown
    <2> QED BY <1>1, <1>21, <2>1, <2>2
<1>3. n \in Nat /\ n = Len(u)
    BY DEF OnTheWay
<1>4. c \in Nat /\ c >= 1 /\ w2 \in Seq(Seq(Tokens)) /\ Len(w2) = c
    <2>1. new \in Nat
        BY <1>2
    <2>2. PICK f : f = Request(s2, new)
        OBVIOUS
    <2>3. Cut(f, w2, c) /\ Len(w2) = c
        BY <1>22, <1>23, <2>1, <2>2, RequestFacts
    <2> QED BY <2>3 DEF Cut
<1>5. PICK m \in Nat : m = n + c
    BY <1>3, <1>4
<1>6. ASSUME NEW i \in 1 .. n
      PROVE  r2[i] = r[i] /\ k2[i] = k[i] /\ r[i] \in 1 .. l /\ Count(s2, r[i]) = Count(s, r[i])
             /\ Request(s2, r[i]) = Request(s, r[i])
    <2>1. i \in 1 .. n + c /\ i <= n
        BY <1>3, <1>4
    <2>2. r[i] \in 1 .. l
        BY <1>1 DEF OnTheWay
    <2> QED BY <1>2, <1>5, <1>24, <1>25, <2>1, <2>2 DEF Longer, Further
<1>7. ASSUME NEW i \in n + 1 .. m
      PROVE  r2[i] = new /\ k2[i] = i - n /\ i - n \in 1 .. c
    <2>1. i \in 1 .. n + c /\ ~ (i <= n)
        BY <1>3, <1>4, <1>5
    <2> QED BY <1>3, <1>4, <1>5, <1>24, <1>25, <2>1 DEF Longer, Further
<1>8. ASSUME NEW i \in 1 .. m
      PROVE  /\ r2[i] \in 1 .. Len(s2) /\ k2[i] \in 1 .. Count(s2, r2[i])
             /\ Way(u, w2, i) = Fragments(Request(s2, r2[i]))[k2[i]]
    <2>1. CASE i \in 1 .. n
        <3>1. /\ k[i] \in 1 .. Count(s, r[i])
              /\ Way(u, <<>>, i) = Fragments(Request(s, r[i]))[k[i]]
            BY <2>1 DEF OnTheWay
        <3>2. i <= Len(u)
            BY <1>3, <2>1
        <3>3. Way(u, w2, i) = Way(u, <<>>, i)
            BY <3>2 DEF Way
        <3>4. r[i] \in 1 .. Len(s2)
            <4>1. PICK q \in 1 .. l : q = r[i]
                BY <1>6, <2>1
            <4> QED BY <1>2, <4>1
        <3> QED BY <1>6, <2>1, <3>1, <3>3, <3>4
    <2>2. CASE i \in n + 1 .. m
        <3>1. new \in 1 .. Len(s2)
            BY <1>2
        <3>2. ~ (i <= Len(u))
            BY <1>3, <2>2
        <3>3. Way(u, w2, i) = w2[i - n]
            BY <1>3, <3>2 DEF Way
        <3> QED BY <1>7, <1>22, <1>23, <2>2, <3>1, <3>3
    <2> QED BY <1>3, <2>1, <2>2
<1>9. ASSUME NEW i \in 1 .. m - 1
      PROVE  Comes(s2, r2[i], k2[i], r2[i + 1], k2[i + 1])
    <2>1. CASE i < n
        <3>1. i \in 1 .. n /\ i + 1 \in 1 .. n /\ i \in 1 .. n - 1
            BY <1>3, <2>1
        <3>2. Comes(s, r[i], k[i], r[i + 1], k[i + 1])
            BY <3>1 DEF OnTheWay
        <3> QED BY <1>6, <3>1, <3>2 DEF Comes
    <2>2. CASE i = n
        <3>1. i \in 1 .. n /\ i + 1 \in n + 1 .. m
            BY <1>3, <1>5, <2>2
        <3>2. k[i] = Count(s, r[i])
            BY <3>1, <2>2 DEF OnTheWay
        <3>3. k2[i + 1] = 1 /\ r2[i + 1] = new
            <4>1. r2[i + 1] = new /\ k2[i + 1] = (i + 1) - n
                BY <1>7, <3>1
            <4>2. (i + 1) - n = 1
                BY <1>3, <2>2
            <4> QED BY <4>1, <4>2
        <3>4. new > r[i]
            <4>1. PICK q \in 1 .. l : q = r[i]
                BY <1>6, <3>1
            <4> QED BY <1>2, <4>1
        <3> QED BY <1>6, <3>1, <3>2, <3>3, <3>4 DEF Comes
    <2>3. CASE i > n
        <3>1. i \in n + 1 .. m /\ i + 1 \in n + 1 .. m
            BY <1>3, <1>5, <2>3
        <3>2. r2[i] = new /\ k2[i] = i - n /\ r2[i + 1] = new /\ k2[i + 1] = (i + 1) - n
            BY <1>7, <3>1
        <3>3. i - n # c /\ (i + 1) - n = (i - n) + 1
            BY <1>3, <1>4, <1>5, <3>1
        <3> QED BY <1>23, <3>2, <3>3 DEF Comes
    <2> QED BY <1>3, <2>1, <2>2, <2>3
<1>10. k2[m] = Count(s2, r2[m])
    <2>1. m \in n + 1 .. m /\ m - n = c
        BY <1>3, <1>4, <1>5
    <2> QED BY <1>7, <1>23, <2>1
<1>11. u \in Seq(Seq(Tokens)) /\ m = Len(u) + Len(w2)
    BY <1>3, <1>4, <1>5 DEF OnTheWay
<1>12. OnTheWay(s2, u, w2, m, r2, k2)
    BY <1>4, <1>8, <1>9, <1>10, <1>11 DEF OnTheWay
<1>13. Joins(s2, u, n, r, k, new, c)
    BY <1>3, <1>4, <1>5, <1>12, <1>22, <1>24, <1>25 DEF Joins
<1> QED BY <1>13, <1>20, <1>21, <1>23

------------------------------------------------------------------------------
(* The invariant of the way up: how far the decoder is in the request whose  *)
(* fragment is the next to arrive, and which requests have been handled.     *)
InOrder(s, h) == /\ h \in Seq(Nat)
                 /\ \A i \in 1 .. Len(h) : h[i] \in 1 .. Len(s)
                 /\ \A i \in 1 .. Len(h) - 1 : h[i] < h[i + 1]
Front(s, r, k, came, tokens, h, lost) ==
    /\ came \in 0 .. k - 1
    /\ Within(s, tokens, r, Base(k), (k - 1) - came)
    /\ Tuned(s, tokens, lost, r, Base(k), (k - 1) - came)
    /\ came # k - 1 => lost = 0
    /\ \A i \in 1 .. Len(h) : h[i] < r
Ready(tokens, lost) == Len(tokens) <= 1 \/ (Len(tokens) >= 3 /\ lost + FragmentSize <= Len(tokens))
Tolerable(lost) == lost \in Nat /\ (lost = 0 \/ lost <= Bound)
Uplink(s, u, w, n, r, k, came, tokens, h, lost) ==
    /\ OnTheWay(s, u, w, n, r, k)
    /\ Collecting(s, tokens) /\ InOrder(s, h) /\ Tolerable(lost)
    /\ n = 0 => came = 0 /\ Ready(tokens, lost)
    /\ n > 0 => Front(s, r[1], k[1], came, tokens, h, lost)
WayUp == \E n, r, k : Uplink(sent, up, unwritten, n, r, k, arrived, decoder, handled, swallowed)

LEMMA BoundFacts == /\ MaxFrame \in Nat /\ MaxFrame >= 4
                    /\ Bound \in Nat /\ MaxFrame - FragmentSize <= Bound
BY ConstantFacts DEF MaxFrame, Bound

(* A request that begins finds the decoder ready for it, and a break leaves  *)
(* it so.                                                                    *)
LEMMA ReadyIsTuned ==
    ASSUME NEW s, NEW tokens, NEW lost, Ready(tokens, lost), lost \in Nat, tokens \in Seq(Tokens), NEW r
    PROVE  Tuned(s, tokens, lost, r, Base(1), 0)
<1>1. PICK b : b = Base(1)
    OBVIOUS
<1>2. b = 0
    BY <1>1, BaseFacts
<1>3. lost + b + FragmentSize = lost + FragmentSize
    BY <1>2, ConstantFacts
<1> QED BY <1>1, <1>2, <1>3 DEF Ready, Tuned, Listens

LEMMA TunedIsLoose ==
    ASSUME NEW s, NEW tokens, tokens \in Seq(Tokens), NEW lost \in Nat, NEW r, NEW k \in Nat, k >= 1,
           NEW missing, Tuned(s, tokens, lost, r, Base(k), missing)
    PROVE  Loose(tokens)
<1>1. PICK b \in Nat : b = Base(k)
    BY BaseFacts
<1>2. b > 0 => b >= FragmentSize
    <2>1. CASE k = 1
        BY <1>1, <2>1, BaseFacts
    <2>2. CASE k # 1
        <3>1. PICK j \in Nat : j = k - 1 /\ j >= 1 /\ j + 1 = k
            BY <2>2
        <3>2. Base(j + 1) = Base(j) + FragmentSize /\ Base(j) \in Nat
            BY <3>1, BaseFacts
        <3> QED BY <1>1, <3>1, <3>2, ConstantFacts
    <2> QED BY <2>1, <2>2
<1>3. Len(tokens) \in Nat
    OBVIOUS
<1>4. CASE missing = 0
    <2>1. \/ Len(tokens) <= 1
          \/ lost + b + FragmentSize <= Len(tokens)
          \/ b > 0 /\ Len(tokens) = b
        BY <1>1, <1>4 DEF Tuned, Listens
    <2> QED BY <1>2, <1>3, <2>1, ConstantFacts DEF Loose
<1>5. CASE missing # 0
    BY <1>5 DEF Tuned
<1> QED BY <1>4, <1>5

LEMMA LooseIsReady ==
    ASSUME NEW tokens, Loose(tokens), tokens \in Seq(Tokens)
    PROVE  Ready(tokens, 0) /\ Tolerable(0)
<1>1. Len(tokens) \in Nat /\ 0 + FragmentSize = FragmentSize
    BY ConstantFacts
<1>2. Ready(tokens, 0)
    BY <1>1, ConstantFacts DEF Ready, Loose
<1> QED BY <1>2 DEF Tolerable

LEMMA Turn ==
    ASSUME NEW s, NEW u, NEW w, NEW n, NEW r, NEW k, OnTheWay(s, u, w, n, r, k), u # <<>>,
           NEW a, a = r[1], NEW f, f = k[1], NEW c, c = Count(s, a),
           NEW came, NEW tokens, NEW h, Collecting(s, tokens), InOrder(s, h),
           NEW lost, Tolerable(lost),
           f # c => Front(s, a, f + 1, came, tokens, h, lost),
           f = c => /\ came = 0 /\ Ready(tokens, lost)
                    /\ \E p, missing : Within(s, tokens, a, p, missing)
                    /\ \A i \in 1 .. Len(h) : h[i] <= a
    PROVE  \E n2, r2, k2 : Uplink(s, Tail(u), w, n2, r2, k2, came, tokens, h, lost)
<1>1. PICK r2 : r2 = [i \in 1 .. n - 1 |-> r[i + 1]]
    OBVIOUS
<1>2. PICK k2 : k2 = [i \in 1 .. n - 1 |-> k[i + 1]]
    OBVIOUS
<1>3. OnTheWay(s, Tail(u), w, n - 1, r2, k2) /\ n \in Nat /\ n >= 1
    BY <1>1, <1>2, Advance
<1>4. a \in 1 .. Len(s) /\ f \in 1 .. c
    <2>1. 1 \in 1 .. n
        BY <1>3
    <2> QED BY <2>1 DEF OnTheWay
<1>5. c \in Nat /\ c >= 1
    <2>1. a \in Nat
        BY <1>4
    <2>2. PICK q : q = Request(s, a)
        OBVIOUS
    <2>3. Cut(q, Fragments(q), c)
        BY <2>1, <2>2, RequestFacts
    <2> QED BY <2>3 DEF Cut
<1>6. CASE n = 1
    <2>1. k[n] = c
        BY <1>6 DEF OnTheWay
    <2>2. f = c
        BY <1>6, <2>1
    <2>3. n - 1 = 0
        BY <1>6
    <2>4. Uplink(s, Tail(u), w, n - 1, r2, k2, came, tokens, h, lost)
        BY <1>3, <2>2, <2>3 DEF Uplink
    <2> QED BY <2>4
<1>7. CASE n > 1
    <2>1. 1 \in 1 .. n - 1 /\ 2 \in 1 .. n
        BY <1>3, <1>7
    <2>2. r2[1] = r[2] /\ k2[1] = k[2]
        BY <1>1, <1>2, <2>1
    <2>3. Comes(s, a, f, r[2], k[2])
        <3>1. Comes(s, r[1], k[1], r[1 + 1], k[1 + 1])
            BY <2>1 DEF OnTheWay
        <3> QED BY <3>1
    <2>4. Front(s, r2[1], k2[1], came, tokens, h, lost)
        <3>1. CASE f # c
            <4>1. r2[1] = a /\ k2[1] = f + 1
                BY <2>2, <2>3, <3>1 DEF Comes
            <4> QED BY <3>1, <4>1
        <3>2. CASE f = c
            <4>1. PICK b : b = r[2]
                OBVIOUS
            <4>2. r2[1] = b /\ k2[1] = 1 /\ b > a
                BY <2>2, <2>3, <3>2, <4>1 DEF Comes
            <4>3. b \in Nat /\ a \in Nat
                BY <1>4, <2>1, <4>1 DEF OnTheWay
            <4>4. PICK p, missing : Within(s, tokens, a, p, missing)
                BY <3>2
            <4>5. Within(s, tokens, b, Base(1), 0)
                <5> SUFFICES ASSUME Len(tokens) >= 3
                             PROVE  tokens[3].frame < b
                    BY <4>3 DEF Within, Collecting
                <5>1. PICK t \in 1 .. Len(s) : t = tokens[3].frame
                    BY DEF Collecting
                <5>2. t <= a
                    BY <4>4, <5>1 DEF Within
                <5> QED BY <4>2, <4>3, <5>1, <5>2
            <4>6. ASSUME NEW i \in 1 .. Len(h) PROVE h[i] < b
                <5>1. PICK t \in Nat : t = h[i]
                    BY DEF InOrder
                <5>2. t <= a
                    BY <3>2, <5>1
                <5> QED BY <4>2, <4>3, <5>1, <5>2
            <4>7. came \in 0 .. 1 - 1 /\ (1 - 1) - came = 0 /\ came = 1 - 1
                BY <3>2
            <4>8. Tuned(s, tokens, lost, b, Base(1), 0)
                BY <3>2, ReadyIsTuned DEF Tolerable, Collecting
            <4> QED BY <4>2, <4>5, <4>6, <4>7, <4>8 DEF Front
        <3> QED BY <3>1, <3>2
    <2>5. n - 1 # 0
        BY <1>7
    <2>6. Uplink(s, Tail(u), w, n - 1, r2, k2, came, tokens, h, lost)
        BY <1>3, <2>4, <2>5 DEF Uplink
    <2> QED BY <2>6
<1> QED BY <1>3, <1>6, <1>7

LEMMA FrontFacts ==
    ASSUME NEW s, NEW u, NEW w, NEW n, NEW r, NEW k, OnTheWay(s, u, w, n, r, k), u # <<>>,
           NEW a, a = r[1], NEW f, f = k[1], NEW c, c = Count(s, a)
    PROVE  /\ n \in Nat /\ n > 0
           /\ a \in 1 .. Len(s) /\ c \in Nat /\ f \in 1 .. c
           /\ Head(u) = Fragments(Request(s, a))[f]
<1>1. u \in Seq(Seq(Tokens)) /\ w \in Seq(Seq(Tokens)) /\ n = Len(u) + Len(w)
    BY DEF OnTheWay
<1>2. Len(u) \in Nat /\ Len(u) >= 1 /\ Head(u) = u[1]
    BY <1>1, TailFacts
<1>3. n \in Nat /\ n > 0 /\ 1 \in 1 .. n
    BY <1>1, <1>2
<1>4. a \in 1 .. Len(s) /\ f \in 1 .. c /\ Way(u, w, 1) = Fragments(Request(s, a))[f]
    BY <1>3 DEF OnTheWay
<1>5. Way(u, w, 1) = u[1]
    BY <1>2 DEF Way
<1>6. c \in Nat
    <2>1. a \in Nat
        BY <1>4
    <2>2. PICK q : q = Request(s, a)
        OBVIOUS
    <2>3. Cut(q, Fragments(q), c)
        BY <2>1, <2>2, RequestFacts
    <2> QED BY <2>3 DEF Cut
<1> QED BY <1>2, <1>3, <1>4, <1>5, <1>6

(* Where fragment k of request r ends.                                       *)
End(s, r, k) == IF k = Count(s, r) THEN Len(Request(s, r)) ELSE Base(k + 1)

LEMMA DeliverFacts ==
    ASSUME sent \in Seq(Asked), Deliver,
           NEW n, NEW r, NEW k, Uplink(sent, up, unwritten, n, r, k, arrived, decoder, handled, swallowed),
           NEW a, a = r[1], NEW f, f = k[1], NEW c, c = Count(sent, a)
    PROVE  /\ Collecting(sent, decoder')
           /\ Within(sent, decoder', a, End(sent, a, f), (f - 1) - arrived)
           /\ arrived' = IF f = c THEN 0 ELSE arrived + 1
           /\ whole' = IF f = c /\ arrived = c - 1 THEN whole \union {a} ELSE whole
           /\ \/ /\ handled' = handled /\ pending' = pending /\ tx' = tx
                 /\ Tuned(sent, decoder', swallowed, a, End(sent, a, f), (f - 1) - arrived)
                 /\ swallowed' = IF f = c /\ arrived = c - 1 THEN swallowed + Len(Request(sent, a)) ELSE swallowed
              \/ /\ f = c /\ arrived = c - 1
                 /\ handled' = Append(handled, a) /\ pending' \in {pending, a}
                 /\ tx' = tx \/ tx' = Transmit(tx, a)
                 /\ decoder' = <<>> /\ swallowed' = 0
<1>1. PICK write : write = Head(up)
    OBVIOUS
<1>2. PICK missing : missing = (f - 1) - arrived
    OBVIOUS
<1>3. up # <<>> /\ OnTheWay(sent, up, unwritten, n, r, k)
    BY DEF Deliver, Uplink
<1>4. /\ n > 0 /\ a \in 1 .. Len(sent) /\ c \in Nat /\ f \in 1 .. c
      /\ write = Fragments(Request(sent, a))[f]
    BY <1>1, <1>3, FrontFacts
<1>5. /\ Collecting(sent, decoder) /\ arrived \in 0 .. f - 1
      /\ Within(sent, decoder, a, Base(f), missing)
      /\ Tuned(sent, decoder, swallowed, a, Base(f), missing)
      /\ swallowed \in Nat /\ handled \in Seq(Nat)
    BY <1>2, <1>4 DEF Uplink, Front, Tolerable, InOrder
<1>6. missing \in Nat /\ (f = 1 => missing = 0) /\ (f = c => (missing = 0 <=> arrived = c - 1))
    BY <1>2, <1>4, <1>5
<1>7. PICK fw : fw = ReceivedAll(Firmware, write)
    OBVIOUS
<1>8. /\ decoder' = fw.decoder /\ pending' = fw.pending /\ tx' = fw.tx /\ handled' = fw.handled
      /\ arrived' = IF Last(write).kind = "crc" THEN 0 ELSE arrived + 1
      /\ whole' = IF Completes(write) THEN whole \union {Last(write).frame} ELSE whole
      /\ swallowed' = CASE handled' # handled -> 0
                         [] handled' = handled /\ Completes(write) ->
                               swallowed + Len(FrameOf("request", Last(write).frame))
                         [] OTHER -> swallowed
    BY <1>1, <1>7 DEF Deliver, Firmware, Collected
<1>9. /\ Last(write).kind = "crc" <=> f = c
      /\ f = c => Last(write).frame = a
    BY <1>4, LastOfFragment
<1>10. Completes(write) <=> f = c /\ arrived = c - 1
    <2>1. f = c => Len(Fragments(FrameOf("request", Last(write).frame))) = c
        BY <1>9 DEF Count, FrameOf, Request
    <2>2. arrived + 1 = c <=> arrived = c - 1
        BY <1>4, <1>5
    <2> QED BY <1>9, <2>1, <2>2 DEF Completes
<1>12. Base(f) + Len(write) = End(sent, a, f)
    <2>1. PICK q : q = Request(sent, a)
        OBVIOUS
    <2>2. a \in Nat
        BY <1>4
    <2>3. Cut(q, Fragments(q), c) /\ write = Fragments(q)[f]
        BY <1>4, <2>1, <2>2, RequestFacts
    <2> QED BY <1>4, <2>1, <2>3 DEF Cut, End
<1>11. /\ Collecting(sent, fw.decoder)
       /\ Within(sent, fw.decoder, a, End(sent, a, f), missing)
       /\ \/ /\ fw = Collected(fw.decoder)
             /\ Tuned(sent, fw.decoder, swallowed, a, End(sent, a, f), missing)
          \/ f = c /\ missing = 0 /\ fw = Handle(Collected(fw.decoder), a) /\ fw.decoder = <<>>
    <2>1. Outcome(a, f, missing, swallowed, Fragments(Request(sent, a))[f],
                  ReceivedAll(Firmware, Fragments(Request(sent, a))[f]))
        BY <1>4, <1>5, <1>6, WriteFacts
    <2>2. Outcome(a, f, missing, swallowed, write, fw)
        BY <1>4, <1>7, <2>1
    <2> QED BY <1>12, <2>2 DEF Outcome
<1>13. Collecting(sent, decoder') /\ Within(sent, decoder', a, End(sent, a, f), (f - 1) - arrived)
    BY <1>2, <1>8, <1>11
<1>14. arrived' = IF f = c THEN 0 ELSE arrived + 1
    BY <1>8, <1>9
<1>15. whole' = IF f = c /\ arrived = c - 1 THEN whole \union {a} ELSE whole
    BY <1>8, <1>9, <1>10
<1>17. CASE fw = Collected(fw.decoder) /\ Tuned(sent, fw.decoder, swallowed, a, End(sent, a, f), missing)
    <2>1. fw.handled = handled /\ fw.pending = pending /\ fw.tx = tx
        BY <1>17 DEF Collected
    <2>2. Tuned(sent, decoder', swallowed, a, End(sent, a, f), (f - 1) - arrived)
        BY <1>2, <1>8, <1>17
    <2>3. Completes(write) => FrameOf("request", Last(write).frame) = Request(sent, a)
        BY <1>9, <1>10 DEF FrameOf, Request
    <2>4. swallowed' = IF f = c /\ arrived = c - 1 THEN swallowed + Len(Request(sent, a)) ELSE swallowed
        BY <1>8, <1>10, <2>1, <2>3
    <2> QED BY <1>8, <1>13, <1>14, <1>15, <2>1, <2>2, <2>4
<1>18. CASE f = c /\ missing = 0 /\ fw = Handle(Collected(fw.decoder), a) /\ fw.decoder = <<>>
    <2>1. PICK x : x = Collected(fw.decoder)
        OBVIOUS
    <2>2. x.handled = handled /\ x.pending = pending /\ x.tx = tx /\ fw = Handle(x, a)
        BY <1>18, <2>1 DEF Collected
    <2>3. DOMAIN x = {"decoder", "pending", "tx", "handled", "stopped"}
        BY <2>1 DEF Collected
    <2>4. /\ fw.handled = Append(handled, a)
          /\ fw.pending \in {pending, a}
          /\ fw.tx = tx \/ fw.tx = Transmit(tx, a)
        BY <2>2, <2>3 DEF Handle
    <2>5. handled' # handled
        <3>1. PICK g : g = Append(handled, a)
            OBVIOUS
        <3>2. Len(g) = Len(handled) + 1 /\ Len(handled) \in Nat
            BY <1>4, <1>5, <3>1, AppendFacts
        <3>3. g # handled
            BY <3>2
        <3> QED BY <1>8, <2>4, <3>1, <3>3
    <2>6. swallowed' = 0 /\ decoder' = <<>>
        BY <1>8, <1>18, <2>5
    <2> QED BY <1>6, <1>8, <1>13, <1>14, <1>15, <1>18, <2>4, <2>6
<1> QED BY <1>11, <1>17, <1>18

------------------------------------------------------------------------------
(* Connections, requests and their sequence numbers.                         *)
Basics ==
    /\ connected \in BOOLEAN /\ subscribed \in BOOLEAN
    /\ session \in 0 .. MaxSessions /\ losses \in 0 .. MaxLosses
    /\ sent \in Seq(Asked) /\ Len(sent) <= MaxRequests
    /\ sequence \in 1 .. Len(sent) + 1 /\ waiting \in 0 .. Len(sent)
    /\ subscribed => connected
    /\ connected => session >= 1
    /\ ~ subscribed => waiting = 0
    /\ waiting = 0 => unwritten = <<>>
Numbers ==
    /\ waiting # 0 => sent[waiting].session = session
    /\ \A i \in 1 .. Len(sent) : /\ sent[i].session <= session
                                 /\ sent[i].session = session => sent[i].sequence < sequence
    /\ \A i, j \in 1 .. Len(sent) :
          i < j /\ sent[i].session = sent[j].session => sent[i].sequence < sent[j].sequence

LEMMA AskedFacts ==
    ASSUME NEW s \in Seq(Asked), NEW i \in 1 .. Len(s)
    PROVE  s[i].session \in Nat /\ s[i].sequence \in Nat
<1>1. s[i] \in Asked
    OBVIOUS
<1>2. s[i].session \in 1 .. MaxSessions /\ s[i].sequence \in 1 .. MaxRequests
    BY <1>1 DEF Asked, Ids
<1>3. 1 .. MaxSessions \subseteq Nat /\ 1 .. MaxRequests \subseteq Nat
    BY ConstantFacts
<1> QED BY <1>2, <1>3

LEMMA SentStep ==
    ASSUME Basics, NEW command \in Commands, Send(command)
    PROVE  \E request \in Asked :
              /\ request.session = session /\ request.sequence = sequence
              /\ sent' = Append(sent, request) /\ sent' \in Seq(Asked)
              /\ Len(sent) \in Nat /\ Len(sent') = Len(sent) + 1 /\ Len(sent') <= MaxRequests
              /\ waiting' = Len(sent') /\ sequence' = sequence + 1
              /\ unwritten' = Fragments(Request(sent', Len(sent')))
<1>1. PICK request : request = [session |-> session, sequence |-> sequence, command |-> command]
    OBVIOUS
<1>2. PICK l \in Nat : l = Len(sent)
    BY DEF Basics
<1>3. l < MaxRequests /\ subscribed /\ sent' = Append(sent, request) /\ waiting' = Len(sent')
      /\ unwritten' = Fragments(Encode("request", waiting', command))
    BY <1>1, <1>2 DEF Send
<1>4. session \in 1 .. MaxSessions /\ sequence \in 1 .. MaxRequests
    BY <1>2, <1>3, ConstantFacts DEF Basics
<1>5. request \in Asked
    BY <1>1, <1>4 DEF Asked, Ids
<1>6. sent' \in Seq(Asked) /\ Len(sent') = l + 1 /\ sent'[l + 1] = request
    BY <1>2, <1>3, <1>5, AppendFacts DEF Basics
<1>7. unwritten' = Fragments(Request(sent', Len(sent')))
    BY <1>1, <1>3, <1>6 DEF Request
<1>8. sequence' = sequence + 1
    BY DEF Send, NextSequence
<1>9. l + 1 <= MaxRequests
    BY <1>2, <1>3, ConstantFacts
<1>10. request.session = session /\ request.sequence = sequence
    BY <1>1
<1> QED BY <1>2, <1>3, <1>5, <1>6, <1>7, <1>8, <1>9, <1>10

LEMMA BasicsStep ==
    ASSUME Basics, [Next]_vars
    PROVE  Basics'
<1> USE DEF Basics
<1>1. CASE UNCHANGED vars
    BY <1>1 DEF vars, radio, client, firmware, history
<1>2. CASE Connect
    <2>1. session' \in 0 .. MaxSessions /\ session' >= 1 /\ sequence' \in 1 .. Len(sent) + 1
        BY <1>2, ConstantFacts DEF Connect
    <2>2. UNCHANGED <<losses, sent, waiting, unwritten>>
        BY <1>2 DEF Connect
    <2>3. waiting = 0
        BY <1>2 DEF Connect
    <2>4. connected' = TRUE /\ subscribed' = FALSE
        BY <1>2 DEF Connect
    <2> QED BY <2>1, <2>2, <2>3, <2>4
<1>3. CASE Subscribe
    BY <1>3 DEF Subscribe, client, firmware, history
<1>4. CASE Disconnect
    <2>1. waiting' \in 0 .. Len(sent) /\ waiting' = 0 /\ unwritten' = <<>>
        BY <1>4 DEF Disconnect
    <2>2. UNCHANGED <<session, losses, sent, sequence>>
        BY <1>4 DEF Disconnect
    <2>3. connected' = FALSE /\ subscribed' = FALSE
        BY <1>4 DEF Disconnect
    <2> QED BY <2>1, <2>2, <2>3
<1>5. ASSUME NEW command \in Commands, Send(command) PROVE Basics'
    <2>1. /\ sent' \in Seq(Asked)
          /\ Len(sent) \in Nat /\ Len(sent') = Len(sent) + 1 /\ Len(sent') <= MaxRequests
          /\ waiting' = Len(sent') /\ sequence' = sequence + 1
        BY <1>5, SentStep
    <2>2. sequence' \in 1 .. Len(sent') + 1 /\ waiting' \in 0 .. Len(sent') /\ waiting' # 0
        BY <2>1
    <2> QED BY <1>5, <2>1, <2>2 DEF Send, radio
<1>6. CASE Write
    BY <1>6 DEF Write
<1>7. CASE LoseWrite
    BY <1>7, ConstantFacts DEF LoseWrite, client
<1>8. CASE Deliver
    BY <1>8 DEF Deliver, client
<1>9. CASE Round
    BY <1>9 DEF Round, client
<1>10. CASE Arrive
    BY <1>10 DEF Arrive
<1>11. CASE Accept
    BY <1>11 DEF Accept, radio, NextSequence
<1>12. CASE GiveUp
    BY <1>12 DEF GiveUp, radio
<1> QED BY <1>1, <1>2, <1>3, <1>4, <1>5, <1>6, <1>7, <1>8, <1>9, <1>10, <1>11, <1>12 DEF Next

LEMMA NumbersStep ==
    ASSUME Basics, Numbers, [Next]_vars
    PROVE  Numbers'
<1>1. CASE UNCHANGED <<session, sequence, sent, waiting>>
    BY <1>1 DEF Numbers
<1>2. CASE Connect
    <2>1. session' = session + 1 /\ sent' = sent /\ waiting' = waiting /\ waiting = 0
        BY <1>2 DEF Connect, Basics
    <2>2. ASSUME NEW i \in 1 .. Len(sent) PROVE sent[i].session < session'
        <3>1. sent[i].session \in Nat /\ session \in Nat
            BY AskedFacts DEF Basics
        <3> QED BY <2>1, <3>1 DEF Numbers
    <2>3. ASSUME NEW i \in 1 .. Len(sent) PROVE sent[i].session \in Nat /\ session' \in Nat
        BY <2>1, AskedFacts DEF Basics
    <2> QED BY <2>1, <2>2, <2>3 DEF Numbers
<1>3. ASSUME NEW command \in Commands, Send(command) PROVE Numbers'
    <2>1. PICK l \in Nat : l = Len(sent)
        BY DEF Basics
    <2>2. PICK request \in Asked :
              /\ request.session = session /\ request.sequence = sequence
              /\ sent' = Append(sent, request)
              /\ Len(sent') = l + 1
              /\ waiting' = l + 1 /\ sequence' = sequence + 1
        BY <1>3, <2>1, SentStep
    <2>3. session' = session /\ session \in Nat /\ sequence \in Nat
        BY <1>3, <2>1 DEF Send, radio, Basics
    <2>4. sent'[l + 1] = request /\ \A i \in 1 .. l : sent'[i] = sent[i]
        BY <2>1, <2>2, AppendFacts DEF Basics
    <2>5. ASSUME NEW i \in 1 .. l PROVE sent[i].session \in Nat /\ sent[i].sequence \in Nat
        BY <2>1, AskedFacts DEF Basics
    <2>6. ASSUME NEW i \in 1 .. l + 1
          PROVE  /\ sent'[i].session <= session
                 /\ sent'[i].session = session => sent'[i].sequence < sequence + 1
        <3>1. CASE i = l + 1
            BY <2>2, <2>3, <2>4, <3>1
        <3>2. CASE i \in 1 .. l
            <4>1. PICK q \in Nat, e \in Nat : q = sent[i].sequence /\ e = sent[i].session
                BY <2>5, <3>2
            <4>2. e <= session /\ (e = session => q < sequence)
                BY <2>1, <3>2, <4>1 DEF Numbers
            <4> QED BY <2>3, <2>4, <3>2, <4>1, <4>2
        <3> QED BY <3>1, <3>2
    <2>7. ASSUME NEW i \in 1 .. l + 1, NEW j \in 1 .. l + 1, i < j, sent'[i].session = sent'[j].session
          PROVE  sent'[i].sequence < sent'[j].sequence
        <3>1. i \in 1 .. l
            BY <2>7
        <3>2. CASE j = l + 1
            <4>1. sent[i].session = session
                BY <2>2, <2>4, <2>7, <3>1, <3>2
            <4>2. sent[i].sequence < sequence
                BY <2>1, <3>1, <4>1 DEF Numbers
            <4> QED BY <2>2, <2>4, <3>1, <3>2, <4>2
        <3>3. CASE j \in 1 .. l
            BY <2>1, <2>4, <2>7, <3>1, <3>3 DEF Numbers
        <3> QED BY <3>2, <3>3
    <2>8. sent'[waiting'].session = session'
        BY <2>2, <2>3, <2>4
    <2> QED BY <2>2, <2>3, <2>6, <2>7, <2>8 DEF Numbers
<1>4. CASE UNCHANGED <<session, sequence, sent>> /\ waiting' = 0
    BY <1>4 DEF Numbers
<1>5. CASE Accept
    <2>1. UNCHANGED <<session, sequence, sent>> /\ waiting' = 0
        BY <1>5 DEF Accept, radio, NextSequence
    <2> QED BY <1>4, <2>1
<1> QED BY <1>1, <1>2, <1>3, <1>4, <1>5 DEF Next, vars, radio, client, firmware, history, Subscribe, Disconnect,
         Write, LoseWrite, Deliver, Round, Arrive, GiveUp

------------------------------------------------------------------------------
(* Every step keeps the invariant of the way up.                             *)
LEMMA StillCollecting ==
    ASSUME NEW s \in Seq(Asked), NEW x \in Asked, NEW tokens, Collecting(s, tokens)
    PROVE  /\ Collecting(Append(s, x), tokens)
           /\ \A r \in 1 .. Len(s) : \A p, missing :
                 /\ Within(s, tokens, r, p, missing) => Within(Append(s, x), tokens, r, p, missing)
                 /\ \A lost : Tuned(s, tokens, lost, r, p, missing) => Tuned(Append(s, x), tokens, lost, r, p, missing)
<1>1. PICK s2 : s2 = Append(s, x)
    OBVIOUS
<1>2. Len(s) \in Nat /\ Len(s2) = Len(s) + 1
    BY <1>1, AppendFacts
<1>3. \A i \in 1 .. Len(s) : Request(s2, i) = Request(s, i)
    BY <1>1, Grown
<1>4. Collecting(s2, tokens)
    <2> SUFFICES ASSUME Len(tokens) >= 3
                 PROVE  /\ tokens[3].frame \in 1 .. Len(s2)
                        /\ tokens[3] = Request(s2, tokens[3].frame)[3]
                        /\ Len(tokens) < Len(Request(s2, tokens[3].frame))
        BY DEF Collecting
    <2>1. PICK t \in 1 .. Len(s) : t = tokens[3].frame
        BY DEF Collecting
    <2>2. tokens[3] = Request(s, t)[3] /\ Len(tokens) < Len(Request(s, t))
        BY <2>1 DEF Collecting
    <2>3. t \in 1 .. Len(s2)
        BY <1>2
    <2> QED BY <1>3, <2>1, <2>2, <2>3
<1>5. ASSUME NEW r \in 1 .. Len(s), NEW p, NEW missing, Within(s, tokens, r, p, missing)
      PROVE  Within(s2, tokens, r, p, missing)
    BY <1>3, <1>5 DEF Within
<1>6. ASSUME NEW r \in 1 .. Len(s), NEW p, NEW missing, NEW lost, Tuned(s, tokens, lost, r, p, missing)
      PROVE  Tuned(s2, tokens, lost, r, p, missing)
    <2>1. Request(s2, r) = Request(s, r)
        BY <1>3
    <2> QED BY <1>6, <2>1 DEF Tuned, Listens
<1> QED BY <1>1, <1>4, <1>5, <1>6

LEMMA WayUpIsLoose ==
    ASSUME NEW n, NEW r, NEW k, Uplink(sent, up, unwritten, n, r, k, arrived, decoder, handled, swallowed)
    PROVE  Loose(decoder)
<1>1. decoder \in Seq(Tokens) /\ Len(decoder) \in Nat /\ swallowed \in Nat /\ n \in Nat
    BY DEF Uplink, Collecting, Tolerable, OnTheWay
<1>2. CASE n = 0
    <2>1. Ready(decoder, swallowed)
        BY <1>2 DEF Uplink
    <2> QED BY <1>1, <2>1, ConstantFacts DEF Ready, Loose
<1>3. CASE n > 0
    <2>1. PICK a, f : a = r[1] /\ f = k[1]
        OBVIOUS
    <2>2. Tuned(sent, decoder, swallowed, a, Base(f), (f - 1) - arrived)
        BY <1>3, <2>1 DEF Uplink, Front
    <2>3. f \in Nat /\ f >= 1
        <3>1. 1 \in 1 .. n
            BY <1>1, <1>3
        <3>2. a \in 1 .. Len(sent) /\ f \in 1 .. Count(sent, a)
            BY <2>1, <3>1 DEF Uplink, OnTheWay
        <3> QED BY <3>2
    <2> QED BY <1>1, <2>2, <2>3, TunedIsLoose
<1> QED BY <1>1, <1>2, <1>3

LEMMA DisconnectUp ==
    ASSUME Basics, WayUp, Disconnect
    PROVE  WayUp'
<1>1. PICK n, r, k : Uplink(sent, up, unwritten, n, r, k, arrived, decoder, handled, swallowed)
    BY DEF WayUp
<1>2. up' = <<>> /\ unwritten' = <<>> /\ arrived' = 0 /\ swallowed' = 0 /\ UNCHANGED <<sent, decoder, handled>>
    BY DEF Disconnect, firmware
<1>3. OnTheWay(sent, <<>>, <<>>, 0, r, k)
    BY DEF OnTheWay
<1>6. Ready(decoder, 0) /\ Tolerable(0)
    BY <1>1, WayUpIsLoose, LooseIsReady DEF Uplink, Collecting
<1>4. Uplink(sent, <<>>, <<>>, 0, r, k, 0, decoder, handled, 0)
    BY <1>1, <1>3, <1>6 DEF Uplink
<1>5. Uplink(sent', up', unwritten', 0, r, k, arrived', decoder', handled', swallowed')
    BY <1>2, <1>4
<1> QED BY <1>5 DEF WayUp

LEMMA SendUp ==
    ASSUME Basics, WayUp, NEW command \in Commands, Send(command)
    PROVE  WayUp'
<1>1. PICK n, r, k : Uplink(sent, up, unwritten, n, r, k, arrived, decoder, handled, swallowed)
    BY DEF WayUp
<1>2. PICK l \in Nat : l = Len(sent)
    BY DEF Basics
<1>3. sent \in Seq(Asked) /\ unwritten = <<>>
    BY DEF Basics, Send
<1>4. PICK x \in Asked : /\ sent' = Append(sent, x) /\ Len(sent') = l + 1
                         /\ unwritten' = Fragments(Request(sent', Len(sent')))
    BY <1>2, SentStep
<1>5. up' = up /\ arrived' = arrived /\ decoder' = decoder /\ handled' = handled /\ swallowed' = swallowed
    BY DEF Send, radio, firmware, history
<1>6. PICK new : new = Len(sent) + 1
    OBVIOUS
<1>7. PICK c : c = Count(sent', new)
    OBVIOUS
<1>8. PICK r2 : r2 = Longer(r, n, n + c, new)
    OBVIOUS
<1>9. PICK k2 : k2 = Further(k, n, n + c)
    OBVIOUS
<1>10. OnTheWay(sent, up, unwritten, n, r, k)
    BY <1>1 DEF Uplink
<1>11. OnTheWay(sent', up, unwritten', n + c, r2, k2) /\ n \in Nat /\ c \in Nat /\ c >= 1
    <2>1. Joins(sent', up, n, r, k, new, c)
        BY <1>3, <1>4, <1>6, <1>7, <1>10, Queued
    <2>2. unwritten' = Fragments(Request(sent', new))
        BY <1>2, <1>4, <1>6
    <2> QED BY <1>8, <1>9, <2>1, <2>2 DEF Joins
<1>12. Collecting(sent, decoder) /\ InOrder(sent, handled) /\ Tolerable(swallowed)
    BY <1>1 DEF Uplink
<1>13. /\ Collecting(sent', decoder)
       /\ \A q \in 1 .. l : \A p, missing :
             /\ Within(sent, decoder, q, p, missing) => Within(sent', decoder, q, p, missing)
             /\ Tuned(sent, decoder, swallowed, q, p, missing) => Tuned(sent', decoder, swallowed, q, p, missing)
    BY <1>2, <1>3, <1>4, <1>12, StillCollecting
<1>14. InOrder(sent', handled)
    BY <1>2, <1>4, <1>12 DEF InOrder
<1>15. Front(sent', r2[1], k2[1], arrived, decoder, handled, swallowed)
    <2>1. CASE n > 0
        <3>1. 1 \in 1 .. n + c /\ 1 <= n /\ 1 \in 1 .. n
            BY <1>11, <2>1
        <3>2. r2[1] = r[1] /\ k2[1] = k[1]
            BY <1>8, <1>9, <3>1 DEF Longer, Further
        <3>3. Front(sent, r[1], k[1], arrived, decoder, handled, swallowed) /\ r[1] \in 1 .. l
            BY <1>1, <1>2, <1>10, <2>1, <3>1 DEF Uplink, OnTheWay
        <3> QED BY <1>13, <3>2, <3>3 DEF Front
    <2>2. CASE n = 0
        <3>1. 1 \in 1 .. n + c /\ ~ (1 <= n) /\ 1 - n = 1
            BY <1>11, <2>2
        <3>2. r2[1] = l + 1 /\ k2[1] = 1
            BY <1>2, <1>6, <1>8, <1>9, <3>1 DEF Longer, Further
        <3>3. arrived = 0
            BY <1>1, <2>2 DEF Uplink
        <3>4. Within(sent', decoder, l + 1, Base(1), 0)
            <4>1. CASE Len(decoder) >= 3
                <5>1. PICK t \in 1 .. l : t = decoder[3].frame
                    BY <1>2, <1>12, <4>1 DEF Collecting
                <5>2. t <= l + 1 /\ t < l + 1 /\ t # l + 1
                    BY <1>2
                <5> QED BY <5>1, <5>2 DEF Within
            <4>2. CASE ~ (Len(decoder) >= 3)
                BY <4>2 DEF Within
            <4> QED BY <4>1, <4>2
        <3>5. ASSUME NEW i \in 1 .. Len(handled) PROVE handled[i] < l + 1
            <4>1. handled[i] \in 1 .. l
                BY <1>2, <1>12 DEF InOrder
            <4> QED BY <4>1
        <3>6. 0 \in 0 .. 1 - 1 /\ (1 - 1) - 0 = 0 /\ 0 = 1 - 1
            OBVIOUS
        <3>7. Tuned(sent', decoder, swallowed, l + 1, Base(1), 0)
            <4>1. Ready(decoder, swallowed)
                BY <1>1, <2>2 DEF Uplink
            <4> QED BY <1>12, <4>1, ReadyIsTuned DEF Tolerable, Collecting
        <3> QED BY <3>2, <3>3, <3>4, <3>5, <3>6, <3>7 DEF Front
    <2> QED BY <1>11, <2>1, <2>2
<1>16. n + c # 0
    BY <1>11
<1>17. Uplink(sent', up', unwritten', n + c, r2, k2, arrived', decoder', handled', swallowed')
    BY <1>5, <1>11, <1>12, <1>13, <1>14, <1>15, <1>16 DEF Uplink
<1> QED BY <1>17 DEF WayUp

LEMMA WriteUp ==
    ASSUME Basics, WayUp, Write
    PROVE  WayUp'
<1>1. PICK n, r, k : Uplink(sent, up, unwritten, n, r, k, arrived, decoder, handled, swallowed)
    BY DEF WayUp
<1>2. OnTheWay(sent, up', unwritten', n, r, k)
    BY <1>1, Written DEF Uplink, Write
<1>3. UNCHANGED <<sent, arrived, decoder, handled, swallowed>>
    BY DEF Write, firmware, history
<1>4. Uplink(sent', up', unwritten', n, r, k, arrived', decoder', handled', swallowed')
    BY <1>1, <1>2, <1>3 DEF Uplink
<1> QED BY <1>4 DEF WayUp

LEMMA LoseUp ==
    ASSUME Basics, WayUp, LoseWrite
    PROVE  WayUp'
<1>1. PICK n, r, k : Uplink(sent, up, unwritten, n, r, k, arrived, decoder, handled, swallowed)
    BY DEF WayUp
<1>2. /\ up # <<>> /\ up' = Tail(up) /\ arrived' = 0 /\ swallowed' = 0
      /\ UNCHANGED <<sent, unwritten, decoder, handled>>
    BY DEF LoseWrite, client, firmware
<1>3. PICK a, f, c : a = r[1] /\ f = k[1] /\ c = Count(sent, a)
    OBVIOUS
<1>4. OnTheWay(sent, up, unwritten, n, r, k) /\ Collecting(sent, decoder) /\ InOrder(sent, handled)
    BY <1>1 DEF Uplink
<1>5. n > 0 /\ a \in 1 .. Len(sent) /\ c \in Nat /\ f \in 1 .. c
    BY <1>2, <1>3, <1>4, FrontFacts
<1>6. PICK missing : missing = (f - 1) - arrived
    OBVIOUS
<1>7. /\ Within(sent, decoder, a, Base(f), missing)
      /\ \A i \in 1 .. Len(handled) : handled[i] < a
    BY <1>1, <1>3, <1>5, <1>6 DEF Uplink, Front
<1>12. Loose(decoder) /\ Ready(decoder, 0) /\ Tolerable(0)
    BY <1>1, <1>4, WayUpIsLoose, LooseIsReady DEF Collecting
<1>8. Front(sent, a, f + 1, 0, decoder, handled, 0)
    <2>1. 0 \in 0 .. (f + 1) - 1 /\ ((f + 1) - 1) - 0 = f /\ f # 0
        BY <1>5
    <2>4. Tuned(sent, decoder, 0, a, Base(f + 1), f)
        BY <1>12, <2>1 DEF Tuned
    <2>2. PICK b \in Nat, b2 \in Nat : b = Base(f) /\ b2 = Base(f + 1) /\ b < b2 /\ b2 >= 3
        <3>1. f \in Nat /\ f >= 1 /\ f + 1 \in Nat /\ f + 1 >= 2 /\ f + 1 >= 1
            BY <1>5
        <3>2. Base(f) \in Nat /\ Base(f + 1) = Base(f) + FragmentSize
            BY <3>1, BaseFacts
        <3>3. Base(f + 1) >= 3
            BY <3>1, BaseFacts
        <3> QED BY <3>2, <3>3, ConstantFacts
    <2>3. Within(sent, decoder, a, b2, f)
        <3> SUFFICES ASSUME Len(decoder) >= 3
                     PROVE  /\ decoder[3].frame <= a
                            /\ b2 < 3 => decoder[3].frame < a
                            /\ decoder[3].frame = a /\ Agrees(decoder, Request(sent, a)) =>
                                  Len(decoder) <= b2 /\ (Len(decoder) = b2 => f = 0)
            BY DEF Within
        <3>1. /\ decoder[3].frame <= a
              /\ decoder[3].frame = a /\ Agrees(decoder, Request(sent, a)) => Len(decoder) <= b
            BY <1>7, <2>2 DEF Within
        <3>2. Len(decoder) \in Nat
            BY <1>4 DEF Collecting
        <3> QED BY <2>2, <3>1, <3>2
    <2> QED BY <1>7, <2>1, <2>2, <2>3, <2>4 DEF Front
<1>9. ASSUME NEW i \in 1 .. Len(handled) PROVE handled[i] <= a
    <2>1. handled[i] \in Nat /\ handled[i] < a
        BY <1>4, <1>7 DEF InOrder
    <2> QED BY <1>5, <2>1
<1>10. PICK n2, r2, k2 : Uplink(sent, Tail(up), unwritten, n2, r2, k2, 0, decoder, handled, 0)
    BY <1>2, <1>3, <1>4, <1>7, <1>8, <1>9, <1>12, Turn
<1>11. Uplink(sent', up', unwritten', n2, r2, k2, arrived', decoder', handled', swallowed')
    BY <1>2, <1>10
<1> QED BY <1>11 DEF WayUp

LEMMA LaterAppended ==
    ASSUME NEW s, NEW h, InOrder(s, h), NEW a \in 1 .. Len(s), \A i \in 1 .. Len(h) : h[i] < a
    PROVE  InOrder(s, Append(h, a)) /\ \A i \in 1 .. Len(Append(h, a)) : Append(h, a)[i] <= a
<1>1. PICK l \in Nat : l = Len(h)
    BY DEF InOrder
<1>2. PICK g : g = Append(h, a)
    OBVIOUS
<1>3. /\ g \in Seq(Nat) /\ Len(g) = l + 1 /\ g[l + 1] = a
      /\ \A i \in 1 .. l : g[i] = h[i]
    BY <1>1, <1>2, AppendFacts DEF InOrder
<1>4. ASSUME NEW i \in 1 .. l PROVE g[i] \in 1 .. Len(s) /\ g[i] < a
    BY <1>1, <1>3 DEF InOrder
<1>5. ASSUME NEW i \in 1 .. l + 1 PROVE g[i] \in 1 .. Len(s) /\ g[i] <= a
    <2>1. CASE i = l + 1
        BY <1>3, <2>1
    <2>2. CASE i \in 1 .. l
        <3>1. PICK t \in 1 .. Len(s) : t = g[i] /\ t < a
            BY <1>4, <2>2
        <3> QED BY <3>1
    <2> QED BY <2>1, <2>2
<1>6. ASSUME NEW i \in 1 .. (l + 1) - 1 PROVE g[i] < g[i + 1]
    <2>1. CASE i = l
        BY <1>3, <1>4, <2>1
    <2>2. CASE i \in 1 .. l - 1
        <3>1. h[i] < h[i + 1] /\ i \in 1 .. l /\ i + 1 \in 1 .. l
            BY <1>1, <2>2 DEF InOrder
        <3> QED BY <1>3, <3>1
    <2> QED BY <2>1, <2>2
<1> QED BY <1>2, <1>3, <1>5, <1>6 DEF InOrder

(* A whole request is swallowed only by a decoder that still waits for the   *)
(* rest of the frame cut short, or has just come to its end.                 *)
Swallow(s, tokens, lost, r) == /\ Ready(tokens, lost + Len(Request(s, r)))
                               /\ Tolerable(lost + Len(Request(s, r)))

LEMMA Swallowed ==
    ASSUME NEW s, NEW tokens, Collecting(s, tokens), NEW lost \in Nat, NEW r \in 1 .. Len(s),
           Listens(s, tokens, lost, r, Len(Request(s, r)))
    PROVE  Swallow(s, tokens, lost, r)
<1>1. PICK R : R = Request(s, r)
    OBVIOUS
<1>2. r \in Nat
    OBVIOUS
<1>3. /\ Len(R) \in Nat /\ Len(R) >= 4
      /\ R[3] = Token("head", "request", r, Len(R) - 4)
    BY <1>1, <1>2, FrameFacts DEF Request
<1>4. PICK l \in Nat : l = Len(tokens)
    BY DEF Collecting
<1>5. PICK more \in Nat : more = lost + Len(R)
    BY <1>3
<1>6. SUFFICES Ready(tokens, more) /\ Tolerable(more)
    BY <1>1, <1>5 DEF Swallow
<1>7. CASE l <= 1 /\ more <= Bound
    BY <1>4, <1>7 DEF Ready, Tolerable
<1>8. CASE l >= 3 /\ more + FragmentSize <= l
    <2>1. l < MaxFrame
        <3>1. PICK A : A = Expected(s, tokens)
            OBVIOUS
        <3>2. Len(A) \in Nat /\ Len(A) <= MaxFrame /\ l < Len(A)
            BY <1>4, <1>8, <3>1, ExpectedFacts
        <3> QED BY <3>2, BoundFacts
    <2>2. more <= Bound
        BY <1>8, <2>1, BoundFacts, ConstantFacts
    <2> QED BY <1>4, <1>8, <2>2 DEF Ready, Tolerable
<1>9. CASE l = Len(R) /\ Agrees(tokens, R)
    <2>1. l >= 3 /\ 3 \in 1 .. l
        BY <1>3, <1>9
    <2>2. tokens[3] = R[3]
        BY <1>4, <1>9, <2>1 DEF Agrees
    <2>3. tokens[3].frame = r
        BY <1>3, <2>2 DEF Token
    <2>4. Len(tokens) < Len(Request(s, r))
        BY <1>4, <2>1, <2>3 DEF Collecting
    <2> QED BY <1>1, <1>3, <1>4, <1>9, <2>4
<1>10. \/ l <= 1 /\ (Len(R) = 0 \/ more <= Bound)
       \/ l >= 3 /\ more + FragmentSize <= l
       \/ l = Len(R) /\ Agrees(tokens, R)
    BY <1>1, <1>4, <1>5 DEF Listens
<1> QED BY <1>3, <1>7, <1>8, <1>9, <1>10

LEMMA DeliverUp ==
    ASSUME Basics, WayUp, Deliver
    PROVE  WayUp'
<1>1. PICK n, r, k : Uplink(sent, up, unwritten, n, r, k, arrived, decoder, handled, swallowed)
    BY DEF WayUp
<1>2. PICK a, f, c : a = r[1] /\ f = k[1] /\ c = Count(sent, a)
    OBVIOUS
<1>3. up # <<>> /\ up' = Tail(up) /\ UNCHANGED <<sent, unwritten>>
    BY DEF Deliver, client
<1>4. OnTheWay(sent, up, unwritten, n, r, k) /\ InOrder(sent, handled)
    BY <1>1 DEF Uplink
<1>5. n > 0 /\ a \in 1 .. Len(sent) /\ c \in Nat /\ f \in 1 .. c
    BY <1>2, <1>3, <1>4, FrontFacts
<1>6. /\ arrived \in 0 .. f - 1 /\ \A i \in 1 .. Len(handled) : handled[i] < a
      /\ arrived # f - 1 => swallowed = 0
      /\ Tolerable(swallowed)
    BY <1>1, <1>2, <1>5 DEF Uplink, Front
<1>7. /\ Collecting(sent, decoder')
      /\ Within(sent, decoder', a, End(sent, a, f), (f - 1) - arrived)
      /\ arrived' = IF f = c THEN 0 ELSE arrived + 1
      /\ \/ /\ handled' = handled
            /\ Tuned(sent, decoder', swallowed, a, End(sent, a, f), (f - 1) - arrived)
            /\ swallowed' = IF f = c /\ arrived = c - 1 THEN swallowed + Len(Request(sent, a)) ELSE swallowed
         \/ /\ f = c /\ handled' = Append(handled, a)
            /\ decoder' = <<>> /\ swallowed' = 0
    <2>1. sent \in Seq(Asked)
        BY DEF Basics
    <2>2. c = Count(sent, r[1])
        BY <1>2
    <2> QED BY <1>1, <1>2, <2>1, <2>2, DeliverFacts
<1>8. InOrder(sent, handled') /\ \A i \in 1 .. Len(handled') : handled'[i] <= a
    <2>1. CASE handled' = handled
        <3>1. ASSUME NEW i \in 1 .. Len(handled) PROVE handled[i] <= a
            <4>1. handled[i] \in Nat /\ handled[i] < a
                BY <1>4, <1>6 DEF InOrder
            <4> QED BY <1>5, <4>1
        <3> QED BY <1>4, <2>1, <3>1
    <2>2. CASE handled' = Append(handled, a)
        BY <1>4, <1>5, <1>6, <2>2, LaterAppended
    <2> QED BY <1>7, <2>1, <2>2
<1>9. ASSUME f # c
      PROVE  Front(sent, a, f + 1, arrived', decoder', handled', swallowed') /\ Tolerable(swallowed')
    <2>1. handled' = handled /\ arrived' = arrived + 1 /\ swallowed' = swallowed
        BY <1>7, <1>9
    <2>2. /\ arrived' \in 0 .. (f + 1) - 1 /\ ((f + 1) - 1) - arrived' = (f - 1) - arrived
          /\ arrived' # (f + 1) - 1 => swallowed' = 0
        BY <1>5, <1>6, <2>1
    <2>3. End(sent, a, f) = Base(f + 1)
        BY <1>2, <1>9 DEF End
    <2>4. Within(sent, decoder', a, Base(f + 1), (f - 1) - arrived)
        BY <1>7, <2>3
    <2>5. Tuned(sent, decoder', swallowed', a, Base(f + 1), (f - 1) - arrived)
        BY <1>7, <1>9, <2>1, <2>3
    <2> QED BY <1>6, <2>1, <2>2, <2>4, <2>5 DEF Front
<1>13. ASSUME f = c PROVE Ready(decoder', swallowed') /\ Tolerable(swallowed')
    <2>1. PICK tokens : tokens = decoder'
        OBVIOUS
    <2>2. PICK R : R = Request(sent, a)
        OBVIOUS
    <2>3. CASE tokens = <<>> /\ swallowed' = 0
        <3>1. Loose(tokens) /\ tokens \in Seq(Tokens)
            BY <2>3 DEF Loose
        <3> QED BY <2>1, <2>3, <3>1, LooseIsReady
    <2>4. CASE /\ Tuned(sent, tokens, swallowed, a, End(sent, a, f), (f - 1) - arrived)
               /\ swallowed' = IF f = c /\ arrived = c - 1 THEN swallowed + Len(R) ELSE swallowed
        <3>1. tokens \in Seq(Tokens) /\ Len(tokens) \in Nat
            BY <1>7, <2>1 DEF Collecting
        <3>2. CASE arrived = c - 1
            <4>1. PICK lost \in Nat : lost = swallowed
                BY <1>6 DEF Tolerable
            <4>2. swallowed' = lost + Len(R) /\ (f - 1) - arrived = 0
                BY <1>5, <1>13, <2>4, <3>2, <4>1
            <4>3. Listens(sent, tokens, lost, a, Len(R))
                BY <1>2, <1>13, <2>2, <2>4, <4>1, <4>2 DEF Tuned, End
            <4>4. Swallow(sent, tokens, lost, a)
                BY <1>5, <1>7, <2>1, <2>2, <4>3, Swallowed
            <4> QED BY <2>1, <2>2, <4>2, <4>4 DEF Swallow
        <3>3. CASE arrived # c - 1
            <4>1. swallowed' = swallowed /\ swallowed = 0 /\ (f - 1) - arrived # 0
                BY <1>5, <1>6, <1>13, <2>4, <3>3
            <4>2. Loose(tokens)
                BY <2>4, <4>1 DEF Tuned
            <4> QED BY <2>1, <3>1, <4>1, <4>2, LooseIsReady
        <3> QED BY <3>2, <3>3
    <2> QED BY <1>7, <2>1, <2>2, <2>3, <2>4
<1>10. f = c => /\ arrived' = 0 /\ Ready(decoder', swallowed')
                /\ \E p, missing : Within(sent, decoder', a, p, missing)
                /\ \A i \in 1 .. Len(handled') : handled'[i] <= a
    BY <1>7, <1>8, <1>13
<1>11. PICK n2, r2, k2 : Uplink(sent, Tail(up), unwritten, n2, r2, k2, arrived', decoder', handled', swallowed')
    <2>1. PICK came, tokens, h, lost : came = arrived' /\ tokens = decoder' /\ h = handled' /\ lost = swallowed'
        OBVIOUS
    <2>2. Collecting(sent, tokens) /\ InOrder(sent, h) /\ Tolerable(lost)
        BY <1>7, <1>8, <1>9, <1>13, <2>1
    <2>3. f # c => Front(sent, a, f + 1, came, tokens, h, lost)
        BY <1>9, <2>1
    <2>4. f = c => /\ came = 0 /\ Ready(tokens, lost)
                   /\ \E p, missing : Within(sent, tokens, a, p, missing)
                   /\ \A i \in 1 .. Len(h) : h[i] <= a
        BY <1>10, <2>1
    <2>5. \E n2, r2, k2 : Uplink(sent, Tail(up), unwritten, n2, r2, k2, came, tokens, h, lost)
        BY <1>2, <1>3, <1>4, <2>2, <2>3, <2>4, Turn
    <2> QED BY <2>1, <2>5
<1>12. Uplink(sent', up', unwritten', n2, r2, k2, arrived', decoder', handled', swallowed')
    BY <1>3, <1>11
<1> QED BY <1>12 DEF WayUp

LEMMA WayUpStep ==
    ASSUME Basics, WayUp, [Next]_vars
    PROVE  WayUp'
<1>1. CASE UNCHANGED <<sent, up, unwritten, arrived, decoder, handled, swallowed>>
    BY <1>1 DEF WayUp
<1> QED BY <1>1, DisconnectUp, SendUp, WriteUp, LoseUp, DeliverUp
        DEF Next, vars, radio, client, firmware, history, Connect, Subscribe, Round, Arrive, Accept, GiveUp

------------------------------------------------------------------------------
(* Which requests have been handled, and what is kept about them.            *)
Known ==
    /\ whole \subseteq 1 .. Len(sent)
    /\ \A i \in 1 .. Len(handled) : handled[i] \in whole
    /\ pending = 0 \/ \E i \in 1 .. Len(handled) : handled[i] = pending

LEMMA KnownStep ==
    ASSUME Basics, WayUp, Known, [Next]_vars
    PROVE  Known'
<1>1. CASE UNCHANGED <<whole, handled, sent>> /\ pending' \in {0, pending}
    BY <1>1 DEF Known
<1>2. ASSUME NEW command \in Commands, Send(command) PROVE Known'
    <2>1. Len(sent) \in Nat /\ Len(sent') = Len(sent) + 1
        BY <1>2, SentStep
    <2>2. UNCHANGED <<whole, handled, pending>>
        BY <1>2 DEF Send, firmware, history
    <2>3. 1 .. Len(sent) \subseteq 1 .. Len(sent')
        BY <2>1
    <2> QED BY <2>2, <2>3 DEF Known
<1>3. CASE Deliver
    <2>1. PICK n, r, k : Uplink(sent, up, unwritten, n, r, k, arrived, decoder, handled, swallowed)
        BY DEF WayUp
    <2>2. PICK a, f, c : a = r[1] /\ f = k[1] /\ c = Count(sent, r[1])
        OBVIOUS
    <2>3. up # <<>> /\ UNCHANGED sent /\ OnTheWay(sent, up, unwritten, n, r, k) /\ InOrder(sent, handled)
        BY <1>3, <2>1 DEF Deliver, client, Uplink
    <2>4. a \in 1 .. Len(sent)
        BY <2>2, <2>3, FrontFacts
    <2>5. /\ whole' = IF f = c /\ arrived = c - 1 THEN whole \union {a} ELSE whole
          /\ \/ handled' = handled /\ pending' = pending
             \/ /\ f = c /\ arrived = c - 1
                /\ handled' = Append(handled, a) /\ pending' \in {pending, a}
        BY <1>3, <2>1, <2>2, DeliverFacts DEF Basics
    <2>7. whole' \subseteq 1 .. Len(sent') /\ whole \subseteq whole'
        BY <2>3, <2>4, <2>5 DEF Known
    <2>8. CASE handled' = handled /\ pending' = pending
        BY <2>7, <2>8 DEF Known
    <2>9. CASE f = c /\ arrived = c - 1 /\ handled' = Append(handled, a) /\ pending' \in {pending, a}
        <3>1. PICK l \in Nat : l = Len(handled)
            BY <2>3 DEF InOrder
        <3>2. /\ Len(handled') = l + 1 /\ handled'[l + 1] = a
              /\ \A i \in 1 .. l : handled'[i] = handled[i]
            BY <2>3, <2>4, <2>9, <3>1, AppendFacts DEF InOrder
        <3>3. a \in whole'
            BY <2>5, <2>9
        <3>4. \A i \in 1 .. l + 1 : handled'[i] \in whole'
            <4> SUFFICES ASSUME NEW i \in 1 .. l + 1 PROVE handled'[i] \in whole'
                OBVIOUS
            <4>1. i = l + 1 \/ i \in 1 .. l
                OBVIOUS
            <4> QED BY <2>7, <3>1, <3>2, <3>3, <4>1 DEF Known
        <3>5. pending' = 0 \/ \E i \in 1 .. l + 1 : handled'[i] = pending'
            <4>1. CASE pending' = a
                BY <3>2, <4>1
            <4>2. CASE pending' = pending
                <5>1. pending = 0 \/ \E i \in 1 .. l : handled[i] = pending
                    BY <3>1 DEF Known
                <5>2. 1 .. l \subseteq 1 .. l + 1
                    OBVIOUS
                <5> QED BY <3>2, <4>2, <5>1, <5>2
            <4> QED BY <2>9, <4>1, <4>2
        <3> QED BY <2>7, <3>2, <3>4, <3>5 DEF Known
    <2> QED BY <2>5, <2>8, <2>9
<1> QED BY <1>1, <1>2, <1>3 DEF Next, vars, radio, client, firmware, history, Connect, Subscribe, Disconnect,
         Write, LoseWrite, Round, Arrive, Accept, GiveUp

------------------------------------------------------------------------------
(* The answers on their way down are one stream, cut off at both ends: its   *)
(* x-th token is token pos[x] of the answer to request id[x], and an answer  *)
(* is followed by another one only when it is complete. What the client has  *)
(* heard are the tokens after the first from, the notifications in flight    *)
(* follow, the i-th from mark[i] on, and the transmit buffer goes on where   *)
(* the stream ends.                                                          *)
Answer(s, id) == Encode("answer", id, s[id].command)
HasActed(h, id) == \E i \in 1 .. Len(h) : h[i] = id

Follows(s, id, p, next, q) == IF p = Len(Answer(s, id)) THEN q = 1 ELSE next = id /\ q = p + 1
Stream(s, h, m, id, pos) ==
    /\ m \in Nat
    /\ \A x \in 1 .. m : /\ id[x] \in 1 .. Len(s) /\ HasActed(h, id[x])
                        /\ pos[x] \in 1 .. Len(Answer(s, id[x]))
    /\ \A x \in 1 .. m - 1 : Follows(s, id[x], pos[x], id[x + 1], pos[x + 1])

At(s, id, pos, x) == Answer(s, id[x])[pos[x]]
Places(s, hd, dn, m, id, pos, from, mark) ==
    /\ hd \in Seq(Tokens) /\ dn \in Seq(Seq(Tokens)) /\ from \in Nat
    /\ mark[1] = from + Len(hd) /\ mark[Len(dn) + 1] = m
    /\ \A i \in 1 .. Len(dn) + 1 : mark[i] \in 0 .. m
    /\ \A i \in 1 .. Len(dn) : mark[i + 1] = mark[i] + Len(dn[i])
    /\ \A i \in 1 .. Len(dn) : \A j \in 1 .. Len(dn[i]) : dn[i][j] = At(s, id, pos, mark[i] + j)
    /\ \A j \in 1 .. Len(hd) : hd[j] = At(s, id, pos, from + j)

GoesOn(s, m, id, pos, buffer) ==
    m > 0 => \/ buffer.tokens = Answer(s, id[m]) /\ buffer.offset = pos[m]
             \/ pos[m] = Len(Answer(s, id[m])) /\ buffer.offset = 0

Holds(s, h, buffer) ==
    /\ buffer \in [tokens : Seq(Tokens), offset : Nat]
    /\ buffer.offset <= Len(buffer.tokens)
    /\ buffer.tokens = <<>> \/ \E id \in 1 .. Len(s) : HasActed(h, id) /\ buffer.tokens = Answer(s, id)

Downlink(s, h, hd, dn, buffer, m, id, pos, from, mark) ==
    /\ Stream(s, h, m, id, pos)
    /\ Places(s, hd, dn, m, id, pos, from, mark)
    /\ GoesOn(s, m, id, pos, buffer)
WayDown ==
    /\ \E m, id, pos, from, mark : Downlink(sent, handled, heard, down, tx, m, id, pos, from, mark)
    /\ Holds(sent, handled, tx)
    /\ waiting = 0 => heard = <<>>
    /\ ~ subscribed => down = <<>>

LEMMA AnswerFacts ==
    ASSUME NEW s, NEW id \in Nat
    PROVE  /\ Answer(s, id) \in Seq(Tokens)
           /\ Len(Answer(s, id)) \in Nat /\ Len(Answer(s, id)) >= 4 /\ Len(Answer(s, id)) <= MaxFrame
           /\ Answer(s, id)[1] = Sof0 /\ Answer(s, id)[2] = Sof1
           /\ Answer(s, id)[3] = Token("head", "answer", id, Len(Answer(s, id)) - 4)
           /\ \A p \in 1 .. Len(Answer(s, id)) :
                 /\ Answer(s, id)[p] \in Tokens
                 /\ Answer(s, id)[p].kind = "head" <=> p = 3
                 /\ Answer(s, id)[p].kind = "sof1" <=> p = 2
<1>1. PICK f : f = Answer(s, id)
    OBVIOUS
<1>2. /\ f \in Seq(Tokens) /\ Len(f) \in 4 .. MaxFrame
      /\ f[1] = Sof0 /\ f[2] = Sof1
      /\ f[3] = Token("head", "answer", id, Len(f) - 4)
      /\ \A p \in 1 .. Len(f) : /\ f[p] \in Tokens
                                /\ f[p].kind = "head" <=> p = 3
                                /\ f[p].kind = "sof1" <=> p = 2
    BY <1>1, FrameFacts DEF Answer
<1>3. Len(f) \in Nat /\ Len(f) >= 4 /\ Len(f) <= MaxFrame
    BY <1>2, ConstantFacts DEF MaxFrame
<1> QED BY <1>1, <1>2, <1>3

LEMMA Silent ==
    ASSUME NEW s, NEW h, NEW buffer
    PROVE  \E m, id, pos, from, mark : Downlink(s, h, <<>>, <<>>, buffer, m, id, pos, from, mark)
<1>1. PICK mark : mark = [i \in 1 .. 1 |-> 0]
    OBVIOUS
<1>2. mark[1] = 0
    BY <1>1
<1>3. Places(s, <<>>, <<>>, 0, <<>>, <<>>, 0, mark)
    BY <1>2 DEF Places
<1>4. Stream(s, h, 0, <<>>, <<>>) /\ GoesOn(s, 0, <<>>, <<>>, buffer)
    BY DEF Stream, GoesOn
<1> QED BY <1>3, <1>4 DEF Downlink

LEMMA Unheard ==
    ASSUME NEW s, NEW hd, NEW dn, NEW m, NEW id, NEW pos, NEW from, NEW mark,
           Places(s, hd, dn, m, id, pos, from, mark)
    PROVE  Places(s, <<>>, dn, m, id, pos, mark[1], mark)
<1>1. Len(dn) \in Nat
    BY DEF Places
<1>2. 1 \in 1 .. Len(dn) + 1
    BY <1>1
<1>3. mark[1] \in 0 .. m
    BY <1>2 DEF Places
<1>4. PICK a \in Nat : a = mark[1]
    BY <1>3
<1>5. PICK e \in Seq(Tokens) : e = <<>> /\ Len(e) = 0
    <2>1. <<>> \in Seq(Tokens) /\ Len(<<>>) = 0
        OBVIOUS
    <2> QED BY <2>1, Zenon
<1>6. mark[1] = a + Len(e)
    BY <1>4, <1>5
<1>7. \A j \in 1 .. Len(e) : e[j] = At(s, id, pos, a + j)
    BY <1>5
<1>8. Places(s, e, dn, m, id, pos, a, mark)
    BY <1>5, <1>6, <1>7 DEF Places
<1> QED BY <1>4, <1>5, <1>8

LEMMA Reached ==
    ASSUME NEW s, NEW hd, NEW dn, NEW m, NEW id, NEW pos, NEW from, NEW mark,
           Places(s, hd, dn, m, id, pos, from, mark), dn # <<>>
    PROVE  \E mark2 : Places(s, hd \o Head(dn), Tail(dn), m, id, pos, from, mark2)
<1>1. PICK l \in Nat, d \in Nat : l = Len(hd) /\ d = Len(dn)
    BY DEF Places
<1>2. PICK c : c = Head(dn)
    OBVIOUS
<1>3. PICK rest : rest = Tail(dn)
    OBVIOUS
<1>4. /\ d >= 1 /\ c = dn[1] /\ c \in Seq(Tokens)
      /\ rest \in Seq(Seq(Tokens)) /\ Len(rest) = d - 1
      /\ \A i \in 1 .. d - 1 : rest[i] = dn[i + 1]
    BY <1>1, <1>2, <1>3, TailFacts DEF Places
<1>5. PICK more : more = hd \o c
    OBVIOUS
<1>6. PICK e \in Nat : e = Len(c)
    BY <1>4
<1>7. /\ more \in Seq(Tokens) /\ Len(more) = l + e
      /\ \A i \in 1 .. l + e : more[i] = IF i <= l THEN hd[i] ELSE c[i - l]
    <2>1. hd \in Seq(Tokens)
        BY DEF Places
    <2> QED BY <1>1, <1>4, <1>5, <1>6, <2>1, Joined
<1>8. PICK mark2 : mark2 = [i \in 1 .. d |-> mark[i + 1]]
    OBVIOUS
<1>9. 1 \in 1 .. d /\ 1 \in 1 .. d + 1 /\ d \in 1 .. d
    BY <1>4
<1>10. mark[1] = from + l /\ from \in Nat /\ mark[1 + 1] = mark[1] + e
    BY <1>1, <1>4, <1>6, <1>9 DEF Places
<1>11. mark2[1] = from + Len(more)
    BY <1>1, <1>6, <1>7, <1>8, <1>9, <1>10
<1>12. mark2[Len(rest) + 1] = m
    BY <1>1, <1>4, <1>8, <1>9 DEF Places
<1>13. ASSUME NEW i \in 1 .. Len(rest) + 1 PROVE mark2[i] \in 0 .. m
    <2>1. i \in 1 .. d /\ i + 1 \in 1 .. d + 1
        BY <1>4, <1>13
    <2> QED BY <1>1, <1>8, <2>1 DEF Places
<1>14. ASSUME NEW i \in 1 .. Len(rest)
       PROVE  /\ mark2[i + 1] = mark2[i] + Len(rest[i])
              /\ \A j \in 1 .. Len(rest[i]) : rest[i][j] = At(s, id, pos, mark2[i] + j)
    <2>1. i \in 1 .. d /\ i + 1 \in 1 .. d /\ i \in 1 .. d - 1
        BY <1>4, <1>14
    <2>2. rest[i] = dn[i + 1] /\ mark2[i] = mark[i + 1] /\ mark2[i + 1] = mark[(i + 1) + 1]
        BY <1>4, <1>8, <2>1
    <2> QED BY <1>1, <2>1, <2>2 DEF Places
<1>15. ASSUME NEW j \in 1 .. Len(more) PROVE more[j] = At(s, id, pos, from + j)
    <2>1. CASE j <= l
        BY <1>1, <1>7, <2>1 DEF Places
    <2>2. CASE ~ (j <= l)
        <3>1. j - l \in 1 .. e /\ (from + l) + (j - l) = from + j
            BY <1>7, <1>10, <2>2
        <3>2. c[j - l] = At(s, id, pos, mark[1] + (j - l))
            BY <1>1, <1>4, <1>6, <1>9, <3>1 DEF Places
        <3> QED BY <1>7, <1>10, <2>2, <3>1, <3>2
    <2> QED BY <2>1, <2>2
<1>16. from \in Nat
    BY DEF Places
<1>17. Places(s, more, rest, m, id, pos, from, mark2)
    BY <1>4, <1>7, <1>11, <1>12, <1>13, <1>14, <1>15, <1>16 DEF Places
<1> QED BY <1>2, <1>3, <1>5, <1>17

LEMMA AnswerIsOfOne ==
    ASSUME NEW s, NEW a \in Nat, NEW b \in Nat, Answer(s, a) = Answer(s, b)
    PROVE  a = b
<1>1. Answer(s, a)[3] = Token("head", "answer", a, Len(Answer(s, a)) - 4)
    BY AnswerFacts
<1>2. Answer(s, b)[3] = Token("head", "answer", b, Len(Answer(s, b)) - 4)
    BY AnswerFacts
<1>3. Answer(s, a)[3].frame = a /\ Answer(s, b)[3].frame = b
    BY <1>1, <1>2 DEF Token
<1> QED BY <1>3

LEMMA PieceFacts ==
    ASSUME NEW tokens \in Seq(Tokens), NEW o \in Nat, NEW e \in Nat, o < e, e <= Len(tokens)
    PROVE  /\ SubSeq(tokens, o + 1, e) \in Seq(Tokens)
           /\ Len(SubSeq(tokens, o + 1, e)) = e - o
           /\ \A j \in 1 .. e - o : SubSeq(tokens, o + 1, e)[j] = tokens[o + j]
<1>1. PICK q \in Nat : q = o + 1
    OBVIOUS
<1>2. \A i \in q .. e : tokens[i] \in Tokens
    BY <1>1
<1>3. /\ SubSeq(tokens, q, e) \in Seq(Tokens)
      /\ Len(SubSeq(tokens, q, e)) = IF q <= e THEN e - q + 1 ELSE 0
      /\ \A i \in 1 .. e - q + 1 : SubSeq(tokens, q, e)[i] = tokens[q + i - 1]
    BY <1>1, <1>2, SubSeqProperties
<1>4. q <= e /\ e - q + 1 = e - o /\ \A j \in Nat : q + j - 1 = o + j
    BY <1>1
<1>5. PICK piece : piece = SubSeq(tokens, q, e)
    OBVIOUS
<1>6. Len(piece) = e - o
    BY <1>3, <1>4, <1>5
<1>7. ASSUME NEW j \in 1 .. e - o PROVE piece[j] = tokens[o + j]
    <2>1. j \in 1 .. e - q + 1 /\ q + j - 1 = o + j
        BY <1>4
    <2> QED BY <1>3, <1>5, <2>1
<1> QED BY <1>1, <1>3, <1>5, <1>6, <1>7

LEMMA Notified ==
    ASSUME NEW s, NEW h, NEW hd, NEW dn, NEW buffer, NEW m, NEW id, NEW pos, NEW from, NEW mark,
           Downlink(s, h, hd, dn, buffer, m, id, pos, from, mark), Holds(s, h, buffer),
           buffer.offset < Len(buffer.tokens),
           NEW e \in Nat, buffer.offset < e, e <= Len(buffer.tokens),
           NEW after, after.tokens = buffer.tokens, after.offset = e
    PROVE  \E m2, id2, pos2, mark2 :
              Downlink(s, h, hd, Append(dn, SubSeq(buffer.tokens, buffer.offset + 1, e)), after,
                       m2, id2, pos2, from, mark2)
<1>1. PICK o \in Nat, tokens \in Seq(Tokens) : o = buffer.offset /\ tokens = buffer.tokens
    BY DEF Holds
<1>2. tokens # <<>>
    <2>1. Len(tokens) > 0
        BY <1>1
    <2> QED BY <2>1
<1>3. PICK i \in 1 .. Len(s) : HasActed(h, i) /\ tokens = Answer(s, i)
    BY <1>1, <1>2 DEF Holds
<1>4. PICK size \in Nat : size = Len(tokens)
    OBVIOUS
<1>5. o < e /\ e <= size
    BY <1>1, <1>4
<1>6. PICK chunk : chunk = SubSeq(tokens, o + 1, e)
    OBVIOUS
<1>7. PICK l \in Nat : l = e - o
    BY <1>5
<1>8. /\ chunk \in Seq(Tokens) /\ Len(chunk) = l /\ l >= 1
      /\ \A j \in 1 .. l : chunk[j] = tokens[o + j]
    <2>1. l >= 1
        BY <1>5, <1>7
    <2> QED BY <1>4, <1>5, <1>6, <1>7, <2>1, PieceFacts
<1>9. m \in Nat
    BY DEF Downlink, Stream
<1>10. PICK m2 \in Nat : m2 = m + l
    BY <1>9
<1>11. PICK id2 : id2 = [x \in 1 .. m2 |-> IF x <= m THEN id[x] ELSE i]
    OBVIOUS
<1>12. PICK pos2 : pos2 = [x \in 1 .. m2 |-> IF x <= m THEN pos[x] ELSE o + (x - m)]
    OBVIOUS
<1>13. ASSUME NEW x \in 1 .. m PROVE id2[x] = id[x] /\ pos2[x] = pos[x] /\ At(s, id2, pos2, x) = At(s, id, pos, x)
    <2>1. x \in 1 .. m2 /\ x <= m
        BY <1>9, <1>10
    <2>2. id2[x] = id[x] /\ pos2[x] = pos[x]
        BY <1>11, <1>12, <2>1
    <2> QED BY <2>2 DEF At
<1>14. ASSUME NEW x \in m + 1 .. m2
       PROVE  id2[x] = i /\ pos2[x] = o + (x - m) /\ o + (x - m) \in 1 .. e
    <2>1. x \in 1 .. m2 /\ ~ (x <= m)
        BY <1>9, <1>10
    <2>2. o + (x - m) \in 1 .. e
        BY <1>7, <1>9, <1>10
    <2> QED BY <1>11, <1>12, <2>1, <2>2
<1>15. Stream(s, h, m2, id2, pos2)
    <2>1. ASSUME NEW x \in 1 .. m2
          PROVE  /\ id2[x] \in 1 .. Len(s) /\ HasActed(h, id2[x])
                 /\ pos2[x] \in 1 .. Len(Answer(s, id2[x]))
        <3>1. CASE x \in 1 .. m
            BY <1>13, <3>1 DEF Downlink, Stream
        <3>2. CASE x \in m + 1 .. m2
            <4>1. o + (x - m) \in 1 .. size
                <5>1. PICK q \in 1 .. e : q = o + (x - m)
                    BY <1>14, <3>2
                <5> QED BY <1>5, <5>1
            <4> QED BY <1>3, <1>4, <1>14, <3>2, <4>1
        <3> QED BY <1>9, <3>1, <3>2
    <2>2. ASSUME NEW x \in 1 .. m2 - 1
          PROVE  Follows(s, id2[x], pos2[x], id2[x + 1], pos2[x + 1])
        <3>1. CASE x < m
            <4>1. x \in 1 .. m /\ x + 1 \in 1 .. m /\ x \in 1 .. m - 1
                BY <1>9, <3>1
            <4>2. Follows(s, id[x], pos[x], id[x + 1], pos[x + 1])
                BY <4>1 DEF Downlink, Stream
            <4> QED BY <1>13, <4>1, <4>2
        <3>2. CASE x = m
            <4>1. m \in 1 .. m /\ m + 1 \in m + 1 .. m2 /\ (m + 1) - m = 1 /\ m > 0
                BY <1>9, <1>10, <3>2
            <4>2. id2[m + 1] = i /\ pos2[m + 1] = o + 1 /\ id2[m] = id[m] /\ pos2[m] = pos[m]
                BY <1>13, <1>14, <4>1
            <4>3. CASE tokens = Answer(s, id[m]) /\ o = pos[m]
                <5>1. id[m] \in Nat /\ i \in Nat
                    BY <4>1 DEF Downlink, Stream
                <5>2. id[m] = i
                    BY <1>3, <4>3, <5>1, AnswerIsOfOne
                <5>3. pos[m] # Len(Answer(s, id[m]))
                    BY <1>4, <1>5, <4>3
                <5> QED BY <3>2, <4>2, <4>3, <5>2, <5>3 DEF Follows
            <4>4. CASE pos[m] = Len(Answer(s, id[m])) /\ o = 0
                <5>1. o + 1 = 1
                    BY <4>4
                <5> QED BY <3>2, <4>2, <4>4, <5>1 DEF Follows
            <4> QED BY <1>1, <4>1, <4>3, <4>4 DEF Downlink, GoesOn
        <3>3. CASE x > m
            <4>1. x \in m + 1 .. m2 /\ x + 1 \in m + 1 .. m2
                BY <1>9, <1>10, <3>3
            <4>2. PICK q \in Nat : q = o + (x - m) /\ o + ((x + 1) - m) = q + 1 /\ q < e
                <5>1. o + (x - m) \in Nat /\ o + ((x + 1) - m) = (o + (x - m)) + 1 /\ o + (x - m) < e
                    BY <1>7, <1>9, <1>10, <4>1
                <5> QED BY <5>1
            <4>3. id2[x] = i /\ pos2[x] = q /\ id2[x + 1] = i /\ pos2[x + 1] = q + 1
                BY <1>14, <4>1, <4>2
            <4>4. q # Len(Answer(s, i))
                BY <1>3, <1>4, <1>5, <4>2
            <4> QED BY <4>3, <4>4 DEF Follows
        <3> QED BY <1>9, <3>1, <3>2, <3>3
    <2> QED BY <2>1, <2>2 DEF Stream
<1>16. PICK d \in Nat : d = Len(dn)
    BY DEF Downlink, Places
<1>17. PICK dn2 : dn2 = Append(dn, chunk)
    OBVIOUS
<1>18. /\ dn2 \in Seq(Seq(Tokens)) /\ Len(dn2) = d + 1 /\ dn2[d + 1] = chunk
       /\ \A j \in 1 .. d : dn2[j] = dn[j]
    BY <1>8, <1>16, <1>17, AppendFacts DEF Downlink, Places
<1>19. PICK mark2 : mark2 = [j \in 1 .. d + 2 |-> IF j <= d + 1 THEN mark[j] ELSE m2]
    OBVIOUS
<1>20. /\ \A j \in 1 .. d + 1 : mark2[j] = mark[j]
       /\ mark2[d + 2] = m2
    BY <1>16, <1>19
<1>21. mark[d + 1] = m
    BY <1>16 DEF Downlink, Places
<1>22. \A j \in 1 .. d + 1 : mark[j] \in 0 .. m
    BY <1>16 DEF Downlink, Places
<1>23. ASSUME NEW j \in 1 .. (d + 1) + 1 PROVE mark2[j] \in 0 .. m2
    <2>1. CASE j \in 1 .. d + 1
        <3>1. PICK q \in 0 .. m : q = mark2[j]
            BY <1>20, <1>22, <2>1
        <3> QED BY <1>9, <1>10, <3>1
    <2>2. CASE j = d + 2
        BY <1>20, <2>2
    <2> QED BY <1>16, <2>1, <2>2
<1>24. ASSUME NEW j \in 1 .. d + 1
       PROVE  /\ mark2[j + 1] = mark2[j] + Len(dn2[j])
              /\ \A x \in 1 .. Len(dn2[j]) : dn2[j][x] = At(s, id2, pos2, mark2[j] + x)
    <2>1. CASE j \in 1 .. d
        <3>1. j \in 1 .. d + 1 /\ j + 1 \in 1 .. d + 1 /\ dn2[j] = dn[j]
            BY <1>16, <1>18, <2>1
        <3>2. mark2[j] = mark[j] /\ mark2[j + 1] = mark[j + 1]
            BY <1>20, <3>1
        <3>3. /\ mark[j + 1] = mark[j] + Len(dn[j])
              /\ \A x \in 1 .. Len(dn[j]) : dn[j][x] = At(s, id, pos, mark[j] + x)
            BY <1>16, <2>1 DEF Downlink, Places
        <3>4. ASSUME NEW x \in 1 .. Len(dn[j]) PROVE At(s, id2, pos2, mark[j] + x) = At(s, id, pos, mark[j] + x)
            <4>1. PICK a \in 0 .. m, b \in 0 .. m : a = mark[j] /\ b = mark[j + 1]
                BY <1>22, <3>1
            <4>2. PICK z \in Nat : z = Len(dn[j])
                <5>1. dn[j] \in Seq(Tokens)
                    BY <1>16, <2>1 DEF Downlink, Places
                <5> QED BY <5>1
            <4>3. a + x \in 1 .. m
                <5>1. b = a + z /\ x \in 1 .. z
                    BY <3>3, <4>1, <4>2
                <5>2. a \in Nat /\ a + z <= m
                    BY <1>9, <5>1
                <5> QED BY <1>9, <4>2, <5>1, <5>2, Inside
            <4> QED BY <1>13, <4>1, <4>3
        <3>5. ASSUME NEW x \in 1 .. Len(dn2[j]) PROVE dn2[j][x] = At(s, id2, pos2, mark2[j] + x)
            BY <3>1, <3>2, <3>3, <3>4
        <3>6. mark2[j + 1] = mark2[j] + Len(dn2[j])
            BY <3>1, <3>2, <3>3
        <3> QED BY <3>5, <3>6
    <2>2. CASE j = d + 1
        <3>1. mark2[j] = m /\ mark2[j + 1] = m2 /\ dn2[j] = chunk
            <4>1. j + 1 = d + 2 /\ j \in 1 .. d + 1
                BY <1>16, <2>2
            <4> QED BY <1>18, <1>20, <1>21, <2>2, <4>1
        <3>2. mark2[j + 1] = mark2[j] + Len(dn2[j])
            BY <1>8, <1>10, <3>1
        <3>3. ASSUME NEW x \in 1 .. l PROVE chunk[x] = At(s, id2, pos2, m + x)
            <4>1. m + x \in m + 1 .. m2 /\ o + ((m + x) - m) = o + x
                BY <1>9, <1>10
            <4>2. id2[m + x] = i /\ pos2[m + x] = o + x
                BY <1>14, <4>1
            <4> QED BY <1>3, <1>8, <4>2 DEF At
        <3> QED BY <1>8, <3>1, <3>2, <3>3
    <2> QED BY <1>16, <2>1, <2>2
<1>25. /\ hd \in Seq(Tokens) /\ from \in Nat /\ mark[1] = from + Len(hd)
       /\ \A j \in 1 .. Len(hd) : hd[j] = At(s, id, pos, from + j)
    BY DEF Downlink, Places
<1>26. mark2[1] = from + Len(hd)
    <2>1. 1 \in 1 .. d + 1
        BY <1>16
    <2> QED BY <1>20, <1>25, <2>1
<1>27. ASSUME NEW j \in 1 .. Len(hd) PROVE hd[j] = At(s, id2, pos2, from + j)
    <2>1. 1 \in 1 .. d + 1
        BY <1>16
    <2>2. PICK a \in 0 .. m, z \in Nat : a = mark[1] /\ z = Len(hd)
        BY <1>22, <1>25, <2>1
    <2>3. from + j \in 1 .. m
        BY <1>9, <1>25, <2>2
    <2> QED BY <1>13, <1>25, <2>3
<1>28. Places(s, hd, dn2, m2, id2, pos2, from, mark2)
    <2>1. mark2[Len(dn2) + 1] = m2
        <3>1. (d + 1) + 1 = d + 2
            BY <1>16
        <3> QED BY <1>18, <1>20, <3>1
    <2> QED BY <1>18, <1>23, <1>24, <1>25, <1>26, <1>27, <2>1 DEF Places
<1>29. GoesOn(s, m2, id2, pos2, after)
    <2>1. m2 \in m + 1 .. m2 /\ o + (m2 - m) = e
        BY <1>5, <1>7, <1>8, <1>9, <1>10
    <2>2. id2[m2] = i /\ pos2[m2] = e
        BY <1>14, <2>1
    <2> QED BY <1>1, <1>3, <2>2 DEF GoesOn
<1>30. Downlink(s, h, hd, dn2, after, m2, id2, pos2, from, mark2)
    BY <1>15, <1>28, <1>29 DEF Downlink
<1> QED BY <1>1, <1>6, <1>17, <1>30

LEMMA DownGrows ==
    ASSUME NEW s \in Seq(Asked), NEW x \in Asked, NEW h, NEW hd, NEW dn, NEW buffer,
           NEW m, NEW id, NEW pos, NEW from, NEW mark,
           Downlink(s, h, hd, dn, buffer, m, id, pos, from, mark), Holds(s, h, buffer)
    PROVE  /\ Downlink(Append(s, x), h, hd, dn, buffer, m, id, pos, from, mark)
           /\ Holds(Append(s, x), h, buffer)
<1>1. PICK s2 : s2 = Append(s, x)
    OBVIOUS
<1>2. PICK l \in Nat : l = Len(s)
    OBVIOUS
<1>3. Len(s2) = l + 1 /\ \A i \in 1 .. l : s2[i] = s[i]
    BY <1>1, <1>2, AppendFacts
<1>4. ASSUME NEW i \in 1 .. l PROVE i \in 1 .. Len(s2) /\ Answer(s2, i) = Answer(s, i)
    BY <1>3 DEF Answer
<1>5. Stream(s, h, m, id, pos) /\ Places(s, hd, dn, m, id, pos, from, mark) /\ GoesOn(s, m, id, pos, buffer)
    BY DEF Downlink
<1>6. m \in Nat /\ \A y \in 1 .. m : id[y] \in 1 .. l
    BY <1>2, <1>5 DEF Stream
<1>7. ASSUME NEW y \in 1 .. m
      PROVE  id[y] \in 1 .. Len(s2) /\ Answer(s2, id[y]) = Answer(s, id[y]) /\ At(s2, id, pos, y) = At(s, id, pos, y)
    BY <1>4, <1>6 DEF At
<1>8. Stream(s2, h, m, id, pos)
    <2>1. ASSUME NEW y \in 1 .. m
          PROVE  HasActed(h, id[y]) /\ pos[y] \in 1 .. Len(Answer(s2, id[y]))
        BY <1>5, <1>7 DEF Stream
    <2>2. ASSUME NEW y \in 1 .. m - 1
          PROVE  Follows(s2, id[y], pos[y], id[y + 1], pos[y + 1])
        <3>1. y \in 1 .. m
            BY <1>6
        <3>2. Follows(s, id[y], pos[y], id[y + 1], pos[y + 1])
            BY <1>5 DEF Stream
        <3> QED BY <1>7, <3>1, <3>2 DEF Follows
    <2> QED BY <1>6, <1>7, <2>1, <2>2 DEF Stream
<1>9. Places(s2, hd, dn, m, id, pos, from, mark)
    <2>1. PICK d \in Nat : d = Len(dn)
        BY <1>5 DEF Places
    <2>2. \A i \in 1 .. d + 1 : mark[i] \in 0 .. m
        BY <1>5, <2>1 DEF Places
    <2>3. ASSUME NEW i \in 1 .. d, NEW j \in 1 .. Len(dn[i])
          PROVE  dn[i][j] = At(s2, id, pos, mark[i] + j)
        <3>1. i \in 1 .. d + 1 /\ i + 1 \in 1 .. d + 1
            BY <2>1
        <3>2. PICK a \in 0 .. m, b \in 0 .. m : a = mark[i] /\ b = mark[i + 1]
            BY <2>2, <3>1
        <3>3. dn[i] \in Seq(Tokens)
            BY <1>5, <2>1 DEF Places
        <3>4. PICK z \in Nat : z = Len(dn[i])
            BY <3>3
        <3>5. b = a + z
            BY <1>5, <2>1, <3>2, <3>4 DEF Places
        <3>6. a + j \in 1 .. m
            BY <1>6, <3>2, <3>4, <3>5
        <3>7. dn[i][j] = At(s, id, pos, a + j)
            BY <1>5, <2>1, <3>2 DEF Places
        <3> QED BY <1>7, <3>2, <3>6, <3>7
    <2>4. ASSUME NEW j \in 1 .. Len(hd) PROVE hd[j] = At(s2, id, pos, from + j)
        <3>1. 1 \in 1 .. d + 1
            BY <2>1
        <3>2. PICK a \in 0 .. m, z \in Nat : a = mark[1] /\ z = Len(hd)
            BY <1>5, <2>2, <3>1 DEF Places
        <3>3. a = from + z /\ from \in Nat
            BY <1>5, <3>2 DEF Places
        <3>4. from + j \in 1 .. m
            BY <1>6, <3>2, <3>3
        <3>5. hd[j] = At(s, id, pos, from + j)
            BY <1>5 DEF Places
        <3> QED BY <1>7, <3>4, <3>5
    <2> QED BY <1>5, <2>1, <2>3, <2>4 DEF Places
<1>10. GoesOn(s2, m, id, pos, buffer)
    <2>1. CASE m > 0
        <3>1. m \in 1 .. m
            BY <1>6, <2>1
        <3> QED BY <1>5, <1>7, <3>1 DEF GoesOn
    <2>2. CASE ~ (m > 0)
        BY <2>2 DEF GoesOn
    <2> QED BY <2>1, <2>2
<1>11. Holds(s2, h, buffer)
    <2>1. CASE buffer.tokens = <<>>
        BY <2>1 DEF Holds
    <2>2. CASE buffer.tokens # <<>>
        <3>1. PICK i \in 1 .. l : HasActed(h, i) /\ buffer.tokens = Answer(s, i)
            BY <1>2, <2>2 DEF Holds
        <3> QED BY <1>4, <3>1 DEF Holds
    <2> QED BY <2>1, <2>2
<1> QED BY <1>1, <1>8, <1>9, <1>10, <1>11 DEF Downlink

LEMMA DownHandled ==
    ASSUME NEW s, NEW h \in Seq(Nat), NEW a \in Nat, NEW hd, NEW dn, NEW buffer,
           NEW m, NEW id, NEW pos, NEW from, NEW mark,
           Downlink(s, h, hd, dn, buffer, m, id, pos, from, mark), Holds(s, h, buffer)
    PROVE  /\ Downlink(s, Append(h, a), hd, dn, buffer, m, id, pos, from, mark)
           /\ Holds(s, Append(h, a), buffer)
           /\ HasActed(Append(h, a), a)
<1>1. PICK g : g = Append(h, a)
    OBVIOUS
<1>2. PICK l \in Nat : l = Len(h)
    OBVIOUS
<1>3. Len(g) = l + 1 /\ g[l + 1] = a /\ \A i \in 1 .. l : g[i] = h[i]
    BY <1>1, <1>2, AppendFacts
<1>4. ASSUME NEW i, HasActed(h, i) PROVE HasActed(g, i)
    <2>1. PICK j \in 1 .. l : h[j] = i
        BY <1>2, <1>4 DEF HasActed
    <2>2. j \in 1 .. Len(g) /\ g[j] = i
        BY <1>3, <2>1
    <2> QED BY <2>2 DEF HasActed
<1>5. HasActed(g, a)
    <2>1. l + 1 \in 1 .. Len(g)
        BY <1>3
    <2> QED BY <1>3, <2>1 DEF HasActed
<1>6. Downlink(s, g, hd, dn, buffer, m, id, pos, from, mark)
    BY <1>4 DEF Downlink, Stream
<1>7. Holds(s, g, buffer)
    BY <1>4 DEF Holds
<1> QED BY <1>1, <1>5, <1>6, <1>7

LEMMA TransmitDown ==
    ASSUME NEW h, NEW hd, NEW dn, NEW buffer,
           NEW m, NEW id, NEW pos, NEW from, NEW mark,
           Downlink(sent, h, hd, dn, buffer, m, id, pos, from, mark), Holds(sent, h, buffer),
           NEW i \in 1 .. Len(sent), HasActed(h, i)
    PROVE  /\ Downlink(sent, h, hd, dn, Transmit(buffer, i), m, id, pos, from, mark)
           /\ Holds(sent, h, Transmit(buffer, i))
<1>1. CASE buffer.tokens # <<>>
    <2>1. Transmit(buffer, i) = buffer
        BY <1>1 DEF Transmit
    <2> QED BY <2>1
<1>2. CASE buffer.tokens = <<>>
    <2>1. PICK b : b = Transmit(buffer, i)
        OBVIOUS
    <2>2. b = [tokens |-> Answer(sent, i), offset |-> 0]
        BY <1>2, <2>1 DEF Transmit, FrameOf, Answer
    <2>3. b.tokens = Answer(sent, i) /\ b.offset = 0
        BY <2>2
    <2>4. i \in Nat
        OBVIOUS
    <2>5. Answer(sent, i) \in Seq(Tokens) /\ Len(Answer(sent, i)) \in Nat /\ Len(Answer(sent, i)) >= 4
        BY <2>4, AnswerFacts
    <2>6. Holds(sent, h, b)
        <3>1. b \in [tokens : Seq(Tokens), offset : Nat]
            BY <2>2, <2>5
        <3>2. b.offset <= Len(b.tokens)
            BY <2>3, <2>5
        <3> QED BY <2>3, <3>1, <3>2 DEF Holds
    <2>7. GoesOn(sent, m, id, pos, b)
        <3>1. CASE m > 0
            <4>1. m \in Nat /\ m \in 1 .. m
                BY <3>1 DEF Downlink, Stream
            <4>2. id[m] \in Nat
                BY <4>1 DEF Downlink, Stream
            <4>3. Answer(sent, id[m]) # <<>>
                <5>1. Len(Answer(sent, id[m])) >= 4
                    BY <4>2, AnswerFacts
                <5> QED BY <5>1
            <4>4. pos[m] = Len(Answer(sent, id[m]))
                BY <1>2, <3>1, <4>3 DEF Downlink, GoesOn
            <4> QED BY <2>3, <4>4 DEF GoesOn
        <3>2. CASE ~ (m > 0)
            BY <3>2 DEF GoesOn
        <3> QED BY <3>1, <3>2
    <2> QED BY <2>1, <2>6, <2>7 DEF Downlink
<1> QED BY <1>1, <1>2

LEMMA RoundDown ==
    ASSUME Basics, WayUp, Known, WayDown, Round
    PROVE  WayDown'
<1>1. PICK taken \in {FALSE, connected} :
        /\ tx' = IF pending = 0 THEN AfterGatt(taken) ELSE Transmit(AfterGatt(taken), pending)
        /\ down' = IF taken /\ subscribed /\ tx.offset < Len(tx.tokens)
                   THEN Append(down, SubSeq(tx.tokens, tx.offset + 1, AfterGatt(taken).offset)) ELSE down
        /\ UNCHANGED <<connected, session, subscribed, up, losses, client, decoder, handled, history>>
    BY DEF Round
<1>2. PICK after : after = AfterGatt(taken)
    OBVIOUS
<1>3. PICK m, id, pos, from, mark : Downlink(sent, handled, heard, down, tx, m, id, pos, from, mark)
    BY DEF WayDown
<1>4. Holds(sent, handled, tx)
    BY DEF WayDown
<1>5. PICK o \in Nat, size \in Nat : o = tx.offset /\ size = Len(tx.tokens)
    BY <1>4 DEF Holds
<1>6. o <= size
    BY <1>4, <1>5 DEF Holds
<1>7. /\ Holds(sent, handled, after)
      /\ \E m2, id2, pos2, from2, mark2 : Downlink(sent, handled, heard, down', after, m2, id2, pos2, from2, mark2)
    <2>1. CASE o >= size
        <3>1. after = Empty /\ down' = down
            BY <1>1, <1>2, <1>5, <2>1 DEF AfterGatt
        <3>2. after.tokens = <<>> /\ after.offset = 0 /\ after \in [tokens : Seq(Tokens), offset : Nat]
            BY <3>1 DEF Empty
        <3>3. Holds(sent, handled, after)
            <4>1. after.offset <= Len(after.tokens)
                BY <3>2
            <4> QED BY <3>2, <4>1 DEF Holds
        <3>4. GoesOn(sent, m, id, pos, after)
            <4>1. CASE m > 0
                <5>1. pos[m] = Len(Answer(sent, id[m]))
                    BY <1>3, <1>5, <1>6, <2>1, <4>1 DEF Downlink, GoesOn
                <5> QED BY <3>2, <5>1 DEF GoesOn
            <4>2. CASE ~ (m > 0)
                BY <4>2 DEF GoesOn
            <4> QED BY <4>1, <4>2
        <3>5. Downlink(sent, handled, heard, down', after, m, id, pos, from, mark)
            BY <1>3, <3>1, <3>4 DEF Downlink
        <3> QED BY <3>3, <3>5
    <2>2. CASE o < size /\ taken
        <3>1. PICK e \in Nat : e = IF o + FragmentSize > size THEN size ELSE o + FragmentSize
            BY ConstantFacts
        <3>2. o < e /\ e <= size
            BY <2>2, <3>1, ConstantFacts
        <3>3. after = [tx EXCEPT !.offset = e]
            BY <1>2, <1>5, <2>2, <3>1 DEF AfterGatt
        <3>4. after.tokens = tx.tokens /\ after.offset = e /\ after \in [tokens : Seq(Tokens), offset : Nat]
            BY <1>4, <3>3 DEF Holds
        <3>5. Holds(sent, handled, after)
            BY <1>4, <1>5, <3>2, <3>4 DEF Holds
        <3>6. CASE subscribed
            <4>1. down' = Append(down, SubSeq(tx.tokens, tx.offset + 1, e))
                BY <1>1, <1>2, <1>5, <2>2, <3>4, <3>6
            <4>2. \E m2, id2, pos2, mark2 :
                     Downlink(sent, handled, heard, Append(down, SubSeq(tx.tokens, tx.offset + 1, e)), after,
                              m2, id2, pos2, from, mark2)
                BY <1>3, <1>4, <1>5, <2>2, <3>2, <3>4, Notified
            <4> QED BY <3>5, <4>1, <4>2
        <3>7. CASE ~ subscribed
            <4>1. down' = down
                BY <1>1, <3>7
            <4>2. down = <<>> /\ heard = <<>>
                BY <3>7 DEF Basics, WayDown
            <4> QED BY <3>5, <4>1, <4>2, Silent
        <3> QED BY <3>6, <3>7
    <2>3. CASE o < size /\ ~ taken
        <3>1. after = tx /\ down' = down
            BY <1>1, <1>2, <1>5, <2>3 DEF AfterGatt
        <3> QED BY <1>3, <1>4, <3>1
    <2>4. taken \in BOOLEAN
        BY <1>1 DEF Basics
    <2> QED BY <1>5, <2>1, <2>2, <2>3, <2>4
<1>8. UNCHANGED <<sent, handled, heard, waiting, subscribed>>
    BY <1>1 DEF client
<1>9. /\ Holds(sent, handled, tx')
      /\ \E m2, id2, pos2, from2, mark2 : Downlink(sent, handled, heard, down', tx', m2, id2, pos2, from2, mark2)
    <2>1. CASE pending = 0
        BY <1>1, <1>2, <1>7, <2>1
    <2>2. CASE pending # 0
        <3>1. HasActed(handled, pending) /\ pending \in 1 .. Len(sent)
            BY <2>2 DEF Known, HasActed
        <3>2. tx' = Transmit(after, pending)
            BY <1>1, <1>2, <2>2
        <3>3. PICK m2, id2, pos2, from2, mark2 :
                 Downlink(sent, handled, heard, down', after, m2, id2, pos2, from2, mark2)
            BY <1>7
        <3>4. PICK dn, b : dn = down' /\ b = Transmit(after, pending)
            OBVIOUS
        <3>5. Downlink(sent, handled, heard, dn, b, m2, id2, pos2, from2, mark2) /\ Holds(sent, handled, b)
            BY <1>7, <3>1, <3>3, <3>4, TransmitDown
        <3> QED BY <3>2, <3>4, <3>5
    <2> QED BY <2>1, <2>2
<1>10. subscribed \/ down' = down
    BY <1>1
<1> QED BY <1>8, <1>9, <1>10 DEF WayDown

LEMMA DeliverDown ==
    ASSUME Basics, WayUp, WayDown, Deliver
    PROVE  WayDown'
<1>1. PICK n, r, k : Uplink(sent, up, unwritten, n, r, k, arrived, decoder, handled, swallowed)
    BY DEF WayUp
<1>2. PICK a, f, c : a = r[1] /\ f = k[1] /\ c = Count(sent, r[1])
    OBVIOUS
<1>3. up # <<>> /\ OnTheWay(sent, up, unwritten, n, r, k) /\ handled \in Seq(Nat)
    BY <1>1 DEF Deliver, Uplink, InOrder
<1>4. a \in 1 .. Len(sent)
    BY <1>2, <1>3, FrontFacts
<1>5. \/ handled' = handled /\ tx' = tx
      \/ handled' = Append(handled, a) /\ (tx' = tx \/ tx' = Transmit(tx, a))
    BY <1>1, <1>2, DeliverFacts DEF Basics
<1>6. UNCHANGED <<sent, heard, down, waiting, subscribed>>
    BY DEF Deliver, client
<1>7. PICK m, id, pos, from, mark : Downlink(sent, handled, heard, down, tx, m, id, pos, from, mark)
    BY DEF WayDown
<1>8. Holds(sent, handled, tx)
    BY DEF WayDown
<1>9. CASE handled' = handled /\ tx' = tx
    BY <1>6, <1>9 DEF WayDown
<1>10. CASE handled' = Append(handled, a) /\ (tx' = tx \/ tx' = Transmit(tx, a))
    <2>1. PICK h : h = Append(handled, a)
        OBVIOUS
    <2>2. Downlink(sent, h, heard, down, tx, m, id, pos, from, mark) /\ Holds(sent, h, tx) /\ HasActed(h, a)
        BY <1>3, <1>4, <1>7, <1>8, <2>1, DownHandled
    <2>3. /\ Downlink(sent, h, heard, down, Transmit(tx, a), m, id, pos, from, mark)
          /\ Holds(sent, h, Transmit(tx, a))
        BY <1>4, <2>2, TransmitDown
    <2>4. Downlink(sent, h, heard, down, tx', m, id, pos, from, mark) /\ Holds(sent, h, tx')
        BY <1>10, <2>2, <2>3
    <2> QED BY <1>6, <1>10, <2>1, <2>4 DEF WayDown
<1> QED BY <1>5, <1>9, <1>10

LEMMA UnheardDown ==
    ASSUME WayDown, heard' = <<>>, down' = down, UNCHANGED <<handled, tx, sent, subscribed>>
    PROVE  WayDown'
<1>1. PICK m, id, pos, from, mark : Downlink(sent, handled, heard, down, tx, m, id, pos, from, mark)
    BY DEF WayDown
<1>2. Downlink(sent, handled, <<>>, down, tx, m, id, pos, mark[1], mark)
    BY <1>1, Unheard DEF Downlink
<1> QED BY <1>2 DEF WayDown

LEMMA WayDownStep ==
    ASSUME Basics, WayUp, Known, WayDown, [Next]_vars
    PROVE  WayDown'
<1>1. CASE UNCHANGED <<sent, handled, heard, down, tx, waiting, subscribed>>
    BY <1>1 DEF WayDown
<1>2. CASE Connect
    <2>1. down = <<>> /\ UNCHANGED <<sent, handled, heard, down, tx, waiting>>
        BY <1>2 DEF Connect, Basics, WayDown, firmware
    <2> QED BY <2>1 DEF WayDown
<1>3. CASE Subscribe
    <2>1. subscribed' /\ UNCHANGED <<sent, handled, heard, down, tx, waiting>>
        BY <1>3 DEF Subscribe, firmware, client
    <2> QED BY <2>1 DEF WayDown
<1>4. CASE Disconnect
    <2>1. heard' = <<>> /\ down' = <<>> /\ UNCHANGED <<sent, handled, tx>>
        BY <1>4 DEF Disconnect, firmware
    <2>2. \E m, id, pos, from, mark : Downlink(sent, handled, <<>>, <<>>, tx, m, id, pos, from, mark)
        BY Silent
    <2> QED BY <2>1, <2>2 DEF WayDown
<1>5. ASSUME NEW command \in Commands, Send(command) PROVE WayDown'
    <2>1. PICK request \in Asked : sent' = Append(sent, request)
        BY <1>5, SentStep
    <2>2. heard' = <<>> /\ UNCHANGED <<handled, tx, down, subscribed>>
        BY <1>5 DEF Send, firmware, radio
    <2>3. PICK m, id, pos, from, mark : Downlink(sent, handled, heard, down, tx, m, id, pos, from, mark)
        BY DEF WayDown
    <2>4. Downlink(sent, handled, <<>>, down, tx, m, id, pos, mark[1], mark)
        BY <2>3, Unheard DEF Downlink
    <2>5. Holds(sent, handled, tx) /\ sent \in Seq(Asked)
        BY DEF WayDown, Basics
    <2>6. PICK s : s = Append(sent, request)
        OBVIOUS
    <2>7. Downlink(s, handled, <<>>, down, tx, m, id, pos, mark[1], mark) /\ Holds(s, handled, tx)
        BY <2>4, <2>5, <2>6, DownGrows
    <2> QED BY <2>1, <2>2, <2>6, <2>7 DEF WayDown
<1>6. CASE Accept \/ GiveUp
    <2>1. heard' = <<>> /\ UNCHANGED <<sent, handled, tx, down, subscribed>>
        BY <1>6 DEF Accept, GiveUp, firmware, radio
    <2> QED BY <2>1, UnheardDown
<1>7. CASE Arrive
    <2>1. /\ down # <<>> /\ down' = Tail(down) /\ UNCHANGED <<sent, handled, tx, waiting, subscribed>>
          /\ heard' = IF waiting # 0 THEN heard \o Head(down) ELSE heard
        BY <1>7 DEF Arrive, firmware
    <2>2. PICK m, id, pos, from, mark : Downlink(sent, handled, heard, down, tx, m, id, pos, from, mark)
        BY DEF WayDown
    <2>3. PICK mark2 : Places(sent, heard \o Head(down), Tail(down), m, id, pos, from, mark2)
        BY <2>1, <2>2, Reached DEF Downlink
    <2>4. ~ subscribed' => down' = <<>>
        <3>1. subscribed
            BY <2>1 DEF WayDown
        <3> QED BY <2>1, <3>1
    <2>5. CASE waiting # 0
        <3>1. Downlink(sent, handled, heard', down', tx, m, id, pos, from, mark2)
            BY <2>1, <2>2, <2>3, <2>5 DEF Downlink
        <3> QED BY <2>1, <2>4, <2>5, <3>1 DEF WayDown
    <2>6. CASE waiting = 0
        <3>1. heard' = <<>>
            BY <2>1, <2>6 DEF WayDown
        <3>2. Places(sent, <<>>, Tail(down), m, id, pos, mark2[1], mark2)
            BY <2>3, Unheard
        <3>3. Downlink(sent, handled, heard', down', tx, m, id, pos, mark2[1], mark2)
            BY <2>1, <2>2, <3>1, <3>2 DEF Downlink
        <3> QED BY <2>1, <2>4, <3>1, <3>3 DEF WayDown
    <2> QED BY <2>5, <2>6
<1>8. CASE Write \/ LoseWrite
    BY <1>1, <1>8 DEF Write, LoseWrite, client, firmware
<1> QED BY <1>1, <1>2, <1>3, <1>4, <1>5, <1>6, <1>7, <1>8, RoundDown, DeliverDown
        DEF Next, vars, radio, client, firmware

------------------------------------------------------------------------------
(* Decoder.feed, from the last position to the first.                        *)
LEMMA Backward ==
    ASSUME NEW l \in Nat, NEW T, \A i \in 1 .. l : (\A j \in i + 1 .. l : j \in T) => i \in T
    PROVE  1 .. l \subseteq T
<1> DEFINE Bad == {d \in Nat : \E i \in 1 .. l : i \notin T /\ d = l - i}
<1> SUFFICES ASSUME NEW i \in 1 .. l, i \notin T PROVE FALSE
    OBVIOUS
<1>1. l - i \in Bad
    OBVIOUS
<1>2. PICK d \in Bad : \A n \in Bad : d <= n
    <2>1. Bad \subseteq Nat /\ Bad # {}
        BY <1>1
    <2> HIDE DEF Bad
    <2> QED BY <2>1, Least
<1>3. PICK k \in 1 .. l : k \notin T /\ d = l - k
    BY <1>2
<1>4. PICK j \in k + 1 .. l : j \notin T
    BY <1>3
<1>5. l - j \in Bad /\ l - j < d
    BY <1>3, <1>4
<1>6. l - j \in Nat /\ d \in Nat
    BY <1>2, <1>5
<1> QED BY <1>2, <1>5, <1>6

Search(buffer, from, i) ==
    IF i + 2 > Len(buffer) THEN {}
    ELSE LET next == i + 4 + buffer[i + 2].n
         IN  CASE ~ Begins(buffer, i) -> from[i + 1]
               [] Begins(buffer, i) /\ next > Len(buffer) + 1 -> {}
               [] OTHER -> from[next] \union (IF Checks(SubSeq(buffer, i, next - 1))
                                              THEN {buffer[i + 2].frame} ELSE {})

LEMMA SearchFacts ==
    ASSUME NEW buffer \in Seq(Tokens), NEW i \in 1 .. Len(buffer) + 1, NEW from
    PROVE  /\ i + 2 > Len(buffer) => Search(buffer, from, i) = {}
           /\ i + 2 <= Len(buffer) /\ ~ Begins(buffer, i) => Search(buffer, from, i) = from[i + 1]
           /\ i + 2 <= Len(buffer) /\ Begins(buffer, i) =>
                 /\ buffer[i + 2].n \in Nat
                 /\ i + 4 + buffer[i + 2].n > Len(buffer) + 1 => Search(buffer, from, i) = {}
                 /\ i + 4 + buffer[i + 2].n <= Len(buffer) + 1 =>
                       Search(buffer, from, i) =
                           from[i + 4 + buffer[i + 2].n]
                           \union (IF Checks(SubSeq(buffer, i, i + 4 + buffer[i + 2].n - 1))
                                   THEN {buffer[i + 2].frame} ELSE {})
<1>1. PICK l \in Nat : l = Len(buffer)
    OBVIOUS
<1>2. CASE i + 2 > l
    BY <1>1, <1>2 DEF Search
<1>3. CASE ~ (i + 2 > l)
    <2>1. i + 2 \in 1 .. l
        BY <1>1, <1>3
    <2>2. PICK n \in Nat : n = buffer[i + 2].n
        <3>1. buffer[i + 2] \in Tokens
            BY <1>1, <2>1
        <3> QED BY <3>1 DEF Tokens
    <2>3. PICK next \in Nat : next = i + 4 + n
        OBVIOUS
    <2>4. Search(buffer, from, i) =
             CASE ~ Begins(buffer, i) -> from[i + 1]
               [] Begins(buffer, i) /\ next > Len(buffer) + 1 -> {}
               [] OTHER -> from[next] \union (IF Checks(SubSeq(buffer, i, next - 1))
                                              THEN {buffer[i + 2].frame} ELSE {})
        BY <1>1, <1>3, <2>2, <2>3 DEF Search
    <2>5. ~ Begins(buffer, i) => Search(buffer, from, i) = from[i + 1]
        BY <2>4
    <2>6. Begins(buffer, i) /\ next > l + 1 => Search(buffer, from, i) = {}
        BY <1>1, <2>4
    <2>7. Begins(buffer, i) /\ ~ (next > l + 1) =>
             Search(buffer, from, i) = from[next] \union (IF Checks(SubSeq(buffer, i, next - 1))
                                                          THEN {buffer[i + 2].frame} ELSE {})
        BY <1>1, <2>4
    <2>8. i + 2 <= l /\ (~ (next > l + 1) <=> next <= l + 1)
        BY <1>3
    <2> QED BY <1>1, <1>3, <2>2, <2>3, <2>5, <2>6, <2>7, <2>8
<1> QED BY <1>1, <1>2, <1>3

LEMMA SearchLooksAhead ==
    ASSUME NEW buffer \in Seq(Tokens), NEW i \in 1 .. Len(buffer) + 1, NEW f, NEW g,
           \A j \in i + 1 .. Len(buffer) + 1 : f[j] = g[j]
    PROVE  Search(buffer, f, i) = Search(buffer, g, i)
<1>1. PICK l \in Nat : l = Len(buffer)
    OBVIOUS
<1>2. CASE i + 2 > l
    BY <1>1, <1>2, SearchFacts
<1>3. CASE i + 2 <= l /\ ~ Begins(buffer, i)
    <2>1. i + 1 \in i + 1 .. l + 1
        BY <1>3
    <2>2. f[i + 1] = g[i + 1]
        BY <1>1, <2>1
    <2> QED BY <1>1, <1>3, <2>2, SearchFacts
<1>4. CASE i + 2 <= l /\ Begins(buffer, i)
    <2>1. PICK n \in Nat : n = buffer[i + 2].n
        BY <1>1, <1>4, SearchFacts
    <2>2. CASE i + 4 + n > l + 1
        BY <1>1, <1>4, <2>1, <2>2, SearchFacts
    <2>3. CASE i + 4 + n <= l + 1
        <3>1. i + 4 + n \in i + 1 .. l + 1
            BY <2>3
        <3>2. f[i + 4 + n] = g[i + 4 + n]
            BY <1>1, <3>1
        <3>3. PICK own : own = IF Checks(SubSeq(buffer, i, i + 4 + n - 1)) THEN {buffer[i + 2].frame} ELSE {}
            OBVIOUS
        <3>4. Search(buffer, f, i) = f[i + 4 + n] \union own
            BY <1>1, <1>4, <2>1, <2>3, <3>3, SearchFacts
        <3>5. Search(buffer, g, i) = g[i + 4 + n] \union own
            BY <1>1, <1>4, <2>1, <2>3, <3>3, SearchFacts
        <3> QED BY <3>2, <3>4, <3>5
    <2> QED BY <2>2, <2>3
<1> QED BY <1>2, <1>3, <1>4

LEMMA FoundFromBehind ==
    ASSUME NEW buffer \in Seq(Tokens)
    PROVE  \E from : /\ Found(buffer) = from[1]
                     /\ \A i \in 1 .. Len(buffer) + 1 : from[i] = Search(buffer, from, i)
<1>1. PICK l \in Nat : l = Len(buffer)
    OBVIOUS
<1> DEFINE Solves(f, m) == \A i \in 1 .. l + 1 : i >= l + 1 - m => f[i] = Search(buffer, f, i)
           T == {m \in Nat : \E f : Solves(f, m)}
<1>2. 0 \in T
    <2>1. PICK f : f = [i \in 1 .. l + 1 |-> {}]
        OBVIOUS
    <2>2. ASSUME NEW i \in 1 .. l + 1, i >= l + 1 - 0 PROVE f[i] = Search(buffer, f, i)
        <3>1. i + 2 > l
            BY <2>2
        <3>2. Search(buffer, f, i) = {}
            BY <1>1, <3>1, SearchFacts
        <3> QED BY <2>1, <3>2
    <2>3. Solves(f, 0)
        BY <2>2
    <2>4. \E g : Solves(g, 0)
        BY <2>3
    <2> HIDE DEF Solves
    <2> QED BY <2>4
<1>3. ASSUME NEW m \in Nat, m \in T PROVE m + 1 \in T
    <2>1. PICK f : Solves(f, m)
        BY <1>3
    <2>2. PICK k \in Int : k = l - m
        OBVIOUS
    <2>3. PICK g : g = [i \in 1 .. l + 1 |-> IF i = k THEN Search(buffer, f, i) ELSE f[i]]
        OBVIOUS
    <2>4. ASSUME NEW i \in 1 .. l + 1, i >= l + 1 - (m + 1) PROVE g[i] = Search(buffer, g, i)
        <3>1. i >= k
            BY <2>2, <2>4
        <3>2. ASSUME NEW j \in i + 1 .. l + 1 PROVE f[j] = g[j]
            <4>1. j \in 1 .. l + 1 /\ j # k
                BY <3>1, <3>2
            <4> QED BY <2>3, <4>1
        <3>3. Search(buffer, f, i) = Search(buffer, g, i)
            BY <1>1, <3>2, SearchLooksAhead
        <3>4. i = k \/ i >= l + 1 - m
            BY <2>2, <3>1
        <3>5. i # k => f[i] = Search(buffer, f, i)
            BY <2>1, <3>4
        <3>6. g[i] = IF i = k THEN Search(buffer, f, i) ELSE f[i]
            BY <2>3
        <3> QED BY <3>3, <3>5, <3>6
    <2>5. Solves(g, m + 1)
        BY <2>4
    <2>6. \E h : Solves(h, m + 1)
        BY <2>5
    <2> HIDE DEF Solves
    <2> QED BY <2>6
<1>4. l \in T
    <2> HIDE DEF T
    <2> QED BY <1>2, <1>3, Induct
<1>5. PICK f : Solves(f, l)
    BY <1>4
<1> DEFINE Is(g) == g = [i \in 1 .. l + 1 |-> Search(buffer, g, i)]
<1>6. Is([i \in 1 .. l + 1 |-> f[i]])
    <2>1. PICK g : g = [i \in 1 .. l + 1 |-> f[i]]
        OBVIOUS
    <2>2. ASSUME NEW i \in 1 .. l + 1 PROVE f[i] = Search(buffer, g, i)
        <3>1. i >= l + 1 - l
            OBVIOUS
        <3>2. f[i] = Search(buffer, f, i)
            BY <1>5, <3>1
        <3>3. \A j \in i + 1 .. l + 1 : f[j] = g[j]
            BY <2>1
        <3>4. Search(buffer, f, i) = Search(buffer, g, i)
            BY <1>1, <3>3, SearchLooksAhead
        <3> QED BY <3>2, <3>4
    <2>3. Is(g)
        BY <2>1, <2>2
    <2> QED BY <2>1, <2>3
<1>7. Is(CHOOSE g : Is(g))
    <2>1. \E g : Is(g)
        BY <1>6
    <2> HIDE DEF Is
    <2> QED BY <2>1
<1>8. PICK from : from = (CHOOSE g : Is(g))
    OBVIOUS
<1>9. Found(buffer) = from[1]
    BY <1>1, <1>8 DEF Found, Search
<1>10. from = [i \in 1 .. l + 1 |-> Search(buffer, from, i)]
    BY <1>7, <1>8
<1>11. \A i \in 1 .. l + 1 : from[i] = Search(buffer, from, i)
    BY <1>10
<1> QED BY <1>1, <1>9, <1>11

LEMMA FoundHasHead ==
    ASSUME NEW buffer \in Seq(Tokens), NEW answered \in Found(buffer)
    PROVE  \E x \in 1 .. Len(buffer) : buffer[x].kind = "head" /\ buffer[x].frame = answered
<1>1. PICK from : /\ Found(buffer) = from[1]
                  /\ \A i \in 1 .. Len(buffer) + 1 : from[i] = Search(buffer, from, i)
    BY FoundFromBehind
<1>2. PICK l \in Nat : l = Len(buffer)
    OBVIOUS
<1> DEFINE Heads == {buffer[x].frame : x \in {y \in 1 .. l : buffer[y].kind = "head"}}
           T == {i \in 1 .. l + 1 : from[i] \subseteq Heads}
<1>3. ASSUME NEW i \in 1 .. l + 1, \A j \in i + 1 .. l + 1 : j \in T
      PROVE  i \in T
    <2>1. from[i] = Search(buffer, from, i)
        BY <1>1, <1>2
    <2>2. CASE i + 2 > l
        <3>1. from[i] = {}
            BY <1>2, <2>1, <2>2, SearchFacts
        <3> QED BY <3>1
    <2>3. CASE i + 2 <= l /\ ~ Begins(buffer, i)
        <3>1. from[i] = from[i + 1]
            BY <1>2, <2>1, <2>3, SearchFacts
        <3>2. i + 1 \in i + 1 .. l + 1
            BY <2>3
        <3> QED BY <1>3, <3>1, <3>2
    <2>4. CASE i + 2 <= l /\ Begins(buffer, i)
        <3>1. PICK n \in Nat : n = buffer[i + 2].n
            BY <1>2, <2>4, SearchFacts
        <3>2. CASE i + 4 + n > l + 1
            <4>1. from[i] = {}
                BY <1>2, <2>1, <2>4, <3>1, <3>2, SearchFacts
            <4> QED BY <4>1
        <3>3. CASE i + 4 + n <= l + 1
            <4>1. PICK own : own = IF Checks(SubSeq(buffer, i, i + 4 + n - 1)) THEN {buffer[i + 2].frame} ELSE {}
                OBVIOUS
            <4>2. from[i] = from[i + 4 + n] \union own
                BY <1>2, <2>1, <2>4, <3>1, <3>3, <4>1, SearchFacts
            <4>3. i + 4 + n \in i + 1 .. l + 1
                BY <3>3
            <4>4. from[i + 4 + n] \subseteq Heads
                BY <1>3, <4>3
            <4>5. i + 2 \in 1 .. l /\ buffer[i + 2].kind = "head"
                BY <2>4 DEF Begins
            <4>6. buffer[i + 2].frame \in Heads
                BY <4>5
            <4>7. own \subseteq Heads
                BY <4>1, <4>6
            <4> QED BY <4>2, <4>4, <4>7
        <3>4. i + 4 + n > l + 1 \/ i + 4 + n <= l + 1
            OBVIOUS
        <3> HIDE DEF T
        <3> QED BY <3>2, <3>3, <3>4
    <2>5. i + 2 > l \/ i + 2 <= l
        OBVIOUS
    <2> HIDE DEF T
    <2> QED BY <2>2, <2>3, <2>4, <2>5
<1>4. 1 .. l + 1 \subseteq T
    <2>1. l + 1 \in Nat
        OBVIOUS
    <2>2. \A i \in 1 .. l + 1 : (\A j \in i + 1 .. l + 1 : j \in T) => i \in T
        BY <1>3
    <2> HIDE DEF T
    <2> QED BY <2>1, <2>2, Backward
<1>5. 1 \in T
    BY <1>4
<1>6. answered \in Heads
    BY <1>1, <1>5
<1> QED BY <1>2, <1>6

LEMMA HeardIsActed ==
    ASSUME sent \in Seq(Asked), WayDown, NEW answered \in Found(heard)
    PROVE  HasActed(handled, answered)
<1>1. PICK m, id, pos, from, mark : Downlink(sent, handled, heard, down, tx, m, id, pos, from, mark)
    BY DEF WayDown
<1>2. heard \in Seq(Tokens)
    BY <1>1 DEF Downlink, Places
<1>3. PICK x \in 1 .. Len(heard) : heard[x].kind = "head" /\ heard[x].frame = answered
    BY <1>2, FoundHasHead
<1>4. from + x \in 1 .. m
    <2>1. PICK l \in Nat, d \in Nat : l = Len(heard) /\ d = Len(down)
        BY <1>1 DEF Downlink, Places
    <2>2. 1 \in 1 .. d + 1
        BY <2>1
    <2>3. m \in Nat /\ from \in Nat /\ mark[1] = from + l /\ mark[1] \in 0 .. m
        BY <1>1, <2>1, <2>2 DEF Downlink, Places, Stream
    <2>4. from + l <= m
        BY <2>3
    <2> QED BY <2>1, <2>3, <2>4, Inside
<1>5. PICK y \in 1 .. m : y = from + x
    BY <1>4
<1>6. id[y] \in 1 .. Len(sent) /\ HasActed(handled, id[y]) /\ pos[y] \in 1 .. Len(Answer(sent, id[y]))
    BY <1>1, <1>5 DEF Downlink, Stream
<1>7. heard[x] = Answer(sent, id[y])[pos[y]]
    BY <1>1, <1>5 DEF Downlink, Places, At
<1>8. PICK i \in Nat : i = id[y]
    BY <1>6
<1>9. pos[y] = 3
    BY <1>3, <1>6, <1>7, <1>8, AnswerFacts
<1>10. heard[x] = Token("head", "answer", i, Len(Answer(sent, i)) - 4)
    BY <1>7, <1>8, <1>9, AnswerFacts
<1>11. heard[x].frame = i
    BY <1>10 DEF Token
<1> QED BY <1>3, <1>6, <1>8, <1>11

------------------------------------------------------------------------------
(* The inductive invariant.                                                  *)
LinkInv == Basics /\ Numbers /\ WayUp /\ Known /\ WayDown

LEMMA LinkInvStart == Init => LinkInv
<1> SUFFICES ASSUME Init PROVE LinkInv
    OBVIOUS
<1>1. sent = <<>> /\ sent \in Seq(Asked) /\ Len(sent) = 0
    BY DEF Init
<1>2. Basics
    <2>1. session = 0 /\ losses = 0 /\ sequence = 1 /\ waiting = 0 /\ unwritten = <<>>
        BY DEF Init
    <2>2. ~ connected /\ ~ subscribed
        BY Zenon DEF Init
    <2>3. connected \in BOOLEAN /\ subscribed \in BOOLEAN
        BY DEF Init
    <2>4. /\ session \in 0 .. MaxSessions /\ losses \in 0 .. MaxLosses
          /\ Len(sent) <= MaxRequests /\ sequence \in 1 .. Len(sent) + 1 /\ waiting \in 0 .. Len(sent)
        BY <1>1, <2>1, ConstantFacts
    <2> QED BY <1>1, <2>1, <2>2, <2>3, <2>4, Zenon DEF Basics
<1>3. Numbers
    BY <1>1 DEF Init, Numbers
<1>4. WayUp
    <2>1. Collecting(sent, decoder)
        <3>1. decoder = <<>> /\ decoder \in Seq(Tokens) /\ Len(decoder) = 0
            BY DEF Init
        <3> QED BY <3>1 DEF Collecting
    <2>2. InOrder(sent, handled)
        <3>1. handled = <<>> /\ handled \in Seq(Nat) /\ Len(handled) = 0
            BY DEF Init
        <3> QED BY <3>1 DEF InOrder
    <2>3. OnTheWay(sent, up, unwritten, 0, <<>>, <<>>)
        <3>1. up = <<>> /\ unwritten = <<>> /\ Len(up) = 0 /\ Len(unwritten) = 0
            BY DEF Init
        <3> QED BY <1>1, <3>1 DEF OnTheWay
    <2>4. Uplink(sent, up, unwritten, 0, <<>>, <<>>, arrived, decoder, handled, swallowed)
        <3>1. arrived = 0 /\ swallowed = 0
            BY DEF Init
        <3>2. decoder = <<>> /\ decoder \in Seq(Tokens) /\ Len(decoder) = 0
            BY DEF Init
        <3>4. Loose(decoder)
            BY <3>2 DEF Loose
        <3>3. Ready(decoder, 0) /\ Tolerable(0)
            BY <3>2, <3>4, LooseIsReady
        <3> QED BY <2>1, <2>2, <2>3, <3>1, <3>3 DEF Uplink
    <2> QED BY <2>4 DEF WayUp
<1>5. Known
    BY DEF Init, Known
<1>6. WayDown
    <2>1. heard = <<>> /\ down = <<>> /\ waiting = 0
        BY DEF Init
    <2>2. Holds(sent, handled, tx)
        <3>1. tx.tokens = <<>> /\ tx.offset = 0 /\ tx \in [tokens : Seq(Tokens), offset : Nat]
            BY DEF Init, Empty
        <3>2. tx.offset <= Len(tx.tokens)
            BY <3>1
        <3> QED BY <3>1, <3>2 DEF Holds
    <2> QED BY <2>1, <2>2, Silent DEF WayDown
<1> QED BY <1>2, <1>3, <1>4, <1>5, <1>6 DEF LinkInv

LEMMA LinkInvStep == LinkInv /\ [Next]_vars => LinkInv'
<1> SUFFICES ASSUME LinkInv, [Next]_vars PROVE LinkInv'
    OBVIOUS
<1>1. Basics /\ Numbers /\ WayUp /\ Known /\ WayDown
    BY DEF LinkInv
<1>2. Basics'
    BY <1>1, BasicsStep
<1>3. Numbers'
    BY <1>1, NumbersStep
<1>4. WayUp'
    BY <1>1, WayUpStep
<1>5. Known'
    BY <1>1, KnownStep
<1>6. WayDown'
    BY <1>1, WayDownStep
<1> QED BY <1>2, <1>3, <1>4, <1>5, <1>6 DEF LinkInv

LEMMA LinkInvAlways == Spec => []LinkInv
<1> QED BY LinkInvStart, LinkInvStep, PTL DEF Spec

LEMMA LinkIsTyped == LinkInv => TypeOK
<1> SUFFICES ASSUME LinkInv PROVE TypeOK
    OBVIOUS
<1>1. Basics /\ WayUp /\ Known /\ WayDown
    BY DEF LinkInv
<1>2. {connected, subscribed} \subseteq BOOLEAN /\ session \in 0 .. MaxSessions /\ losses \in 0 .. MaxLosses
    BY <1>1 DEF Basics
<1>3. PICK l \in Nat : l = Len(sent)
    BY <1>1 DEF Basics
<1>4. sequence \in 1 .. MaxRequests + 1
    BY <1>1, <1>3, ConstantFacts DEF Basics
<1>5. sent \in Seq([session : 1 .. MaxSessions, sequence : Ids, command : Commands])
    BY <1>1 DEF Basics, Asked
<1>6. PICK n, r, k : Uplink(sent, up, unwritten, n, r, k, arrived, decoder, handled, swallowed)
    BY <1>1 DEF WayUp
<1>7. pending \in 0 .. Len(sent)
    <2>1. CASE pending = 0
        BY <1>3, <2>1
    <2>2. CASE pending # 0
        <3>1. PICK i \in 1 .. Len(handled) : handled[i] = pending
            BY <1>1, <2>2 DEF Known
        <3>2. pending \in 1 .. Len(sent)
            BY <1>6, <3>1 DEF Uplink, InOrder
        <3> QED BY <1>3, <3>2
    <2> QED BY <2>1, <2>2
<1>8. Len(decoder) < MaxFrame
    <2>1. Collecting(sent, decoder)
        BY <1>6 DEF Uplink
    <2>2. PICK d \in Nat : d = Len(decoder)
        BY <2>1 DEF Collecting
    <2>3. CASE d < 3
        BY <2>2, <2>3, ConstantFacts DEF MaxFrame
    <2>4. CASE d >= 3
        <3>1. PICK i \in 1 .. Len(sent) : i = decoder[3].frame
            BY <2>1, <2>2, <2>4 DEF Collecting
        <3>2. d < Len(Request(sent, i))
            BY <2>1, <2>2, <2>4, <3>1 DEF Collecting
        <3>3. i \in Nat
            OBVIOUS
        <3>4. Len(Request(sent, i)) \in 4 .. MaxFrame
            BY <3>3, FrameFacts DEF Request
        <3>5. MaxFrame \in Nat
            BY ConstantFacts DEF MaxFrame
        <3> QED BY <2>2, <3>2, <3>4, <3>5
    <2> QED BY <2>2, <2>3, <2>4
<1>9. tx.offset \in 0 .. Len(tx.tokens) /\ Len(tx.tokens) <= MaxFrame
    <2>1. Holds(sent, handled, tx)
        BY <1>1 DEF WayDown
    <2>2. PICK o \in Nat, size \in Nat : o = tx.offset /\ size = Len(tx.tokens)
        BY <2>1 DEF Holds
    <2>3. o <= size
        BY <2>1, <2>2 DEF Holds
    <2>4. size <= MaxFrame
        <3>1. CASE tx.tokens = <<>>
            BY <2>2, <3>1, ConstantFacts DEF MaxFrame
        <3>2. CASE tx.tokens # <<>>
            <4>1. PICK i \in 1 .. Len(sent) : tx.tokens = Answer(sent, i)
                BY <2>1, <3>2 DEF Holds
            <4>2. i \in Nat
                OBVIOUS
            <4> QED BY <2>2, <4>1, <4>2, AnswerFacts
        <3> QED BY <3>1, <3>2
    <2> QED BY <2>2, <2>3, <2>4
<1>10. arrived \in Nat
    <2>1. n \in Nat
        BY <1>6 DEF Uplink, OnTheWay
    <2>2. CASE n = 0
        BY <1>6, <2>2 DEF Uplink
    <2>3. CASE n > 0
        <3>1. arrived \in 0 .. k[1] - 1
            BY <1>6, <2>3 DEF Uplink, Front
        <3>2. 0 .. k[1] - 1 \subseteq Int
            OBVIOUS
        <3> QED BY <3>1, <3>2
    <2> QED BY <2>1, <2>2, <2>3
<1>11. waiting \in 0 .. Len(sent) /\ whole \subseteq 1 .. Len(sent) /\ swallowed \in Nat
    BY <1>1, <1>6 DEF Basics, Known, Uplink, Tolerable
<1> QED BY <1>2, <1>4, <1>5, <1>7, <1>8, <1>9, <1>10, <1>11 DEF TypeOK

------------------------------------------------------------------------------
(* Where the frames of the stream begin, and what the decoder makes of it.   *)
LEMMA StreamRuns ==
    ASSUME NEW s, NEW h, NEW m, NEW id, NEW pos, Stream(s, h, m, id, pos),
           NEW x \in 1 .. m, pos[x] = 1, NEW t \in Nat, t < Len(Answer(s, id[x])), x + t <= m
    PROVE  id[x + t] = id[x] /\ pos[x + t] = t + 1
<1>1. PICK a \in Nat : a = id[x]
    BY DEF Stream
<1>2. PICK size \in Nat : size = Len(Answer(s, a))
    BY <1>1, AnswerFacts
<1> DEFINE T == {u \in Nat : u < size /\ x + u <= m => id[x + u] = a /\ pos[x + u] = u + 1}
<1>3. m \in Nat
    BY DEF Stream
<1>4. 0 \in T
    <2>1. x + 0 = x
        OBVIOUS
    <2> QED BY <1>1, <2>1
<1>5. ASSUME NEW u \in Nat, u \in T PROVE u + 1 \in T
    <2> SUFFICES ASSUME u + 1 < size, x + (u + 1) <= m
                 PROVE  id[x + (u + 1)] = a /\ pos[x + (u + 1)] = (u + 1) + 1
        OBVIOUS
    <2>1. PICK y \in Nat : y = x + u
        OBVIOUS
    <2>2. y \in 1 .. m - 1 /\ y + 1 = x + (u + 1)
        BY <1>3, <2>1
    <2>3. id[y] = a /\ pos[y] = u + 1 /\ u + 1 # size
        BY <1>3, <1>5, <2>1
    <2>4. Follows(s, id[y], pos[y], id[y + 1], pos[y + 1])
        BY <2>2 DEF Stream
    <2>5. id[y + 1] = a /\ pos[y + 1] = (u + 1) + 1
        BY <1>2, <2>3, <2>4 DEF Follows
    <2> QED BY <2>2, <2>5
<1>6. t \in T
    <2> HIDE DEF T
    <2> QED BY <1>4, <1>5, Induct
<1> QED BY <1>1, <1>2, <1>6

LEMMA BeginsAtStart ==
    ASSUME NEW s, NEW h, NEW m, NEW id, NEW pos, Stream(s, h, m, id, pos),
           NEW x \in 1 .. m, x + 1 <= m, At(s, id, pos, x + 1).kind = "sof1"
    PROVE  pos[x] = 1
<1>1. m \in Nat /\ x + 1 \in 1 .. m /\ x \in 1 .. m - 1
    BY DEF Stream
<1>2. PICK a \in Nat, b \in Nat : a = id[x] /\ b = id[x + 1]
    <2>1. \A y \in 1 .. m : id[y] \in Nat
        BY DEF Stream
    <2> QED BY <1>1, <2>1
<1>3. /\ pos[x] \in 1 .. Len(Answer(s, a)) /\ pos[x + 1] \in 1 .. Len(Answer(s, b))
      /\ Follows(s, a, pos[x], b, pos[x + 1])
    BY <1>1, <1>2 DEF Stream
<1>4. PICK p \in Nat, q \in Nat : p = pos[x] /\ q = pos[x + 1]
    BY <1>3
<1>5. Answer(s, b)[q].kind = "sof1"
    BY <1>2, <1>4 DEF At
<1>6. q = 2
    BY <1>3, <1>4, <1>5, AnswerFacts
<1>7. q = p + 1
    BY <1>3, <1>4, <1>6 DEF Follows
<1> QED BY <1>4, <1>6, <1>7

LEMMA CarriedIsFound ==
    ASSUME sent \in Seq(Asked), WayDown,
           NEW w \in 1 .. Len(sent), Carries(heard, Answer(sent, w))
    PROVE  w \in Found(heard)
<1>1. PICK m, id, pos, first, mark : Downlink(sent, handled, heard, down, tx, m, id, pos, first, mark)
    BY DEF WayDown
<1>2. heard \in Seq(Tokens) /\ first \in Nat /\ m \in Nat /\ Stream(sent, handled, m, id, pos)
    BY <1>1 DEF Downlink, Places, Stream
<1>3. PICK l \in Nat : l = Len(heard)
    BY <1>2
<1>4. first + l <= m
    <2>1. PICK d \in Nat : d = Len(down)
        BY <1>1 DEF Downlink, Places
    <2>2. 1 \in 1 .. d + 1
        BY <2>1
    <2>3. mark[1] = first + l /\ mark[1] \in 0 .. m
        BY <1>1, <1>3, <2>1, <2>2 DEF Downlink, Places
    <2> QED BY <1>2, <2>3
<1>5. ASSUME NEW j \in 1 .. l
      PROVE  first + j \in 1 .. m /\ heard[j] = At(sent, id, pos, first + j)
    <2>1. first + j \in 1 .. m
        BY <1>2, <1>4, Inside
    <2> QED BY <1>1, <1>3, <2>1 DEF Downlink, Places
<1>6. PICK frame : frame = Answer(sent, w)
    OBVIOUS
<1>7. PICK size \in Nat : size = Len(frame)
    BY <1>6, AnswerFacts
<1>8. size >= 4
    BY <1>6, <1>7, AnswerFacts
<1>9. PICK i \in 0 .. l - size : SubSeq(heard, i + 1, i + size) = frame
    BY <1>3, <1>6, <1>7 DEF Carries
<1>10. i \in Nat /\ i + size \in Nat /\ i < i + size /\ i + size <= l
    BY <1>8, <1>9
<1>11. ASSUME NEW j \in 1 .. size PROVE heard[i + j] = frame[j]
    <2>1. j \in 1 .. (i + size) - i
        BY <1>10
    <2> QED BY <1>2, <1>3, <1>9, <1>10, <2>1, PieceFacts
<1>12. PICK c \in Nat : c = i + 1
    BY <1>10
<1>13. c \in 1 .. l /\ c + 1 <= l /\ c + 2 <= l /\ c + size <= l + 1
    BY <1>8, <1>10, <1>12
<1>14. /\ heard[c] = Sof0 /\ heard[c + 1] = Sof1
       /\ heard[c + 2] = Token("head", "answer", w, size - 4)
    <2>1. heard[i + 1] = frame[1] /\ heard[i + 2] = frame[2] /\ heard[i + 3] = frame[3]
        BY <1>8, <1>11
    <2>2. frame[1] = Sof0 /\ frame[2] = Sof1 /\ frame[3] = Token("head", "answer", w, size - 4)
        BY <1>6, <1>7, AnswerFacts
    <2>3. c + 1 = i + 2 /\ c + 2 = i + 3
        BY <1>10, <1>12
    <2> QED BY <1>12, <2>1, <2>2, <2>3
<1>15. ASSUME NEW j \in 1 .. l, j + 1 <= l, heard[j + 1] = Sof1 PROVE pos[first + j] = 1
    <2>1. j + 1 \in 1 .. l
        BY <1>15
    <2>2. first + j \in 1 .. m /\ first + (j + 1) \in 1 .. m /\ heard[j + 1] = At(sent, id, pos, first + (j + 1))
        BY <1>5, <2>1
    <2>3. (first + j) + 1 = first + (j + 1)
        BY <1>2
    <2>4. At(sent, id, pos, (first + j) + 1).kind = "sof1"
        BY <1>15, <2>2, <2>3 DEF Sof1
    <2>5. (first + j) + 1 <= m
        BY <1>2, <2>2, <2>3
    <2> QED BY <1>2, <2>2, <2>4, <2>5, BeginsAtStart
<1>16. pos[first + c] = 1
    BY <1>13, <1>14, <1>15
<1>17. PICK g : /\ Found(heard) = g[1]
                /\ \A j \in 1 .. l + 1 : g[j] = Search(heard, g, j)
    BY <1>2, <1>3, FoundFromBehind
<1> DEFINE T == {j \in 1 .. l + 1 : j <= c => w \in g[j]}
<1>18. w \in g[c]
    <2>1. Begins(heard, c)
        BY <1>14 DEF Begins, Token
    <2>2. heard[c + 2].n = size - 4 /\ heard[c + 2].frame = w /\ heard[c + 2].of = "answer"
        BY <1>14 DEF Token
    <2>3. c + 4 + (size - 4) = c + size /\ c + size - 1 = i + size
        BY <1>7, <1>10, <1>12
    <2>4. SubSeq(heard, c, c + 4 + (size - 4) - 1) = frame
        BY <1>9, <1>12, <2>3
    <2>5. Checks(frame)
        <3>1. frame[3] = Token("head", "answer", w, size - 4)
            BY <1>6, <1>7, AnswerFacts
        <3>2. frame[3].of = "answer" /\ frame[3].frame = w
            BY <3>1 DEF Token
        <3> QED BY <1>6, <3>2 DEF Checks, FrameOf, Answer
    <2>6. c \in 1 .. l + 1
        BY <1>13
    <2>7. g[c] = g[c + 4 + heard[c + 2].n]
                 \union (IF Checks(SubSeq(heard, c, c + 4 + heard[c + 2].n - 1)) THEN {heard[c + 2].frame} ELSE {})
        <3>1. c + 4 + heard[c + 2].n <= l + 1
            BY <1>13, <2>2, <2>3
        <3>2. g[c] = Search(heard, g, c)
            BY <1>17, <2>6
        <3> QED BY <1>2, <1>3, <1>13, <2>1, <2>6, <3>1, <3>2, SearchFacts
    <2> QED BY <2>2, <2>4, <2>5, <2>7
<1>19. ASSUME NEW j \in 1 .. l + 1, \A e \in j + 1 .. l + 1 : e \in T, j < c
       PROVE  w \in g[j]
    <2>1. j \in 1 .. l /\ j + 1 <= l /\ j + 2 <= l
        BY <1>13, <1>19
    <2>2. g[j] = Search(heard, g, j)
        BY <1>17
    <2>3. CASE ~ Begins(heard, j)
        <3>1. g[j] = g[j + 1]
            BY <1>2, <1>3, <2>1, <2>2, <2>3, SearchFacts
        <3>2. j + 1 \in j + 1 .. l + 1 /\ j + 1 <= c
            BY <1>12, <1>19, <2>1
        <3>3. w \in g[j + 1]
            BY <1>19, <3>2
        <3> QED BY <3>1, <3>3
    <2>4. CASE Begins(heard, j)
        <3>1. pos[first + j] = 1
            BY <1>15, <2>1, <2>4 DEF Begins
        <3>2. PICK y \in 1 .. m : y = first + j
            BY <1>5, <2>1
        <3>3. PICK a \in Nat : a = id[y]
            <4>1. id[y] \in 1 .. Len(sent)
                BY <1>2 DEF Stream
            <4> QED BY <4>1
        <3>4. PICK all \in Nat : all = Len(Answer(sent, a))
            BY <3>3, AnswerFacts
        <3>5. all >= 4
            BY <3>3, <3>4, AnswerFacts
        <3>6. heard[j + 2].n = all - 4
            <4>1. j + 2 \in 1 .. l /\ first + (j + 2) = y + 2
                BY <1>2, <2>1, <3>2
            <4>2. y + 2 <= m /\ heard[j + 2] = At(sent, id, pos, y + 2)
                BY <1>2, <1>5, <4>1
            <4>3. id[y + 2] = id[y] /\ pos[y + 2] = 2 + 1
                <5>1. pos[y] = 1 /\ 2 < Len(Answer(sent, id[y]))
                    BY <3>1, <3>2, <3>3, <3>4, <3>5
                <5> QED BY <1>2, <4>2, <5>1, StreamRuns
            <4>4. heard[j + 2] = Answer(sent, a)[3]
                BY <3>3, <4>2, <4>3 DEF At
            <4>5. heard[j + 2] = Token("head", "answer", a, all - 4)
                BY <3>3, <3>4, <4>4, AnswerFacts
            <4> QED BY <4>5 DEF Token
        <3>7. j + all <= c
            <4> SUFFICES ASSUME c < j + all PROVE FALSE
                BY <3>4
            <4>1. PICK t \in Nat : t = c - j
                BY <1>19
            <4>2. t > 0 /\ t < all /\ y + t = first + c
                BY <1>2, <1>19, <3>2, <3>4, <4>1
            <4>3. y + t <= m
                BY <1>2, <1>5, <1>13, <4>2
            <4>4. pos[y + t] = t + 1
                BY <1>2, <3>1, <3>2, <3>3, <3>4, <4>2, <4>3, StreamRuns
            <4> QED BY <1>16, <4>1, <4>2, <4>4
        <3>8. j + 4 + heard[j + 2].n = j + all
            BY <3>4, <3>6
        <3>9. j + all \in j + 1 .. l + 1
            BY <1>13, <3>4, <3>5, <3>7
        <3>10. w \in g[j + all]
            BY <1>19, <3>7, <3>9
        <3>11. j + 4 + heard[j + 2].n <= l + 1
            BY <3>8, <3>9
        <3>12. PICK own : own = IF Checks(SubSeq(heard, j, j + 4 + heard[j + 2].n - 1))
                                THEN {heard[j + 2].frame} ELSE {}
            OBVIOUS
        <3>13. g[j] = g[j + 4 + heard[j + 2].n] \union own
            BY <1>2, <1>3, <2>1, <2>2, <2>4, <3>11, <3>12, SearchFacts
        <3> QED BY <3>8, <3>10, <3>13
    <2> QED BY <2>3, <2>4
<1>20. ASSUME NEW j \in 1 .. l + 1, \A e \in j + 1 .. l + 1 : e \in T PROVE j \in T
    <2>1. j > c \/ j = c \/ j < c
        BY <1>12
    <2>2. CASE j > c
        BY <1>12, <2>2
    <2>3. CASE j = c
        BY <1>18, <2>3
    <2>4. CASE j < c
        <3>1. w \in g[j]
            <4> HIDE DEF T
            <4> QED BY <1>19, <1>20, <2>4
        <3> QED BY <3>1
    <2> QED BY <2>1, <2>2, <2>3, <2>4
<1>21. 1 .. l + 1 \subseteq T
    <2>1. l + 1 \in Nat
        OBVIOUS
    <2> HIDE DEF T
    <2> QED BY <1>20, <2>1, Backward
<1>22. 1 \in T /\ 1 <= c
    BY <1>12, <1>13, <1>21
<1> QED BY <1>17, <1>22

(* No buffer of the two programs ever holds more than a frame: the decoder   *)
(* of bmslink_decoder_push stays below the longest one, the offset of        *)
(* bms_gatt_process within the answer it sends, and the numbers of           *)
(* BmsClient.request within those handed out.                                *)
THEOREM TypeCorrect == Spec => []TypeOK
<1> QED BY LinkInvAlways, LinkIsTyped, PTL

(* bms_firmware_receive hands requests on in the order they were sent, each  *)
(* at most once, and only when each of its fragments has come through, next  *)
(* to one another, however many writes are lost and connections cut short.   *)
THEOREM OnlyWholeRequestsAreHandled == Spec => []HandledWhole
<1>1. LinkInv => HandledWhole
    <2> SUFFICES ASSUME LinkInv PROVE HandledWhole
        OBVIOUS
    <2>1. PICK n, r, k : Uplink(sent, up, unwritten, n, r, k, arrived, decoder, handled, swallowed)
        BY DEF LinkInv, WayUp
    <2> QED BY <2>1 DEF HandledWhole, LinkInv, Known, Uplink, InOrder
<1> QED BY <1>1, LinkInvAlways, PTL

(* A frame cut short keeps the decoder from the requests that follow, for no *)
(* longer than it takes to fill that frame and the request in which it       *)
(* fills up: bmslink_decoder_push counts on the length it has read, and no   *)
(* disconnection or lost write resets it.                                    *)
THEOREM DeafnessEnds == Spec => []DeafnessIsBounded
<1>1. LinkInv => DeafnessIsBounded
    <2> SUFFICES ASSUME LinkInv PROVE DeafnessIsBounded
        OBVIOUS
    <2>1. PICK n, r, k : Uplink(sent, up, unwritten, n, r, k, arrived, decoder, handled, swallowed)
        BY DEF LinkInv, WayUp
    <2>2. PICK lost \in Nat : lost = swallowed /\ (lost = 0 \/ lost <= Bound)
        BY <2>1 DEF Uplink, Tolerable
    <2>3. lost <= Bound
        BY <2>2, BoundFacts
    <2> QED BY <2>2, <2>3 DEF Bound, DeafnessIsBounded
<1> QED BY <1>1, LinkInvAlways, PTL

(* Once the whole answer is among what exchange has heard, Decoder.feed      *)
(* finds it there: the rest of an older answer in front of it, cut off by a  *)
(* disconnection or read too late, never makes the decoder step over it.     *)
THEOREM AnswersAreFound == Spec => []ArrivedIsFound
<1>1. LinkInv => ArrivedIsFound
    <2> SUFFICES ASSUME LinkInv, waiting # 0, Carries(heard, FrameOf("answer", waiting))
                 PROVE  waiting \in Found(heard)
        BY DEF ArrivedIsFound
    <2>1. sent \in Seq(Asked) /\ waiting \in 1 .. Len(sent) /\ WayDown
        BY DEF LinkInv, Basics
    <2>2. Carries(heard, Answer(sent, waiting))
        BY DEF FrameOf, Answer
    <2> QED BY <2>1, <2>2, CarriedIsFound
<1> QED BY <1>1, LinkInvAlways, PTL

(* BmsClient takes an answer for its own by the sequence number and the      *)
(* command alone; what it finds was acted on, and among the answers to       *)
(* requests of the same connection only its own can match, late ones to      *)
(* requests it has given up included.                                        *)
THEOREM AnswersAreOwn == Spec => []AnswerIsOwn
<1>1. LinkInv => AnswerIsOwn
    <2> SUFFICES ASSUME LinkInv, waiting # 0, NEW answered \in Found(heard)
                 PROVE  /\ \E i \in 1 .. Len(handled) : handled[i] = answered
                        /\ Matches(answered) /\ sent[answered].session = session => answered = waiting
        BY DEF AnswerIsOwn
    <2>1. sent \in Seq(Asked) /\ waiting \in 1 .. Len(sent) /\ WayDown /\ WayUp /\ Numbers
        BY DEF LinkInv, Basics
    <2>2. HasActed(handled, answered)
        BY <2>1, HeardIsActed
    <2>3. PICK i \in 1 .. Len(handled) : handled[i] = answered
        BY <2>2 DEF HasActed
    <2>4. answered \in 1 .. Len(sent)
        <3>1. PICK n, r, k : Uplink(sent, up, unwritten, n, r, k, arrived, decoder, handled, swallowed)
            BY <2>1 DEF WayUp
        <3> QED BY <2>3, <3>1 DEF Uplink, InOrder
    <2>5. ASSUME Matches(answered), sent[answered].session = session PROVE answered = waiting
        <3>1. sent[waiting].session = session
            BY <2>1 DEF Numbers
        <3>2. PICK a \in Nat : a = sent[answered].sequence /\ a = sent[waiting].sequence
            BY <2>1, <2>4, <2>5, AskedFacts DEF Matches
        <3>3. ~ (answered < waiting) /\ ~ (waiting < answered)
            <4>1. answered < waiting => a < a
                BY <2>1, <2>4, <2>5, <3>1, <3>2 DEF Numbers
            <4>2. waiting < answered => a < a
                BY <2>1, <2>4, <2>5, <3>1, <3>2 DEF Numbers
            <4> QED BY <3>2, <4>1, <4>2
        <3> QED BY <2>1, <2>4, <3>3
    <2> QED BY <2>3, <2>5
<1> QED BY <1>1, LinkInvAlways, PTL
====
