--------------------------- MODULE TlsClientProofs ---------------------------
(***************************************************************************)
(* The dialogue of TlsClient, for records and buffers of every size, any   *)
(* number of records and certificates, and whatever pieces the network     *)
(* delivers: nothing is lost, repeated or swapped on the way to the caller.*)
(***************************************************************************)
EXTENDS TlsClient, SequenceTheorems, TLAPS

(* A stretch of the server's bytes: n of them from number a on. *)
Run(a, n) == [i \in 1..n |-> a + i - 1]

Unsent == {"connect", "cert", "handshake"}
Steps == Unsent \cup {"shake", "flush", "finish", "write", "read", "abort"}

(* Where the client is, once picotls' buffer is sent. *)
At == IF pc = "flush" THEN status ELSE pc

CertInv ==
  /\ backend \in Backends
  /\ certs \in Nat /\ tried \in Nat /\ stored \in Nat
  /\ stored <= tried /\ tried <= certs
  /\ CertificatesStored

BufferInv ==
  /\ pc \in Steps /\ status \in {"shake", "write", "abort"}
  /\ pc = "flush" => ~OwnIo
  /\ got \in Nat /\ arrived \in Nat
  /\ got <= arrived /\ arrived <= (Records + 1) * RecordSize
  /\ partial \in Seq(Int) /\ recv \in Seq(Int)
  /\ clear \in Seq(Int) /\ out \in Seq(Int)
  /\ Len(recv) <= RecvSize /\ Len(partial) < RecordSize
  /\ Len(clear) <= Records * RecordSize
  /\ OwnIo => recv = <<>>

(* Where the server's bytes are that have been read: first the greeting's   *)
(* record, which the library keeps to itself, then the response, of which   *)
(* the caller, clear, partial and recv have successive stretches.           *)
Reading(first) ==
  /\ got >= first
  /\ out \o (clear \o (partial \o recv)) = Run(first, got - first)
BytesInv ==
  /\ At \in Unsent => got = 0 /\ Reading(0)
  /\ At \in Unsent \cup {"shake", "finish", "write"} => clear = <<>> /\ out = <<>>
  /\ At \in Unsent \cup {"shake"} => recv = <<>>
  /\ At = "shake" => Reading(0)
  /\ At = "finish" \/ At = "write" => partial = <<>>
  /\ At \in {"finish", "write", "read"} => Reading(RecordSize)
  /\ out = Run(RecordSize, Len(out)) /\ Len(out) <= Records * RecordSize

(* What the client says. *)
Words == {Hello[1], Hello[2], Finished[1], Finished[2], Request[1], Request[2]}

(* What has been said when the client is at each step; picotls prepares it  *)
(* in its buffer first.                                                     *)
SpokenInv ==
  ~short =>
    /\ sent \in Seq(Words) /\ encode \in Seq(Words)
    /\ OwnIo \/ pc \in Unsent \/ pc = "write" => encode = <<>>
    /\ pc \in Unsent => sent = <<>>
    /\ At = "shake" => sent \o encode = Hello
    /\ pc = "flush" => sent \o encode \in {Hello, Hello \o Finished}
    /\ pc = "finish" => OwnIo /\ sent = Hello
    /\ pc = "flush" /\ status = "write" => sent \o encode = Hello \o Finished
    /\ pc = "write" => sent = Hello \o Finished
    /\ pc = "read" => sent = (Hello \o Finished) \o Request
    /\ SpeaksInTurn

DialogueIInv == CertInv /\ BufferInv /\ BytesInv /\ SpokenInv

-----------------------------------------------------------------------------
(* Stretches and sequences. *)

LEMMA RunType ==
  ASSUME NEW a \in Int, NEW n \in Nat
  PROVE  Run(a, n) \in Seq(Int) /\ Len(Run(a, n)) = n
BY DEF Run

LEMMA NoRun == ASSUME NEW a \in Int PROVE Run(a, 0) = <<>>
BY DEF Run

(* What a stretch begins with is a shorter one. *)
LEMMA RunHead ==
  ASSUME NEW a \in Int, NEW n \in Nat, NEW s \in Seq(Int), NEW t \in Seq(Int),
         s \o t = Run(a, n)
  PROVE  s = Run(a, Len(s)) /\ Len(s) + Len(t) = n
<1> DEFINE w == s \o t
<1>0. /\ Len(s) \in Nat /\ Len(t) \in Nat /\ Len(w) = Len(s) + Len(t)
      /\ \A i \in 1..Len(s) : w[i] = s[i]
  BY ConcatProperties
<1> HIDE DEF w
<1>1. w = Run(a, n) /\ Len(w) = n
  BY RunType DEF w
<1>2. \A i \in 1..n : Run(a, n)[i] = a + i - 1
  BY DEF Run
<1>3. \A i \in 1..Len(s) : s[i] = a + i - 1
  BY <1>0, <1>1, <1>2
<1>4. Run(a, Len(s)) \in Seq(Int) /\ Len(Run(a, Len(s))) = Len(s)
      /\ \A i \in 1..Len(s) : Run(a, Len(s))[i] = a + i - 1
  BY <1>0, RunType DEF Run
<1> QED BY <1>0, <1>1, <1>3, <1>4, SeqEqual

LEMMA RunPrefix ==
  ASSUME NEW a \in Int, NEW m \in Nat, NEW n \in Nat, m <= n
  PROVE  IsPrefix(Run(a, m), Run(a, n))
<1>1. n - m \in Nat /\ m + (n - m) = n
  OBVIOUS
<1>2. /\ Run(a, m) \in Seq(Int) /\ Len(Run(a, m)) = m
      /\ Run(a, n) \in Seq(Int) /\ Len(Run(a, n)) = n
  BY RunType
<1>3. \A i \in 1..m : Run(a, n)[i] = Run(a, m)[i]
  BY DEF Run
<1> DEFINE u == Run(a, m)   w == Run(a, n)
<1> HIDE DEF u, w
<1>4. /\ SubSeq(u, 1, m) \in Seq(Int) /\ Len(SubSeq(u, 1, m)) = m
      /\ \A i \in 1..m : SubSeq(u, 1, m)[i] = u[i]
      /\ SubSeq(w, 1, m) \in Seq(Int) /\ Len(SubSeq(w, 1, m)) = m
      /\ \A i \in 1..m : SubSeq(w, 1, m)[i] = w[i]
  BY <1>2 DEF u, w
<1>5. SubSeq(u, 1, m) = SubSeq(w, 1, m)
  BY <1>3, <1>4, SeqEqual DEF u, w
<1> QED BY <1>2, <1>5 DEF IsPrefix, u, w

LEMMA PrefixOfConcat ==
  ASSUME NEW S, NEW s \in Seq(S), NEW t \in Seq(S) PROVE IsPrefix(s, s \o t)
<1>1. Len(s) \in Nat /\ Len(t) \in Nat /\ s \o t \in Seq(S)
      /\ Len(s \o t) = Len(s) + Len(t)
      /\ \A i \in 1..Len(s) : (s \o t)[i] = s[i]
  BY ConcatProperties
<1> DEFINE w == s \o t
<1> HIDE DEF w
<1>2. /\ SubSeq(s, 1, Len(s)) \in Seq(S) /\ Len(SubSeq(s, 1, Len(s))) = Len(s)
      /\ \A i \in 1..Len(s) : SubSeq(s, 1, Len(s))[i] = s[i]
      /\ SubSeq(w, 1, Len(s)) \in Seq(S) /\ Len(SubSeq(w, 1, Len(s))) = Len(s)
      /\ \A i \in 1..Len(s) : SubSeq(w, 1, Len(s))[i] = w[i]
  BY <1>1 DEF w
<1>3. SubSeq(s, 1, Len(s)) = SubSeq(w, 1, Len(s))
  BY <1>1, <1>2, SeqEqual DEF w
<1> QED BY <1>1, <1>3 DEF IsPrefix, w

LEMMA SplitSeq ==
  ASSUME NEW s \in Seq(Int), NEW n \in 0..Len(s)
  PROVE  /\ SubSeq(s, 1, n) \in Seq(Int) /\ Len(SubSeq(s, 1, n)) = n
         /\ SubSeq(s, n + 1, Len(s)) \in Seq(Int)
         /\ Len(SubSeq(s, n + 1, Len(s))) = Len(s) - n
         /\ SubSeq(s, 1, n) \o SubSeq(s, n + 1, Len(s)) = s
<1>1. Len(s) \in Nat /\ \A i \in 1..Len(s) : s[i] \in Int
  OBVIOUS
<1>2. /\ SubSeq(s, 1, n) \in Seq(Int) /\ Len(SubSeq(s, 1, n)) = n
      /\ SubSeq(s, n + 1, Len(s)) \in Seq(Int)
      /\ Len(SubSeq(s, n + 1, Len(s))) = Len(s) - n
  BY <1>1, SubSeqProperties
<1>3. SubSeq(s, 1, n) \o SubSeq(s, n + 1, Len(s)) = SubSeq(s, 1, Len(s))
  <2>1. 1 \in 1 .. Len(s) + 1 /\ n \in 1 - 1 .. Len(s) /\ Len(s) \in n .. Len(s)
    BY <1>1
  <2> QED BY ONLY <2>1, ConcatAdjacentSubSeq, s \in Seq(Int)
<1> QED BY <1>2, <1>3, SubSeqFull

-----------------------------------------------------------------------------
(* Reading from the transport. *)

LEMMA Sizes ==
  /\ Records \in Nat /\ RecordSize \in Nat /\ RecordSize > 0
  /\ RecvSize \in Nat /\ BufferSize \in Nat
  /\ Records * RecordSize \in Nat
  /\ (Records + 1) * RecordSize = Records * RecordSize + RecordSize
BY TlsAssumption

(* The transport returns the stretch after what was read before. *)
LEMMA ReadMore ==
  ASSUME BufferInv, NEW n \in Nat
  PROVE  /\ TransportRead(n) \in Seq(Int)
         /\ Len(TransportRead(n)) \in 0..n
         /\ got + Len(TransportRead(n)) <= arrived
         /\ TransportRead(n) = Run(got, Len(TransportRead(n)))
<1> DEFINE m == Least(n, arrived - got)
<1>1. m \in Nat /\ m <= n /\ got + m <= arrived /\ got \in Int
  BY DEF BufferInv, Least
<1>2. TransportRead(n) = Run(got, m)
  BY DEF TransportRead, Run
<1> HIDE DEF m
<1>3. Run(got, m) \in Seq(Int) /\ Len(Run(got, m)) = m
  BY <1>1, RunType
<1> QED BY <1>1, <1>2, <1>3

(* Bytes that follow a stretch make it longer. *)
LEMMA Grows ==
  ASSUME NEW first \in Nat, NEW g \in Nat, first <= g, NEW s \in Seq(Int),
         s = Run(first, g - first), NEW b \in Seq(Int), b = Run(g, Len(b))
  PROVE  s \o b = Run(first, g + Len(b) - first)
<1> DEFINE w == s \o b   k == g + Len(b) - first
<1>0. /\ Len(s) \in Nat /\ Len(b) \in Nat /\ g - first \in Nat /\ k \in Nat
      /\ first \in Int /\ g \in Int
  OBVIOUS
<1>1. /\ w \in Seq(Int) /\ Len(w) = Len(s) + Len(b)
      /\ \A i \in 1 .. Len(s) + Len(b) :
           w[i] = IF i <= Len(s) THEN s[i] ELSE b[i - Len(s)]
  BY ConcatProperties
<1>2. Len(s) = g - first /\ \A i \in 1..Len(s) : s[i] = first + i - 1
  BY <1>0, RunType DEF Run
<1>3. \A i \in 1..Len(b) : b[i] = g + i - 1
  BY <1>0 DEF Run
<1>4. /\ Run(first, k) \in Seq(Int) /\ Len(Run(first, k)) = k
      /\ \A i \in 1..k : Run(first, k)[i] = first + i - 1
  BY <1>0, RunType DEF Run
<1>5. k = Len(s) + Len(b)
  BY ONLY <1>0, <1>2
<1> HIDE DEF w, k
<1>6. \A i \in 1..k : w[i] = first + i - 1
  BY ONLY <1>0, <1>1, <1>2, <1>3, <1>5
<1>7. w = Run(first, k)
  BY ONLY <1>1, <1>4, <1>5, <1>6, SeqEqual
<1> QED BY <1>7 DEF w, k

(* The same after what the caller was given: o and s are the stretch up to  *)
(* number g, and w, which is s and what was read next, goes on up to h.      *)
More(first, g, o, s, b, w, h) ==
  /\ first \in Nat /\ g \in Nat /\ first <= g
  /\ o \in Seq(Int) /\ s \in Seq(Int) /\ b \in Seq(Int)
  /\ o \o s = Run(first, g - first) /\ b = Run(g, Len(b))
  /\ s \o b = w /\ h = g + Len(b)

LEMMA GrowsTo ==
  ASSUME NEW first, NEW g, NEW o, NEW s, NEW b, NEW w, NEW h,
         More(first, g, o, s, b, w, h)
  PROVE  o \o w = Run(first, h - first)
<1> USE DEF More
<1> DEFINE x == g + Len(b) - first   y == h - first   r == s \o b
           p == o \o s   z == p \o b
<1>1. p \in Seq(Int) /\ p = Run(first, g - first)
  BY ConcatProperties
<1>a. o \in Seq(Int) /\ s \in Seq(Int) /\ b \in Seq(Int)
  OBVIOUS
<1>2. z = o \o r
  BY ONLY <1>a, ConcatAssociative
<1>3. x = y /\ r = w
  OBVIOUS
<1> HIDE DEF p, r, y
<1>4. p \o b = Run(first, x)
  BY <1>1, Grows
<1> HIDE DEF x
<1>5. Run(first, x) = Run(first, y)
  BY ONLY <1>3
<1>6. o \o r = o \o w
  BY ONLY <1>3
<1>7. z = Run(first, x)
  BY <1>4
<1> HIDE DEF z
<1>8. o \o w = Run(first, y)
  BY ONLY <1>2, <1>5, <1>6, <1>7
<1> QED BY ONLY <1>8 DEF y

(* What the caller was given, as a part of what was read. *)
LEMMA Given ==
  ASSUME NEW o \in Seq(Int), NEW c \in Seq(Int), NEW r \in Seq(Int),
         NEW g \in Nat, g >= RecordSize, g <= (Records + 1) * RecordSize,
         o \o (c \o r) = Run(RecordSize, g - RecordSize)
  PROVE  /\ o = Run(RecordSize, Len(o))
         /\ Len(o) <= Records * RecordSize /\ Len(c) <= Records * RecordSize
<1>1. /\ c \o r \in Seq(Int) /\ Len(c \o r) = Len(c) + Len(r)
      /\ Len(o) \in Nat /\ Len(c) \in Nat /\ Len(r) \in Nat
  BY ConcatProperties
<1>2. g - RecordSize \in Nat /\ RecordSize \in Int
      /\ g - RecordSize <= Records * RecordSize /\ Records * RecordSize \in Nat
  BY Sizes
<1>3. o = Run(RecordSize, Len(o)) /\ Len(o) + Len(c \o r) = g - RecordSize
  BY ONLY <1>1, <1>2, RunHead, o \o (c \o r) = Run(RecordSize, g - RecordSize), ZenonT(60)
<1> QED BY <1>1, <1>2, <1>3

(* What follows the beginning of a stretch is a stretch too. *)
LEMMA RunTail ==
  ASSUME NEW a \in Int, NEW n \in Nat, NEW s \in Seq(Int), NEW t \in Seq(Int),
         s \o t = Run(a, n)
  PROVE  t = Run(a + Len(s), Len(t))
<1> DEFINE w == s \o t
<1>0. /\ Len(s) \in Nat /\ Len(t) \in Nat /\ Len(w) = Len(s) + Len(t)
      /\ \A i \in 1 .. Len(s) + Len(t) :
           w[i] = IF i <= Len(s) THEN s[i] ELSE t[i - Len(s)]
  BY ConcatProperties
<1> HIDE DEF w
<1>1. w = Run(a, n) /\ Len(w) = n
  BY RunType DEF w
<1>2. \A i \in 1..n : Run(a, n)[i] = a + i - 1
  BY DEF Run
<1>3. ASSUME NEW i \in 1..Len(t) PROVE t[i] = a + Len(s) + i - 1
  <2>1. /\ i + Len(s) \in 1 .. Len(s) + Len(t) /\ ~(i + Len(s) <= Len(s))
        /\ (i + Len(s)) - Len(s) = i /\ i + Len(s) \in 1..n
    BY <1>0, <1>1
  <2>2. w[i + Len(s)] = t[i]
    BY <1>0, <2>1
  <2>3. w[i + Len(s)] = a + (i + Len(s)) - 1
    BY <1>1, <1>2, <2>1
  <2> QED BY <1>0, <2>2, <2>3
<1>4. /\ a + Len(s) \in Int
      /\ Run(a + Len(s), Len(t)) \in Seq(Int) /\ Len(Run(a + Len(s), Len(t))) = Len(t)
      /\ \A i \in 1..Len(t) : Run(a + Len(s), Len(t))[i] = a + Len(s) + i - 1
  BY <1>0, RunType DEF Run
<1> QED BY <1>0, <1>3, <1>4, SeqEqual

LEMMA Associative ==
  ASSUME NEW s \in Seq(Int), NEW t \in Seq(Int), NEW u \in Seq(Int)
  PROVE  (s \o t) \o u = s \o (t \o u)
BY ConcatAssociative

(* Giving out n of the decoded bytes c after o, with r still undecoded,    *)
(* moves none and loses none.                                              *)
Gives(o, c, r, n, given, left) ==
  /\ o \in Seq(Int) /\ c \in Seq(Int) /\ r \in Seq(Int) /\ n \in 0..Len(c)
  /\ given = o \o SubSeq(c, 1, n)
  /\ left = SubSeq(c, n + 1, Len(c))

LEMMA GiveOut ==
  ASSUME NEW o, NEW c, NEW r, NEW n, NEW given, NEW left,
         Gives(o, c, r, n, given, left)
  PROVE  /\ given \in Seq(Int) /\ left \in Seq(Int)
         /\ given \o (left \o r) = o \o (c \o r)
<1> USE DEF Gives
<1> DEFINE x == SubSeq(c, 1, n)   y == SubSeq(c, n + 1, Len(c))
<1>1. x \in Seq(Int) /\ y \in Seq(Int)
  BY SplitSeq
<1>2. x \o y = c
  BY SplitSeq
<1>3. o \in Seq(Int) /\ r \in Seq(Int)
  OBVIOUS
<1>4. given = o \o x /\ left = y
  OBVIOUS
<1> HIDE DEF x, y
<1>5. y \o r \in Seq(Int) /\ o \o x \in Seq(Int)
  BY ONLY <1>1, <1>3, ConcatProperties
<1>6. (x \o y) \o r = x \o (y \o r)
  BY ONLY <1>1, <1>3, Associative
<1>7. (o \o x) \o (y \o r) = o \o (x \o (y \o r))
  BY ONLY <1>1, <1>3, <1>5, Associative, ZenonT(60)
<1>8. (o \o x) \o (y \o r) = o \o (c \o r)
  BY ONLY <1>2, <1>6, <1>7, SMTT(30)
<1> QED BY ONLY <1>1, <1>4, <1>5, <1>8

(* What picotls makes of the bytes it has is all of them, in order. *)
LEMMA ProcessSplits ==
  ASSUME BufferInv, NEW bytes \in Seq(Int), Len(recv) + Len(bytes) <= RecvSize
  PROVE  LET p   == Process(bytes)
             all == (partial \o recv) \o bytes
         IN  /\ all \in Seq(Int)
             /\ p.record \in Seq(Int) /\ p.partial \in Seq(Int) /\ p.left \in Seq(Int)
             /\ p.record \o (p.partial \o p.left) = all
             /\ Len(p.partial) < RecordSize /\ Len(p.left) <= RecvSize
             /\ IF p.record = <<>> THEN p.left = <<>> ELSE Len(p.record) = RecordSize
             /\ p.record # <<>> => p.partial = <<>>
<1> DEFINE all == (partial \o recv) \o bytes   p == Process(bytes)
<1>1. /\ Len(partial) \in Nat /\ Len(recv) \in Nat /\ Len(bytes) \in Nat
      /\ all \in Seq(Int) /\ Len(all) = Len(partial) + Len(recv) + Len(bytes)
      /\ Len(partial) < RecordSize /\ RecordSize \in Nat /\ RecvSize \in Nat
      /\ RecordSize > 0 /\ <<>> \in Seq(Int) /\ Len(<<>>) = 0
  BY Sizes, ConcatProperties DEF BufferInv
<1>2. p = IF Len(all) < RecordSize
          THEN [record |-> <<>>, partial |-> all, left |-> <<>>]
          ELSE [record |-> SubSeq(all, 1, RecordSize), partial |-> <<>>,
                left |-> SubSeq(all, RecordSize + 1, Len(all))]
  BY DEF Process
<1> HIDE DEF all, p
<1>3. CASE Len(all) < RecordSize
  <2>1. p.record = <<>> /\ p.partial = all /\ p.left = <<>>
    BY <1>2, <1>3
  <2>2. <<>> \o (all \o <<>>) = all
    BY <1>1, ConcatEmptySeq
  <2> QED BY <1>1, <1>3, <2>1, <2>2 DEF all, p
<1>4. CASE ~(Len(all) < RecordSize)
  <2>1. /\ p.record = SubSeq(all, 1, RecordSize) /\ p.partial = <<>>
        /\ p.left = SubSeq(all, RecordSize + 1, Len(all))
    BY <1>2, <1>4
  <2>2. RecordSize \in 0..Len(all) /\ Len(all) - RecordSize <= RecvSize
    BY <1>1, <1>4
  <2> DEFINE u == SubSeq(all, 1, RecordSize)
             v == SubSeq(all, RecordSize + 1, Len(all))
  <2>a. /\ u \in Seq(Int) /\ Len(u) = RecordSize /\ u \o v = all
        /\ v \in Seq(Int) /\ Len(v) = Len(all) - RecordSize
    BY <1>1, <2>2, SplitSeq
  <2> HIDE DEF u, v
  <2>b. p.record = u /\ p.left = v
    BY <2>1 DEF u, v
  <2>3. /\ p.record \in Seq(Int) /\ Len(p.record) = RecordSize
        /\ p.left \in Seq(Int) /\ Len(p.left) = Len(all) - RecordSize
        /\ p.record \o p.left = all
    BY ONLY <2>a, <2>b
  <2>4. <<>> \o p.left = p.left /\ p.record # <<>>
    BY <1>1, <2>3, ConcatEmptySeq
  <2> QED BY <1>1, <2>1, <2>2, <2>3, <2>4 DEF all, p
<1> QED BY <1>3, <1>4

(* When a whole record of what was read is taken, the rest begins after it. *)
LEMMA RecordTaken ==
  ASSUME NEW s \in Seq(Int), NEW t \in Seq(Int), NEW g \in Nat,
         Len(s) = RecordSize, s \o t = Run(0, g - 0)
  PROVE  t = Run(RecordSize, g - RecordSize) /\ g >= RecordSize
<1>1. g - 0 = g /\ 0 \in Int /\ 0 + RecordSize = RecordSize
      /\ s \in Seq(Int) /\ t \in Seq(Int) /\ Len(t) \in Nat /\ RecordSize \in Nat
  BY Sizes
<1>2. s \o t = Run(0, g)
  BY <1>1
<1>3. Len(s) + Len(t) = g
  <2>1. Len(s \o t) = Len(s) + Len(t)
    BY <1>1, ConcatProperties
  <2>2. Len(Run(0, g)) = g
    BY <1>1, RunType
  <2> QED BY ONLY <1>2, <2>1, <2>2
<1>4. t = Run(0 + Len(s), Len(t))
  BY <1>1, <1>2, RunTail
<1>5. 0 + Len(s) = RecordSize /\ Len(t) = g - RecordSize /\ g >= RecordSize
  BY <1>1, <1>3
<1> QED BY ONLY <1>4, <1>5, Zenon

(* Nothing before and after a sequence. *)
LEMMA Alone ==
  ASSUME NEW s \in Seq(Int)
  PROVE  /\ <<>> \o s = s /\ s \o <<>> = s
         /\ <<>> \o (<<>> \o s) = s
         /\ <<>> \o (<<>> \o (s \o <<>>)) = s
         /\ <<>> \o (<<>> \o (<<>> \o s)) = s
BY ConcatEmptySeq

-----------------------------------------------------------------------------
(* A step that moves no byte, and goes on before the greeting or gives up. *)
LEMMA StayInv ==
  ASSUME BufferInv, BytesInv, SpokenInv,
         UNCHANGED <<backend, sent, got, short, status, partial, recv, encode, clear, out>>,
         arrived' \in Nat, arrived <= arrived',
         arrived' <= (Records + 1) * RecordSize,
         \/ pc' = pc \/ pc' = "abort"
         \/ pc \in Unsent /\ pc' \in Unsent
  PROVE  BufferInv' /\ BytesInv' /\ SpokenInv'
<1>1. BufferInv'
  <2>1. pc' \in Steps
    BY DEF BufferInv, Steps, Unsent
  <2>2. pc' = "flush" => pc = "flush"
    BY DEF Unsent
  <2> QED BY <2>1, <2>2 DEF BufferInv, OwnIo
<1>2. BytesInv'
  BY DEF BytesInv, At, Reading, Unsent
<1>3. SpokenInv'
  BY DEF SpokenInv, At, OwnIo, Unsent, SpeaksInTurn
<1> QED BY <1>1, <1>2, <1>3

(* A step that only says something. *)
LEMMA SayInv ==
  ASSUME BufferInv, BytesInv,
         UNCHANGED <<backend, arrived, got, status, partial, recv, clear, out>>,
         \/ pc = "handshake" /\ pc' = "shake"
         \/ pc = "finish" /\ pc' = "write"
         \/ pc = "write" /\ pc' = "read"
         \/ pc' = "abort"
  PROVE  BufferInv' /\ BytesInv'
<1>1. BufferInv'
  <2>1. pc' \in Steps
    BY DEF Steps
  <2> QED BY <2>1 DEF BufferInv, OwnIo
<1>2. BytesInv'
  BY DEF BytesInv, At, Reading, Unsent
<1> QED BY <1>1, <1>2

LEMMA WordTypes ==
  /\ Hello \in Seq(Words) /\ Finished \in Seq(Words) /\ Request \in Seq(Words)
  /\ Hello \o Finished \in Seq(Words)
<1>1. Hello \in Seq(Words) /\ Finished \in Seq(Words) /\ Request \in Seq(Words)
  BY DEF Hello, Finished, Request, Words
<1> QED BY <1>1, ConcatProperties

(* The greeting, and it with what follows, are beginnings of the dialogue. *)
LEMMA InTurn ==
  LET all == Hello \o Finished \o Request
  IN  /\ IsPrefix(Hello, all) /\ IsPrefix(Hello \o Finished, all)
      /\ IsPrefix(all, all)
<1>1. /\ Hello \o Finished \o Request = Hello \o (Finished \o Request)
      /\ Finished \o Request \in Seq(Words)
      /\ Hello \o Finished \o Request \in Seq(Words)
  BY WordTypes, ConcatAssociative, ConcatProperties
<1>2. IsPrefix(Hello, Hello \o (Finished \o Request))
  BY <1>1, WordTypes, PrefixOfConcat
<1>3. IsPrefix(Hello \o Finished, (Hello \o Finished) \o Request)
  BY WordTypes, PrefixOfConcat
<1>4. IsPrefix(Hello \o Finished \o Request, (Hello \o Finished \o Request) \o <<>>)
  <2>1. <<>> \in Seq(Words)
    OBVIOUS
  <2> QED BY <1>1, <2>1, PrefixOfConcat
<1>5. (Hello \o Finished \o Request) \o <<>> = Hello \o Finished \o Request
  BY <1>1, ConcatEmptySeq
<1> QED BY <1>1, <1>2, <1>3, <1>4, <1>5

(* Saying the next part of the dialogue, in whole, when the buffer is empty.*)
LEMMA SpokenNext ==
  ASSUME SpokenInv, UNCHANGED <<backend, short>>,
         \/ pc = "handshake" /\ pc' = "shake" /\ sent' = sent \o Hello
         \/ pc = "finish" /\ pc' \in {"write", "abort"} /\ sent' = sent \o Finished
         \/ pc = "write" /\ pc' = "read" /\ sent' = sent \o Request,
         encode' = <<>>
  PROVE  SpokenInv'
<1> SUFFICES ASSUME ~short PROVE SpokenInv'
  BY DEF SpokenInv, At
<1>1. /\ Hello \in Seq(Words) /\ Hello \o Finished \in Seq(Words)
      /\ (Hello \o Finished) \o Request \in Seq(Words) /\ <<>> \in Seq(Words)
      /\ <<>> \o Hello = Hello /\ Hello \o <<>> = Hello
  BY WordTypes, ConcatProperties, ConcatEmptySeq
<1>2. CASE pc = "handshake"
  <2>1. sent' = Hello /\ pc' = "shake"
    BY <1>1, <1>2 DEF SpokenInv, At, Unsent
  <2> QED BY <1>1, <2>1, InTurn DEF SpokenInv, At, SpeaksInTurn, Unsent
<1>3. CASE pc = "finish"
  <2>1. sent' = Hello \o Finished /\ pc' \in {"write", "abort"}
    BY <1>3 DEF SpokenInv, At
  <2> QED BY <1>1, <2>1, InTurn DEF SpokenInv, At, SpeaksInTurn, Unsent
<1>4. CASE pc = "write"
  <2>1. sent' = (Hello \o Finished) \o Request /\ pc' = "read"
    BY <1>4 DEF SpokenInv, At
  <2> QED BY <1>1, <2>1, InTurn DEF SpokenInv, At, SpeaksInTurn, Unsent
<1> QED BY <1>2, <1>3, <1>4

LEMMA LibraryWriteInv ==
  ASSUME DialogueIInv, NEW data, NEW from, NEW to,
         LibraryWrite(data, from, to),
         \/ data = Hello /\ from = "handshake" /\ to = "shake"
         \/ data = Finished /\ from = "finish" /\ to \in {"write", "abort"}
         \/ data = Request /\ from = "write" /\ to = "read"
  PROVE  BufferInv' /\ BytesInv' /\ SpokenInv'
<1> USE DEF DialogueIInv
<1>1. UNCHANGED <<backend, arrived, got, short, partial, status, recv, encode, clear, out>>
      /\ pc = from /\ OwnIo
  BY DEF LibraryWrite, net
<1>2. CASE ~broken
  <2>1. sent' = sent \o data /\ pc' = to
    BY <1>2 DEF LibraryWrite
  <2>2. BufferInv' /\ BytesInv'
    BY <1>1, <2>1, SayInv
  <2>3. SpokenInv'
    <3>1. CASE short
      BY <1>1, <3>1 DEF SpokenInv, At
    <3>2. CASE ~short
      <4>1. encode' = <<>>
        BY <1>1, <3>2 DEF SpokenInv, At
      <4> QED BY <1>1, <2>1, <4>1, SpokenNext
    <3> QED BY <3>1, <3>2
  <2> QED BY <2>2, <2>3
<1>3. CASE broken
  <2>1. UNCHANGED sent /\ (pc' = pc \/ pc' = "abort")
    BY <1>1, <1>3 DEF LibraryWrite
  <2>2. arrived' \in Nat /\ arrived <= arrived'
        /\ arrived' <= (Records + 1) * RecordSize
    BY <1>1 DEF BufferInv
  <2> QED BY <1>1, <2>1, <2>2, StayInv
<1> QED BY <1>2, <1>3

(* A record and the response are read piece by piece. *)
LEMMA LibraryReadInv ==
  ASSUME DialogueIInv, NEW from, NEW to, LibraryRead(from, to),
         \/ from = "shake" /\ to = "finish"
         \/ from = "read" /\ to = "read" /\ clear = <<>>
  PROVE  BufferInv' /\ BytesInv' /\ SpokenInv'
<1> USE DEF DialogueIInv
<1>1. UNCHANGED <<backend, sent, arrived, short, status, recv, encode, out>>
      /\ pc = from /\ OwnIo /\ recv = <<>>
  BY DEF LibraryRead, BufferInv
<1>a. arrived' \in Nat /\ arrived <= arrived'
      /\ arrived' <= (Records + 1) * RecordSize
  BY <1>1 DEF BufferInv
<1> DEFINE bytes == TransportRead(RecordSize - Len(partial))
           whole == partial \o bytes
<1>2. CASE UNCHANGED <<got, partial, clear>> /\ (pc' = pc \/ pc' = "abort")
  BY <1>1, <1>a, <1>2, StayInv
<1>3. CASE bytes # <<>> /\ got' = got + Len(bytes)
           /\ IF Len(whole) < RecordSize
              THEN partial' = whole /\ UNCHANGED <<pc, clear>>
              ELSE /\ partial' = <<>> /\ pc' = to
                   /\ clear' = IF from = "read" THEN whole ELSE clear
  <2>0. RecordSize - Len(partial) \in Nat /\ Len(partial) \in Nat
        /\ partial \in Seq(Int)
    BY Sizes DEF BufferInv
  <2>1. /\ bytes \in Seq(Int) /\ Len(bytes) <= RecordSize - Len(partial)
        /\ Len(bytes) \in Nat /\ got + Len(bytes) <= arrived
        /\ bytes = Run(got, Len(bytes))
    BY <2>0, ReadMore
  <2> HIDE DEF bytes
  <2>a. got' = got + Len(bytes) /\ partial \o bytes = whole
    BY <1>3
  <2>2. whole \in Seq(Int) /\ Len(whole) = Len(partial) + Len(bytes)
    BY <2>0, <2>1, ConcatProperties
  <2>3. Len(whole) <= RecordSize /\ Len(whole) \in Nat
    BY <2>0, <2>1, <2>2, Sizes
  <2> HIDE DEF whole
  <2>4. /\ out \in Seq(Int) /\ <<>> \in Seq(Int)
        /\ partial \o <<>> = partial /\ <<>> \o partial = partial
        /\ whole \o <<>> = whole /\ <<>> \o whole = whole /\ <<>> \o <<>> = <<>>
        /\ RecordSize \in Nat /\ RecordSize > 0 /\ got \in Nat
    BY <2>0, <2>2, Alone, Sizes DEF BufferInv
  <2>5. CASE from = "shake"
    <3>1. clear = <<>> /\ out = <<>> /\ partial = Run(0, got - 0)
      BY <1>1, <2>4, <2>5 DEF BytesInv, At, Reading
    <3>2. whole = Run(0, got' - 0)
      <4>1. More(0, got, <<>>, partial, bytes, whole, got')
        BY <2>0, <2>1, <2>4, <2>a, <3>1 DEF More
      <4>2. <<>> \o whole = Run(0, got' - 0)
        BY ONLY <4>1, GrowsTo, ZenonT(60)
      <4> QED BY <2>4, <4>2
    <3>3. got' \in Nat /\ Len(whole) = got' /\ got' <= arrived
      BY <1>3, <2>1, <2>4, <3>2, RunType
    <3>4. CASE Len(whole) < RecordSize
      <4>1. partial' = whole /\ UNCHANGED <<pc, clear>>
        BY <1>3, <3>4
      <4>2. BufferInv'
        BY <1>1, <2>2, <3>3, <3>4, <4>1 DEF BufferInv, OwnIo
      <4>3. out' \o (clear' \o (partial' \o recv')) = Run(0, got' - 0)
        BY <1>1, <2>4, <3>1, <3>2, <4>1
      <4>4. BytesInv'
        BY <1>1, <2>5, <3>1, <3>3, <4>1, <4>3 DEF BytesInv, At, Reading, Unsent
      <4>5. SpokenInv'
        BY <1>1, <4>1 DEF SpokenInv, At, SpeaksInTurn, OwnIo, LibraryRead
      <4> QED BY <4>2, <4>4, <4>5
    <3>5. CASE ~(Len(whole) < RecordSize)
      <4>1. partial' = <<>> /\ pc' = "finish" /\ UNCHANGED clear
        BY <1>3, <2>5, <3>5
      <4>2. got' = RecordSize
        BY <2>3, <2>4, <3>3, <3>5
      <4>3. BufferInv'
        BY <1>1, <2>4, <3>3, <4>1 DEF BufferInv, OwnIo, Steps
      <4>4. out' \o (clear' \o (partial' \o recv')) = Run(RecordSize, got' - RecordSize)
        <5>1. Run(RecordSize, 0) = <<>> /\ got' - RecordSize = 0
          BY <2>4, <4>2, NoRun
        <5> QED BY <1>1, <2>4, <3>1, <4>1, <5>1
      <4>5. BytesInv'
        BY <1>1, <2>4, <3>1, <4>1, <4>2, <4>4 DEF BytesInv, At, Reading, Unsent
      <4>6. SpokenInv'
        <5>1. ~short => sent \o encode = Hello /\ encode = <<>> /\ sent \in Seq(Words)
          BY <1>1, <2>5 DEF SpokenInv, At
        <5>2. ~short => sent = Hello
          BY <5>1, ConcatEmptySeq
        <5>3. UNCHANGED encode
          BY DEF LibraryRead
        <5> QED BY <1>1, <4>1, <5>1, <5>2, <5>3
                DEF SpokenInv, At, SpeaksInTurn, OwnIo, Unsent
      <4> QED BY <4>3, <4>5, <4>6
    <3> QED BY <3>4, <3>5
  <2>6. CASE from = "read"
    <3>1. clear = <<>> /\ got >= RecordSize
          /\ out \o partial = Run(RecordSize, got - RecordSize)
      BY <1>1, <2>4, <2>6 DEF BytesInv, At, Reading
    <3>2. out \o whole = Run(RecordSize, got' - RecordSize)
      <4>1. More(RecordSize, got, out, partial, bytes, whole, got')
        BY <2>0, <2>1, <2>4, <2>a, <3>1 DEF More
      <4> QED BY ONLY <4>1, GrowsTo, ZenonT(60)
    <3>3. got' \in Nat /\ got' <= arrived /\ got' >= RecordSize
          /\ got' <= (Records + 1) * RecordSize
      <4>1. arrived \in Nat /\ arrived <= (Records + 1) * RecordSize
            /\ (Records + 1) * RecordSize \in Nat
        BY Sizes DEF BufferInv
      <4> QED BY <1>3, <2>1, <2>4, <3>1, <4>1
    <3>4. /\ pc' = "read" /\ pc = "read"
          /\ \/ partial' = whole /\ clear' = <<>> /\ Len(whole) < RecordSize
             \/ partial' = <<>> /\ clear' = whole
      BY <1>1, <1>3, <2>6, <3>1
    <3>5. out' \o (clear' \o (partial' \o recv')) = Run(RecordSize, got' - RecordSize)
      BY <1>1, <2>4, <3>2, <3>4
    <3>6. partial' \in Seq(Int) /\ clear' \in Seq(Int) /\ Len(partial') < RecordSize
      BY <2>2, <2>4, <3>4
    <3>7. /\ out = Run(RecordSize, Len(out)) /\ Len(out) <= Records * RecordSize
          /\ Len(clear') <= Records * RecordSize
      <4>1. partial' \o recv' \in Seq(Int)
        BY <1>1, <2>4, <3>6, ConcatProperties
      <4>2. /\ out' = out /\ out \in Seq(Int) /\ clear' \in Seq(Int)
            /\ got' \in Nat /\ got' >= RecordSize
            /\ got' <= (Records + 1) * RecordSize
        BY <1>1, <2>4, <3>3, <3>6
      <4>3. out \o (clear' \o (partial' \o recv')) = Run(RecordSize, got' - RecordSize)
        BY ONLY <3>5, <4>2
      <4> QED BY ONLY <4>1, <4>2, <4>3, <2>4, Given, ZenonT(60)
    <3>8. BufferInv'
      BY <1>1, <3>3, <3>4, <3>6, <3>7 DEF BufferInv, OwnIo
    <3>9. BytesInv'
      BY <1>1, <3>3, <3>4, <3>5, <3>7 DEF BytesInv, At, Reading, Unsent
    <3>10. SpokenInv'
      BY <1>1, <3>4 DEF SpokenInv, At, SpeaksInTurn, OwnIo, LibraryRead, Unsent
    <3> QED BY <3>8, <3>9, <3>10
  <2> QED BY <2>5, <2>6
<1> QED BY <1>1, <1>2, <1>3 DEF LibraryRead

(* Giving out decoded bytes. *)
LEMMA LibraryDeliverInv ==
  ASSUME DialogueIInv, LibraryDeliver
  PROVE  BufferInv' /\ BytesInv' /\ SpokenInv'
<1> USE DEF DialogueIInv
<1> DEFINE n == Least(BufferSize, Len(clear))
           rest == partial \o recv
<1>1. /\ UNCHANGED <<backend, pc, sent, arrived, got, short, partial, status, recv, encode>>
      /\ pc = "read"
      /\ out' = out \o SubSeq(clear, 1, n)
      /\ clear' = SubSeq(clear, n + 1, Len(clear))
  BY DEF LibraryDeliver, net
<1>2. /\ out \in Seq(Int) /\ clear \in Seq(Int) /\ rest \in Seq(Int)
      /\ partial \in Seq(Int) /\ recv \in Seq(Int) /\ n \in 0..Len(clear)
  BY Sizes, ConcatProperties DEF BufferInv, Least
<1>3. got \in Nat /\ got >= RecordSize /\ got <= (Records + 1) * RecordSize
      /\ out \o (clear \o rest) = Run(RecordSize, got - RecordSize)
  <2>1. arrived \in Nat /\ got \in Nat /\ got <= arrived
        /\ arrived <= (Records + 1) * RecordSize
    BY DEF BufferInv
  <2>2. got >= RecordSize /\ out \o (clear \o rest) = Run(RecordSize, got - RecordSize)
    BY <1>1 DEF BytesInv, At, Reading
  <2> HIDE DEF rest
  <2> QED BY ONLY <2>1, <2>2, Sizes
<1>a. Gives(out, clear, rest, n, out', clear')
  BY <1>1, <1>2 DEF Gives
<1> HIDE DEF n, rest
<1>4. /\ out' \in Seq(Int) /\ clear' \in Seq(Int)
      /\ out' \o (clear' \o rest) = out \o (clear \o rest)
  BY ONLY <1>a, GiveOut, SMTT(60)
<1>5. /\ out' \in Seq(Int) /\ clear' \in Seq(Int)
      /\ out' \o (clear' \o rest) = Run(RecordSize, got - RecordSize)
  BY ONLY <1>3, <1>4
<1>6. /\ out' = Run(RecordSize, Len(out')) /\ Len(out') <= Records * RecordSize
      /\ Len(clear') <= Records * RecordSize
  BY ONLY <1>2, <1>3, <1>5, Given
<1>7. BufferInv'
  BY <1>1, <1>5, <1>6 DEF BufferInv, OwnIo
<1>8. BytesInv'
  BY <1>1, <1>3, <1>5, <1>6 DEF BytesInv, At, Reading, Unsent, rest
<1>9. SpokenInv'
  BY <1>1 DEF SpokenInv, At, SpeaksInTurn, OwnIo
<1> QED BY <1>7, <1>8, <1>9

-----------------------------------------------------------------------------
(* The steps of picotls. *)

LEMMA PicotlsPrepareInv ==
  ASSUME DialogueIInv, PicotlsPrepare
  PROVE  BufferInv' /\ BytesInv' /\ SpokenInv'
<1> USE DEF DialogueIInv
<1>1. /\ UNCHANGED <<backend, sent, arrived, got, short, partial, status, clear, out>>
      /\ pc = "handshake" /\ pc' = "shake" /\ backend = "picotls"
      /\ encode' = encode \o Hello /\ recv' = <<>> /\ recv = <<>>
  BY DEF PicotlsPrepare, net, BytesInv, At, Unsent
<1>2. BufferInv' /\ BytesInv'
  BY <1>1, SayInv
<1>3. SpokenInv'
  <2>1. <<>> \o Hello = Hello /\ Hello \in Seq(Words) /\ <<>> \in Seq(Words)
    BY WordTypes, ConcatEmptySeq
  <2>2. ~short => encode' = Hello /\ sent' = <<>>
    BY <1>1, <2>1 DEF SpokenInv, At, Unsent
  <2>3. ~short => IsPrefix(sent, (Hello \o Finished) \o Request)
    BY DEF SpokenInv, At, SpeaksInTurn
  <2> QED BY <1>1, <2>1, <2>2, <2>3 DEF SpokenInv, At, SpeaksInTurn, OwnIo, Unsent
<1> QED BY <1>2, <1>3

LEMMA PicotlsWriteInv ==
  ASSUME DialogueIInv, PicotlsWrite
  PROVE  BufferInv' /\ BytesInv' /\ SpokenInv'
<1> USE DEF DialogueIInv
<1>1. /\ UNCHANGED <<backend, arrived, got, status, partial, recv, clear, out>>
      /\ pc = "write" /\ backend = "picotls" /\ pc' \in {"read", "abort"}
      /\ encode' = encode \o Request
  BY DEF PicotlsWrite, net
<1>2. BufferInv' /\ BytesInv'
  BY <1>1, SayInv
<1>3. SpokenInv'
  <2>0. SUFFICES ASSUME ~short' PROVE SpokenInv'
    BY DEF SpokenInv, At
  <2>1. ~short /\ \/ pc' = "abort" /\ sent' = sent
                  \/ pc' = "read" /\ sent' = sent \o encode'
    BY <2>0 DEF PicotlsWrite
  <2>2. <<>> \o Request = Request /\ Request \in Seq(Words) /\ <<>> \in Seq(Words)
        /\ (Hello \o Finished) \o Request \in Seq(Words)
    BY WordTypes, ConcatEmptySeq, ConcatProperties
  <2>3. encode' = Request /\ sent = Hello \o Finished /\ sent \in Seq(Words)
        /\ IsPrefix(sent, (Hello \o Finished) \o Request)
    BY <1>1, <2>1, <2>2 DEF SpokenInv, At, SpeaksInTurn
  <2>4. CASE pc' = "abort" /\ sent' = sent
    BY <1>1, <2>2, <2>3, <2>4 DEF SpokenInv, At, SpeaksInTurn, OwnIo, Unsent
  <2>5. CASE pc' = "read" /\ sent' = sent \o encode'
    <3>1. sent' = (Hello \o Finished) \o Request
      BY <2>3, <2>5
    <3> QED BY <1>1, <2>2, <2>3, <2>5, <3>1, InTurn
            DEF SpokenInv, At, SpeaksInTurn, OwnIo, Unsent
  <2> QED BY <2>1, <2>4, <2>5
<1> QED BY <1>2, <1>3

(* What picotls has to work on after polling the transport. *)
LEMMA PicotlsPolls ==
  ASSUME BufferInv
  PROVE  LET bytes == TransportRead(RecvSize - Len(recv))
         IN  /\ bytes \in Seq(Int) /\ Len(bytes) \in Nat
             /\ Len(recv) + Len(bytes) <= RecvSize
             /\ got + Len(bytes) <= arrived
             /\ bytes = Run(got, Len(bytes))
             /\ got + Len(bytes) \in Nat
             /\ partial \o recv \in Seq(Int)
<1>1. RecvSize - Len(recv) \in Nat /\ Len(recv) \in Nat /\ got \in Nat
  BY Sizes DEF BufferInv
<1>2. partial \o recv \in Seq(Int)
  BY ConcatProperties DEF BufferInv
<1> DEFINE n == RecvSize - Len(recv)
<1> HIDE DEF n
<1>3. /\ TransportRead(n) \in Seq(Int) /\ Len(TransportRead(n)) \in 0..n
      /\ got + Len(TransportRead(n)) <= arrived
      /\ TransportRead(n) = Run(got, Len(TransportRead(n)))
  BY <1>1, ReadMore DEF n
<1>4. Len(TransportRead(n)) \in Nat /\ Len(recv) + Len(TransportRead(n)) <= RecvSize
      /\ got + Len(TransportRead(n)) \in Nat
  BY ONLY <1>1, <1>3, Sizes DEF n
<1> QED BY ONLY <1>2, <1>3, <1>4 DEF n

LEMMA PicotlsReadInv ==
  ASSUME DialogueIInv, PicotlsRead
  PROVE  BufferInv' /\ BytesInv' /\ SpokenInv'
<1> USE DEF DialogueIInv
<1> DEFINE bytes == TransportRead(RecvSize - Len(recv))
           p == Process(bytes)
           all == (partial \o recv) \o bytes
           rest == p.partial \o p.left
           read_buffer == clear \o p.record
           to_copy == Least(BufferSize, Len(read_buffer))
<1>1. /\ UNCHANGED <<backend, sent, arrived, short, status, encode>>
      /\ pc = "read" /\ backend = "picotls"
  BY DEF PicotlsRead, PicotlsReadWith
<1>3. BufferInv' /\ BytesInv' /\ SpokenInv'
  <2>1. /\ got' = got + Len(bytes)
        /\ \/ pc' = "abort" /\ UNCHANGED <<partial, recv, clear, out>>
           \/ /\ partial' = p.partial /\ recv' = p.left
              /\ out' = out \o SubSeq(read_buffer, 1, to_copy)
              /\ clear' = SubSeq(read_buffer, to_copy + 1, Len(read_buffer))
              /\ UNCHANGED pc
    BY DEF PicotlsRead, PicotlsReadWith
  <2>2. /\ bytes \in Seq(Int) /\ Len(bytes) \in Nat
        /\ Len(recv) + Len(bytes) <= RecvSize
        /\ got + Len(bytes) <= arrived /\ bytes = Run(got, Len(bytes))
        /\ got + Len(bytes) \in Nat /\ partial \o recv \in Seq(Int)
    BY PicotlsPolls
  <2> HIDE DEF bytes
  <2>3. got' \in Nat /\ got' <= arrived'
    BY <1>1, <2>1, <2>2
  <2>4. SpokenInv'
    BY <1>1, <2>1 DEF SpokenInv, At, SpeaksInTurn, OwnIo, Unsent
  <2>5. CASE pc' = "abort" /\ UNCHANGED <<partial, recv, clear, out>>
    <3>1. BufferInv'
      BY <1>1, <2>3, <2>5 DEF BufferInv, OwnIo, Steps
    <3>2. BytesInv'
      BY <2>5 DEF BytesInv, At, Unsent
    <3> QED BY <2>4, <3>1, <3>2
  <2>6. CASE /\ partial' = p.partial /\ recv' = p.left
             /\ out' = out \o SubSeq(read_buffer, 1, to_copy)
             /\ clear' = SubSeq(read_buffer, to_copy + 1, Len(read_buffer))
             /\ UNCHANGED pc
    <3>1. /\ all \in Seq(Int)
          /\ p.record \in Seq(Int) /\ p.partial \in Seq(Int) /\ p.left \in Seq(Int)
          /\ p.record \o rest = all
          /\ Len(p.partial) < RecordSize /\ Len(p.left) <= RecvSize
      BY <2>2, ProcessSplits
    <3>2. /\ got \in Nat /\ got >= RecordSize /\ RecordSize \in Nat
          /\ out \in Seq(Int) /\ clear \in Seq(Int)
          /\ out \o (clear \o (partial \o recv)) = Run(RecordSize, got - RecordSize)
      BY <1>1, Sizes DEF BufferInv, BytesInv, At, Reading
    <3> HIDE DEF p
    <3> DEFINE start == out \o clear   buffered == partial \o recv
    <3>3. start \o all = Run(RecordSize, got' - RecordSize)
      <4>1. start \in Seq(Int) /\ start \o buffered = out \o (clear \o buffered)
        BY <2>2, <3>2, ConcatProperties, Associative
      <4>2. More(RecordSize, got, start, buffered, bytes, all, got')
        BY <2>1, <2>2, <3>2, <4>1 DEF More
      <4> HIDE DEF all, start, buffered
      <4> QED BY ONLY <4>2, GrowsTo, ZenonT(60)
    <3> HIDE DEF all
    <3>4. rest \in Seq(Int) /\ read_buffer \in Seq(Int)
      BY <3>1, <3>2, ConcatProperties
    <3> HIDE DEF rest
    <3>a. clear \in Seq(Int) /\ p.record \in Seq(Int) /\ rest \in Seq(Int)
      BY <3>1, <3>2, <3>4
    <3>5. out \o (read_buffer \o rest) = Run(RecordSize, got' - RecordSize)
      <4>1. read_buffer \o rest = clear \o (p.record \o rest)
        BY ONLY <3>a, Associative
      <4>2. start \o all = out \o (clear \o all)
        <5>1. out \in Seq(Int) /\ clear \in Seq(Int) /\ all \in Seq(Int)
          BY <3>1, <3>2
        <5> QED BY ONLY <5>1, Associative
      <4> HIDE DEF read_buffer, start
      <4> QED BY ONLY <3>1, <3>3, <4>1, <4>2
    <3>6. to_copy \in 0..Len(read_buffer)
      BY <3>4, Sizes DEF Least
    <3> HIDE DEF read_buffer, to_copy
    <3>7. Gives(out, read_buffer, rest, to_copy, out', clear')
      BY <2>6, <3>2, <3>4, <3>6 DEF Gives
    <3>8. /\ out' \in Seq(Int) /\ clear' \in Seq(Int)
          /\ out' \o (clear' \o rest) = out \o (read_buffer \o rest)
      BY ONLY <3>7, GiveOut, SMTT(60)
    <3>9. out' \o (clear' \o rest) = Run(RecordSize, got' - RecordSize)
      BY ONLY <3>5, <3>8
    <3>10. got' >= RecordSize /\ got' <= (Records + 1) * RecordSize
      <4>1. arrived \in Nat /\ arrived <= (Records + 1) * RecordSize
        BY DEF BufferInv
      <4> QED BY ONLY <1>1, <2>1, <2>2, <2>3, <3>2, <4>1, Sizes
    <3>11. /\ out' = Run(RecordSize, Len(out')) /\ Len(out') <= Records * RecordSize
           /\ Len(clear') <= Records * RecordSize
      BY ONLY <2>3, <3>4, <3>8, <3>9, <3>10, Given
    <3>12. BufferInv'
      BY <1>1, <2>3, <2>6, <3>1, <3>8, <3>11 DEF BufferInv, OwnIo
    <3>13. BytesInv'
      <4>1. partial' \o recv' = rest
        BY <2>6 DEF rest
      <4>2. out' \o (clear' \o (partial' \o recv')) = Run(RecordSize, got' - RecordSize)
        BY ONLY <3>9, <4>1
      <4> QED BY <1>1, <2>6, <3>10, <3>11, <4>2 DEF BytesInv, At, Reading, Unsent
    <3> QED BY <2>4, <3>12, <3>13
  <2> QED BY <2>1, <2>5, <2>6
<1> QED BY <1>3

LEMMA PicotlsHandshakeInv ==
  ASSUME DialogueIInv, PicotlsHandshake
  PROVE  BufferInv' /\ BytesInv' /\ SpokenInv'
<1> USE DEF DialogueIInv
<1> DEFINE bytes == TransportRead(RecvSize - Len(recv))
           p == Process(bytes)
           all == (partial \o recv) \o bytes
           rest == p.partial \o p.left
<1>1. /\ UNCHANGED <<backend, sent, arrived, short, clear, out>>
      /\ pc = "shake" /\ backend = "picotls"
      /\ clear = <<>> /\ out = <<>> /\ Reading(0)
  BY DEF PicotlsHandshake, BytesInv, At
<1>2. PICK accepted \in Accepted :
        LET done == p.record # <<>> /\ Decodes(p.record) /\ accepted
        IN  /\ got' = got + Len(bytes)
            /\ partial' = p.partial /\ recv' = p.left
            /\ status' = IF p.record = <<>> THEN "shake"
                         ELSE IF done THEN "write" ELSE "abort"
            /\ encode' = IF done THEN encode \o Finished ELSE encode
  BY DEF PicotlsHandshake
<1> DEFINE goesOn == p.record # <<>> /\ Decodes(p.record) /\ accepted
<1>a. /\ pc' = IF encode' # <<>> THEN "flush" ELSE status'
      /\ status' \in {"shake", "write", "abort"} /\ At' = status'
  BY <1>2 DEF PicotlsHandshake, At
<1>3. BufferInv' /\ BytesInv' /\ SpokenInv'
  <2>1. /\ got' = got + Len(bytes)
        /\ partial' = p.partial /\ recv' = p.left
        /\ status' = IF p.record = <<>> THEN "shake"
                     ELSE IF goesOn THEN "write" ELSE "abort"
        /\ encode' = IF goesOn THEN encode \o Finished ELSE encode
    BY <1>2
  <2>2. /\ bytes \in Seq(Int) /\ Len(bytes) \in Nat
        /\ Len(recv) + Len(bytes) <= RecvSize
        /\ got + Len(bytes) <= arrived /\ bytes = Run(got, Len(bytes))
        /\ got + Len(bytes) \in Nat /\ partial \o recv \in Seq(Int)
    BY PicotlsPolls
  <2> HIDE DEF bytes
  <2>3. got' \in Nat /\ got' <= arrived'
    BY <1>1, <2>1, <2>2
  <2>4. SpokenInv'
    <3>0. SUFFICES ASSUME ~short PROVE SpokenInv'
      BY <1>1 DEF SpokenInv
    <3>2. /\ sent \in Seq(Words) /\ encode \in Seq(Words) /\ Finished \in Seq(Words)
          /\ sent \o encode = Hello /\ SpeaksInTurn
      BY <1>1, <3>0, WordTypes DEF SpokenInv, At
    <3>3. CASE goesOn
      <4>1. encode' = encode \o Finished /\ status' = "write"
        BY <2>1, <3>3
      <4>2. sent \o (encode \o Finished) = (sent \o encode) \o Finished
        <5>1. sent \in Seq(Words) /\ encode \in Seq(Words) /\ Finished \in Seq(Words)
          BY ONLY <3>2
        <5> QED BY ONLY <5>1, ConcatAssociative
      <4>3. encode' \in Seq(Words) /\ encode' # <<>>
        <5>1. Len(encode \o Finished) = Len(encode) + Len(Finished)
              /\ encode \o Finished \in Seq(Words) /\ Len(encode) \in Nat
          BY ONLY <3>2, ConcatProperties
        <5>2. Len(Finished) = 2 /\ Len(<<>>) = 0
          BY DEF Finished
        <5> QED BY ONLY <4>1, <5>1, <5>2
      <4>4. sent' \o encode' = Hello \o Finished /\ pc' = "flush"
        BY <1>1, <1>a, <3>2, <4>1, <4>2, <4>3
      <4> QED BY <1>1, <1>a, <3>2, <4>1, <4>3, <4>4
              DEF SpokenInv, SpeaksInTurn, OwnIo, Unsent
    <3>4. CASE ~goesOn
      <4>1. encode' = encode /\ status' \in {"shake", "abort"}
        BY <2>1, <3>4
      <4> QED BY <1>1, <1>a, <3>2, <4>1 DEF SpokenInv, SpeaksInTurn, OwnIo, Unsent
    <3> QED BY <3>3, <3>4
  <2>5. /\ all \in Seq(Int)
        /\ p.record \in Seq(Int) /\ p.partial \in Seq(Int) /\ p.left \in Seq(Int)
        /\ p.record \o rest = all
        /\ Len(p.partial) < RecordSize /\ Len(p.left) <= RecvSize
        /\ IF p.record = <<>> THEN p.left = <<>> ELSE Len(p.record) = RecordSize
        /\ p.record # <<>> => p.partial = <<>>
    BY <2>2, ProcessSplits
  <2> HIDE DEF p, goesOn
  <2>6. BufferInv'
    BY <1>1, <1>a, <2>1, <2>3, <2>5 DEF BufferInv, OwnIo, Steps
  <2>7. rest \in Seq(Int) /\ <<>> \o rest = rest /\ RecordSize \in Nat
        /\ <<>> \o (<<>> \o rest) = rest
    BY <2>5, ConcatProperties, Alone, Sizes
  <2>8. p.record \o rest = Run(0, got' - 0)
    <3> DEFINE buffered == partial \o recv
    <3>1. /\ got \in Nat /\ 0 <= got /\ <<>> \in Seq(Int) /\ 0 \in Nat
          /\ <<>> \o (<<>> \o buffered) = Run(0, got - 0)
      BY <1>1 DEF BufferInv, Reading
    <3>2. <<>> \o buffered = Run(0, got - 0) /\ <<>> \o all = all
      BY <2>2, <2>5, <3>1, Alone
    <3>3. More(0, got, <<>>, buffered, bytes, all, got')
      BY <2>1, <2>2, <3>1, <3>2 DEF More
    <3> HIDE DEF all, buffered
    <3>4. <<>> \o all = Run(0, got' - 0)
      BY ONLY <3>3, GrowsTo, ZenonT(60)
    <3> QED BY ONLY <2>5, <3>2, <3>4
  <2>9. partial' \o recv' = rest
    BY <2>1
  <2> HIDE DEF rest
  <2>10. CASE p.record = <<>>
    <3>1. rest = Run(0, got' - 0)
      BY ONLY <2>7, <2>8, <2>10
    <3>2. out' \o (clear' \o (partial' \o recv')) = Run(0, got' - 0)
      BY ONLY <1>1, <2>7, <2>9, <3>1
    <3>3. At' = "shake" /\ recv' = <<>>
      BY <1>a, <2>1, <2>5, <2>10
    <3>4. BytesInv'
      BY <1>1, <2>3, <3>2, <3>3 DEF BytesInv, Reading, Unsent
    <3> QED BY <2>4, <2>6, <3>4
  <2>11. CASE p.record # <<>>
    <3>1. Len(p.record) = RecordSize /\ partial' = <<>> /\ At' \in {"write", "abort"}
      BY <1>a, <2>1, <2>5, <2>11
    <3>4. rest = Run(RecordSize, got' - RecordSize) /\ got' >= RecordSize
      BY ONLY <2>3, <2>5, <2>7, <2>8, <3>1, RecordTaken, Zenon
    <3>5. out' \o (clear' \o (partial' \o recv')) = Run(RecordSize, got' - RecordSize)
      BY ONLY <1>1, <2>7, <2>9, <3>4
    <3>6. BytesInv'
      BY <1>1, <3>1, <3>4, <3>5 DEF BytesInv, Reading, Unsent
    <3> QED BY <2>4, <2>6, <3>6
  <2> QED BY <2>10, <2>11
<1> QED BY <1>3

(* Sending what was prepared. *)
LEMMA PicotlsFlushInv ==
  ASSUME DialogueIInv, PicotlsFlush
  PROVE  BufferInv' /\ BytesInv' /\ SpokenInv'
<1> USE DEF DialogueIInv
<1>1. /\ UNCHANGED <<backend, arrived, got, status, partial, recv, clear, out>>
      /\ pc = "flush" /\ backend = "picotls" /\ pc' \in {status, "abort"}
      /\ status \in {"shake", "write", "abort"}
  BY DEF PicotlsFlush, net, BufferInv
<1>2. BufferInv'
  BY <1>1 DEF BufferInv, OwnIo, Steps
<1>3. BytesInv'
  <2>1. At' = At \/ At' = "abort"
    BY <1>1 DEF At
  <2> QED BY <1>1, <2>1 DEF BytesInv, Reading, Unsent
<1>4. SpokenInv'
  <2>0. SUFFICES ASSUME ~short' PROVE SpokenInv'
    BY DEF SpokenInv
  <2>1. ~short /\ \/ pc' = "abort" /\ sent' = sent /\ encode' = encode
                  \/ pc' = status /\ sent' = sent \o encode /\ encode' = <<>>
    <3>1. CASE broken
      BY <2>0, <3>1 DEF PicotlsFlush
    <3>2. CASE ~broken
      <4>1. PICK taken : sent' = sent \o taken /\ short' = (short \/ taken # encode)
        BY <3>2 DEF PicotlsFlush
      <4>2. pc' = status /\ encode' = <<>>
        BY <3>2 DEF PicotlsFlush
      <4>3. ~short /\ taken = encode
        BY <2>0, <4>1, Zenon
      <4> QED BY <4>1, <4>2, <4>3
    <3> QED BY <3>1, <3>2
  <2>2. /\ sent \in Seq(Words) /\ encode \in Seq(Words)
        /\ sent \o encode \in {Hello, Hello \o Finished}
        /\ status = "shake" => sent \o encode = Hello
        /\ status = "write" => sent \o encode = Hello \o Finished
        /\ IsPrefix(sent, (Hello \o Finished) \o Request)
    BY <1>1, <2>1 DEF SpokenInv, SpeaksInTurn, At
  <2>3. /\ <<>> \in Seq(Words) /\ Hello \o <<>> = Hello
        /\ Hello \in Seq(Words) /\ Hello \o Finished \in Seq(Words)
    BY WordTypes, ConcatEmptySeq
  <2>4. CASE pc' = "abort" /\ sent' = sent /\ encode' = encode
    BY <1>1, <2>2, <2>4 DEF SpokenInv, SpeaksInTurn, OwnIo, Unsent, At
  <2>5. CASE pc' = status /\ sent' = sent \o encode /\ encode' = <<>>
    <3>1. /\ sent' \in {Hello, Hello \o Finished}
          /\ status = "shake" => sent' = Hello
          /\ status = "write" => sent' = Hello \o Finished
      BY <2>2, <2>5
    <3> HIDE DEF DialogueIInv
    <3> QED BY <1>1, <2>3, <2>5, <3>1, InTurn
            DEF SpokenInv, SpeaksInTurn, OwnIo, Unsent, At
  <2> QED BY <2>1, <2>4, <2>5
<1> QED BY <1>2, <1>3, <1>4

-----------------------------------------------------------------------------
(* The other steps, and all of them. *)

(* BoringSSL and mbedTLS store the certificate they took; picotls took one, *)
(* and stored none.                                                         *)
LEMMA LoadsCertificate ==
  ASSUME backend \in Backends
  PROVE  /\ LoadCACert("DER").stored \in BOOLEAN
         /\ backend # "picotls" => LoadCACert("DER").stored
<1>1. /\ DerAttempt("DER") = Attempt(TRUE, 0, TRUE)
      /\ LoadCACertCrlsPEMFormat("DER") = 0
  BY DEF DerAttempt, Attempt, LoadCACertCrlDERFormat, LoadCACertCrlsPEMFormat
<1>2. ASSUME NEW ok, NEW ret, NEW stores
      PROVE  TryFormats("kTryAll", Attempt(ok, ret, stores), Attempt(TRUE, 0, TRUE)).stored
               = (stores \/ ~ok)
  BY DEF TryFormats, Attempt
<1>3. CASE backend = "boringssl"
  <2>1. LoadCACert("DER") =
          TryFormats("kTryAll", Attempt(0 > 0, 0, 0 > 0), Attempt(TRUE, 0, TRUE))
    BY <1>1, <1>3 DEF LoadCACert, BoringsslLoadCACert
  <2>2. LoadCACert("DER").stored = (0 > 0 \/ ~(0 > 0))
    BY ONLY <1>2, <2>1
  <2> QED BY <2>2
<1>4. CASE backend = "mbedtls"
  <2>1. LoadCACert("DER") =
          TryFormats("kTryAll", Attempt(0 = 0, 0, 0 = 0), Attempt(TRUE, 0, TRUE))
    BY <1>1, <1>4 DEF LoadCACert, MbedtlsLoadCACert
  <2>2. LoadCACert("DER").stored = (0 = 0 \/ ~(0 = 0))
    BY ONLY <1>2, <2>1
  <2> QED BY <2>2
<1>5. CASE backend = "picotls"
  <2>1. LoadCACert("DER") =
          TryFormats("kTryAll", Attempt(0 = 0, 0, 0 > 0), Attempt(TRUE, 0, TRUE))
    BY <1>1, <1>5 DEF LoadCACert, PicotlsLoadCACert
  <2>2. \A ok, stores :
          TryFormats("kTryAll", Attempt(ok, 0, stores), Attempt(TRUE, 0, TRUE)).stored
            \in BOOLEAN
    BY ONLY <1>2
  <2> QED BY <1>5, <2>1, <2>2
<1> QED BY <1>3, <1>4, <1>5 DEF Backends

LEMMA LoadNextCertInv ==
  ASSUME DialogueIInv, LoadNextCert
  PROVE  DialogueIInv'
<1> USE DEF DialogueIInv
<1>1. /\ UNCHANGED <<backend, certs, sent, arrived, got, short, partial, status, recv,
                     encode, clear, out>>
      /\ pc = "cert" /\ pc' \in {"abort", "cert"}
      /\ tried' = tried + 1 /\ tried < certs
      /\ stored' = IF LoadCACert("DER").stored THEN stored + 1 ELSE stored
  BY DEF LoadNextCert, io, net
<1>2. arrived' \in Nat /\ arrived <= arrived' /\ arrived' <= (Records + 1) * RecordSize
  BY <1>1 DEF BufferInv
<1>3. BufferInv' /\ BytesInv' /\ SpokenInv'
  BY <1>1, <1>2, StayInv DEF Unsent
<1>4. /\ LoadCACert("DER").stored \in BOOLEAN
      /\ backend # "picotls" => LoadCACert("DER").stored
  BY LoadsCertificate DEF CertInv
<1>5. CertInv'
  <2>1. /\ certs \in Nat /\ tried \in Nat /\ stored \in Nat
        /\ stored <= tried
        /\ backend # "picotls" => stored = tried
    BY <1>1 DEF CertInv, CertificatesStored
  <2>2. stored' \in Nat /\ tried' \in Nat /\ stored' <= tried' /\ tried' <= certs'
    BY <1>1, <2>1
  <2>3. backend # "picotls" => stored' = tried'
    BY <1>1, <1>4, <2>1
  <2> QED BY <1>1, <2>2, <2>3 DEF CertInv, CertificatesStored
<1> QED BY <1>3, <1>5

LEMMA ServerBounded ==
  ServerSends \in Nat /\ ServerSends <= (Records + 1) * RecordSize
<1>1. (Records + 1) * RecordSize \in Nat /\ RecordSize \in Nat
      /\ RecordSize <= (Records + 1) * RecordSize
  BY Sizes
<1> DEFINE heard == IsPrefix(Hello, sent)
           whole == IsPrefix(Hello \o Finished \o Request, sent)
<1>2. ServerSends = CASE whole -> (Records + 1) * RecordSize
                      [] heard /\ ~whole -> RecordSize
                      [] OTHER -> 0
  BY DEF ServerSends
<1> HIDE DEF heard, whole
<1>3. ServerSends \in {(Records + 1) * RecordSize, RecordSize, 0}
  BY <1>2
<1> QED BY <1>1, <1>3

(* The steps that move no byte of either side. *)
LEMMA QuietInv ==
  ASSUME DialogueIInv,
         \/ Connect \/ LoadCrl \/ MbedtlsSetupFails \/ Arrive \/ Break
         \/ UNCHANGED vars
  PROVE  BufferInv' /\ BytesInv' /\ SpokenInv'
<1> USE DEF DialogueIInv
<1>1. arrived \in Nat /\ arrived <= (Records + 1) * RecordSize
  BY DEF BufferInv
<1>2. CASE Arrive
  <2>1. /\ UNCHANGED <<backend, sent, got, short, partial, status, recv, encode, clear, out, pc>>
        /\ arrived' = arrived + 1 /\ arrived < ServerSends
    BY <1>2 DEF Arrive
  <2>2. arrived' \in Nat /\ arrived <= arrived' /\ arrived' <= (Records + 1) * RecordSize
    BY <1>1, <2>1, ServerBounded, Sizes
  <2> QED BY <2>1, <2>2, StayInv
<1>3. CASE Connect \/ LoadCrl \/ MbedtlsSetupFails \/ Break \/ UNCHANGED vars
  <2>1. /\ UNCHANGED <<backend, sent, got, short, partial, status, recv, encode, clear, out,
                     arrived>>
        /\ \/ pc' = pc \/ pc' = "abort"
           \/ pc \in Unsent /\ pc' \in Unsent
    BY <1>3 DEF Connect, LoadCrl, MbedtlsSetupFails, Break, vars, io, net, Unsent
  <2> QED BY <1>1, <2>1, StayInv
<1> QED BY <1>2, <1>3

(* No step but LoadNextCert touches the trust store, and none leaves abort. *)
LEMMA CertsKept ==
  ASSUME CertInv, UNCHANGED <<backend, cert>>, pc = "abort" => pc' = "abort"
  PROVE  CertInv'
BY DEF CertInv, CertificatesStored, cert

LEMMA DialogueStep ==
  ASSUME DialogueIInv, [Next]_vars
  PROVE  DialogueIInv'
<1> DEFINE Kept == CertInv' 
           Io == BufferInv' /\ BytesInv' /\ SpokenInv'
<1>1. CASE LoadNextCert
  BY <1>1, LoadNextCertInv
<1>2. ASSUME ~LoadNextCert PROVE Io
  <2>1. CASE Connect \/ LoadCrl \/ MbedtlsSetupFails \/ Arrive \/ Break \/ UNCHANGED vars
    BY <2>1, QuietInv
  <2>2. CASE LibraryWrite(Hello, "handshake", "shake")
    BY <2>2, LibraryWriteInv
  <2>3. CASE LibraryRead("shake", "finish")
    BY <2>3, LibraryReadInv
  <2>4. CASE \E verified \in Verdicts :
               LibraryWrite(Finished, "finish", IF verified THEN "write" ELSE "abort")
    <3>1. PICK to \in {"write", "abort"} : LibraryWrite(Finished, "finish", to)
      BY <2>4
    <3> QED BY <3>1, LibraryWriteInv
  <2>5. CASE LibraryWrite(Request, "write", "read")
    BY <2>5, LibraryWriteInv
  <2>6. CASE LibraryDeliver
    BY <2>6, LibraryDeliverInv
  <2>7. CASE LibraryReadApp
    BY <2>7, LibraryReadInv DEF LibraryReadApp
  <2>8. CASE PicotlsPrepare
    BY <2>8, PicotlsPrepareInv
  <2>9. CASE PicotlsHandshake
    BY <2>9, PicotlsHandshakeInv
  <2>a. CASE PicotlsFlush
    BY <2>a, PicotlsFlushInv
  <2>10. CASE PicotlsWrite
    BY <2>10, PicotlsWriteInv
  <2>11. CASE PicotlsRead
    BY <2>11, PicotlsReadInv
  <2> QED BY <1>2, <2>1, <2>2, <2>3, <2>4, <2>5, <2>6, <2>7, <2>8, <2>9, <2>a, <2>10,
             <2>11
          DEF Next, Client, LibraryHandshake
<1>3. ASSUME ~LoadNextCert PROVE Kept
  <2>1. UNCHANGED <<backend, cert>> /\ (pc = "abort" => pc' = "abort")
    <3>1. CASE Connect \/ LoadCrl \/ Arrive \/ Break \/ UNCHANGED vars
      BY <3>1 DEF Connect, LoadCrl, Arrive, Break, vars
    <3>2. CASE LibraryHandshake \/ LibraryWrite(Request, "write", "read")
      BY <3>2 DEF LibraryHandshake, MbedtlsSetupFails, LibraryWrite, LibraryRead
    <3>3. CASE LibraryDeliver \/ LibraryReadApp
      BY <3>3 DEF LibraryDeliver, LibraryReadApp, LibraryRead
    <3>4. CASE PicotlsPrepare \/ PicotlsHandshake \/ PicotlsFlush \/ PicotlsWrite
               \/ PicotlsRead
      BY <3>4 DEF PicotlsPrepare, PicotlsHandshake, PicotlsFlush, PicotlsWrite,
                  PicotlsRead, PicotlsReadWith
    <3> QED BY <1>3, <3>1, <3>2, <3>3, <3>4 DEF Next, Client
  <2> QED BY <2>1, CertsKept DEF DialogueIInv
<1> QED BY <1>1, <1>2, <1>3 DEF DialogueIInv

LEMMA DialogueInit == Init => DialogueIInv
<1> SUFFICES ASSUME Init PROVE DialogueIInv
  OBVIOUS
<1>1. CertInv
  BY TlsAssumption DEF Init, CertInv, CertificatesStored
<1>2. BufferInv
  BY Sizes DEF Init, BufferInv, Steps, Unsent
<1>3. BytesInv
  <2>1. Run(0, 0) = <<>> /\ Run(RecordSize, 0) = <<>>
    BY NoRun, Sizes
  <2>2. <<>> \o <<>> = <<>> /\ Len(<<>>) = 0
    OBVIOUS
  <2> QED BY <2>1, <2>2, Sizes DEF Init, BytesInv, At, Reading, Unsent
<1>4. SpokenInv
  <2>1. <<>> \in Seq(Words) /\ (Hello \o Finished) \o Request \in Seq(Words)
    BY WordTypes, ConcatProperties
  <2>2. <<>> \o (Hello \o Finished \o Request) = Hello \o Finished \o Request
    BY <2>1, ConcatEmptySeq
  <2>3. IsPrefix(<<>>, Hello \o Finished \o Request)
    BY <2>1, <2>2, PrefixOfConcat
  <2> QED BY <2>1, <2>3 DEF Init, SpokenInv, At, SpeaksInTurn, Unsent
<1> QED BY <1>1, <1>2, <1>3, <1>4 DEF DialogueIInv

(* What the client was given is a stretch of the response, from its start.  *)
LEMMA DialogueImplied == DialogueIInv => DialogueInv
<1> SUFFICES ASSUME DialogueIInv PROVE DialogueInv
  OBVIOUS
<1>1. TypeOK /\ CertificatesStored
  BY DEF DialogueIInv, CertInv, BufferInv, TypeOK, Steps, Unsent
<1>2. SpeaksInTurn
  BY DEF DialogueIInv, SpokenInv, At, SpeaksInTurn
<1>3. ReadsInOrder
  <2>1. Response = Run(RecordSize, Records * RecordSize)
    BY DEF Response, Run
  <2>2. /\ out = Run(RecordSize, Len(out)) /\ Len(out) <= Records * RecordSize
        /\ Len(out) \in Nat /\ RecordSize \in Int /\ Records * RecordSize \in Nat
    BY Sizes DEF DialogueIInv, BytesInv, At, BufferInv
  <2>3. IsPrefix(Run(RecordSize, Len(out)), Run(RecordSize, Records * RecordSize))
    BY ONLY <2>2, RunPrefix
  <2> QED BY <2>1, <2>2, <2>3 DEF ReadsInOrder
<1> QED BY <1>1, <1>2, <1>3 DEF DialogueInv

(* Whatever pieces the network delivers and wherever it breaks, for every   *)
(* back end: the client speaks in turn, what it is given is the beginning   *)
(* of the response, no buffer is overrun, and (but for picotls) every       *)
(* certificate it loaded is in the trust store.                             *)
THEOREM DialogueCorrect == Spec => []DialogueInv
<1>1. Init => DialogueIInv
  BY DialogueInit
<1>2. DialogueIInv /\ [Next]_vars => DialogueIInv'
  BY DialogueStep
<1>3. DialogueIInv => DialogueInv
  BY DialogueImplied
<1> QED BY <1>1, <1>2, <1>3, PTL DEF Spec
=============================================================================
