------------------------- MODULE AnsiDecoderProofs -------------------------
(***************************************************************************)
(* Theorems about AnsiDecoder: for windows of every size, vectors of two   *)
(* places or more and any messages, the text shown is the text logged, in  *)
(* the colours that its sequences ask for.                                 *)
(***************************************************************************)
EXTENDS AnsiDecoder, Induction, SequenceTheorems, FiniteSetTheorems

-----------------------------------------------------------------------------
(* Folds over sequences: of characters drawn, of colours set, of characters *)
(* written to the abstract window.                                          *)
Step(kind, old, x) ==
  CASE kind = "draw" -> DrawCharacter(old, x)
    [] kind = "colour" -> HandleSetColor(old, x)
    [] kind = "write" -> LogWindow!Written(old, x)

(* f gives the fold over each set of indices, the largest last. *)
FoldsSets(kind, f, base, s, n) ==
  f = [t \in SUBSET (1..n) |->
         IF t = {} THEN base ELSE Step(kind, f[t \ {Max(t)}], s[Max(t)])]

LEMMA MaxIs ==
  ASSUME NEW t, NEW m \in t, t \subseteq Int, \A x \in t : x <= m
  PROVE  Max(t) = m
<1>1. \A y \in t : m >= y
  OBVIOUS
<1>2. Max(t) \in t /\ \A y \in t : Max(t) >= y
  BY ONLY <1>1, m \in t DEF Max
<1>3. Max(t) \in Int /\ m \in Int /\ m >= Max(t) /\ Max(t) >= m
  BY <1>1, <1>2
<1> QED BY ONLY <1>3

LEMMA FoldsExist ==
  ASSUME NEW kind, NEW base, NEW s
  PROVE  \A n \in Nat : \E f : FoldsSets(kind, f, base, s, n)
<1> DEFINE S == {n \in Nat : \E f : FoldsSets(kind, f, base, s, n)}
<1>1. 0 \in S
  <2> DEFINE f == [t \in SUBSET (1..0) |-> base]
  <2>1. \A t \in SUBSET (1..0) : t = {}
    OBVIOUS
  <2>2. FoldsSets(kind, f, base, s, 0)
    BY <2>1 DEF FoldsSets
  <2> HIDE DEF f
  <2> QED BY <2>2
<1>2. ASSUME NEW n \in Nat, n \in S PROVE n + 1 \in S
  <2>1. PICK f : FoldsSets(kind, f, base, s, n)
    BY <1>2
  <2> DEFINE g == [t \in SUBSET (1..n + 1) |->
                     IF n + 1 \in t THEN Step(kind, f[t \ {n + 1}], s[n + 1]) ELSE f[t]]
  <2>2. ASSUME NEW t \in SUBSET (1..n + 1)
        PROVE  g[t] = IF t = {} THEN base ELSE Step(kind, g[t \ {Max(t)}], s[Max(t)])
    <3>1. g[t] = IF n + 1 \in t THEN Step(kind, f[t \ {n + 1}], s[n + 1]) ELSE f[t]
      OBVIOUS
    <3>2. CASE n + 1 \in t
      <4>1. Max(t) = n + 1
        <5>1. t \subseteq Int /\ \A x \in t : x <= n + 1
          OBVIOUS
        <5> HIDE DEF g
        <5> QED BY ONLY <3>2, <5>1, MaxIs
      <4>2. t \ {n + 1} \in SUBSET (1..n + 1) /\ n + 1 \notin t \ {n + 1} /\ t # {}
        BY <3>2
      <4>3. g[t \ {n + 1}] = f[t \ {n + 1}]
        BY <4>2
      <4> HIDE DEF g
      <4> QED BY ONLY <3>1, <3>2, <4>1, <4>2, <4>3
    <3>3. CASE n + 1 \notin t
      <4>1. t \in SUBSET (1..n)
        BY <3>3
      <4>2. f[t] = IF t = {} THEN base ELSE Step(kind, f[t \ {Max(t)}], s[Max(t)])
        BY <2>1, <4>1 DEF FoldsSets
      <4>3. t \ {Max(t)} \in SUBSET (1..n + 1) /\ n + 1 \notin t \ {Max(t)}
        BY <3>3
      <4>4. g[t \ {Max(t)}] = f[t \ {Max(t)}]
        BY <4>3
      <4> HIDE DEF g
      <4> QED BY ONLY <3>1, <3>3, <4>2, <4>4
    <3> QED BY <3>2, <3>3
  <2>3. g = [t \in SUBSET (1..n + 1) |-> g[t]]
    OBVIOUS
  <2> HIDE DEF g
  <2>4. FoldsSets(kind, g, base, s, n + 1)
    BY ONLY <2>2, <2>3, Zenon DEF FoldsSets
  <2> QED BY <2>4
<1> HIDE DEF S
<1>3. Nat \subseteq S
  BY <1>1, <1>2, SetInduction
<1> QED BY <1>3 DEF S

(* What FoldLeft is made of. *)
FoldOf(kind, base, s) == CHOOSE f : FoldsSets(kind, f, base, s, Len(s))

LEMMA DrawFolds ==
  ASSUME NEW base, NEW s, DOMAIN s = 1..Len(s)
  PROVE  FoldLeft(DrawCharacter, base, s) = FoldOf("draw", base, s)[1..Len(s)]
BY Zenon DEF FoldLeft, MapThenFoldSet, FoldOf, FoldsSets, Step

LEMMA ColourFolds ==
  ASSUME NEW base, NEW s, DOMAIN s = 1..Len(s)
  PROVE  FoldLeft(HandleSetColor, base, s) = FoldOf("colour", base, s)[1..Len(s)]
BY Zenon DEF FoldLeft, MapThenFoldSet, FoldOf, FoldsSets, Step

LEMMA WriteFolds ==
  ASSUME NEW base, NEW s, DOMAIN s = 1..Len(s)
  PROVE  LogWindow!FoldLeft(LogWindow!Written, base, s) = FoldOf("write", base, s)[1..Len(s)]
BY Zenon DEF LogWindow!FoldLeft, LogWindow!MapThenFoldSet, LogWindow!Max, Max, FoldOf, FoldsSets, Step

LEMMA FoldStep ==
  ASSUME NEW kind, NEW base, NEW s, Len(s) \in Nat
  PROVE  LET f == FoldOf(kind, base, s)
         IN  /\ f[1..0] = base
             /\ \A k \in 1..Len(s) : f[1..k] = Step(kind, f[1..k - 1], s[k])
<1> DEFINE n == Len(s)
           f == FoldOf(kind, base, s)
<1>1. FoldsSets(kind, f, base, s, n)
  BY FoldsExist DEF FoldOf
<1> HIDE DEF f
<1>2. \A t \in SUBSET (1..n) : f[t] = IF t = {} THEN base ELSE Step(kind, f[t \ {Max(t)}], s[Max(t)])
  BY ONLY <1>1 DEF FoldsSets
<1>3. f[1..0] = base
  <2>1. 1..0 = {} /\ {} \in SUBSET (1..n)
    OBVIOUS
  <2> QED BY ONLY <1>2, <2>1
<1>4. ASSUME NEW k \in 1..n PROVE f[1..k] = Step(kind, f[1..k - 1], s[k])
  <2>1. k \in 1..k /\ 1..k \subseteq Int /\ \A x \in 1..k : x <= k
    OBVIOUS
  <2>2. Max(1..k) = k
    BY ONLY <2>1, MaxIs
  <2>0. n \in Nat /\ k \in Nat /\ 1 <= k /\ k <= n
    OBVIOUS
  <2> HIDE DEF n
  <2>3. (1..k) \ {k} = 1..k - 1 /\ 1..k # {} /\ 1..k \in SUBSET (1..n)
    BY ONLY <2>0
  <2> QED BY ONLY <1>2, <2>2, <2>3
<1> QED BY <1>3, <1>4 DEF f

(* The folds of the decoder: of colours over one or two parameters, and of  *)
(* any property that drawing a character keeps.                             *)
LEMMA ColoursOfOne ==
  ASSUME NEW cols, NEW p \in Nat
  PROVE  FoldLeft(HandleSetColor, cols, <<p>>) = HandleSetColor(cols, p)
<1> DEFINE f == FoldOf("colour", cols, <<p>>)
<1>1. Len(<<p>>) = 1 /\ DOMAIN <<p>> = 1..1 /\ <<p>>[1] = p /\ 1 - 1 = 0
  OBVIOUS
<1>2. f[1..0] = cols /\ f[1..1] = Step("colour", f[1..0], p)
  BY <1>1, FoldStep
<1>3. FoldLeft(HandleSetColor, cols, <<p>>) = f[1..1]
  BY <1>1, ColourFolds
<1> HIDE DEF f
<1> QED BY ONLY <1>2, <1>3 DEF Step

LEMMA ColoursOfTwo ==
  ASSUME NEW cols, NEW p \in Nat, NEW q \in Nat
  PROVE  FoldLeft(HandleSetColor, cols, <<p, q>>) = HandleSetColor(HandleSetColor(cols, p), q)
<1> DEFINE f == FoldOf("colour", cols, <<p, q>>)
<1>1. /\ Len(<<p, q>>) = 2 /\ DOMAIN <<p, q>> = 1..2 /\ <<p, q>>[1] = p /\ <<p, q>>[2] = q
      /\ 1 - 1 = 0 /\ 2 - 1 = 1
  OBVIOUS
<1>2. /\ f[1..0] = cols
      /\ \A k \in 1..Len(<<p, q>>) : f[1..k] = Step("colour", f[1..k - 1], <<p, q>>[k])
  BY <1>1, FoldStep
<1>3. FoldLeft(HandleSetColor, cols, <<p, q>>) = f[1..2]
  BY <1>1, ColourFolds
<1> HIDE DEF f
<1>4. 1 \in 1..Len(<<p, q>>) /\ 2 \in 1..Len(<<p, q>>)
  BY ONLY <1>1
<1>5. f[1..1] = Step("colour", f[1..0], p) /\ f[1..2] = Step("colour", f[1..1], q)
  BY ONLY <1>1, <1>2, <1>4
<1> QED BY ONLY <1>2, <1>3, <1>5 DEF Step

-----------------------------------------------------------------------------
(* The text buffer. *)
BufferOK(b) ==
  /\ b = [cursor |-> b.cursor, rows |-> b.rows]
  /\ b.cursor \in [x : 0..kNumCharsWide, y : 0..kMaxRowIdx]
  /\ DOMAIN b.rows = 0..kMaxRowIdx
  /\ \A y \in 0..kMaxRowIdx : DOMAIN b.rows[y] = 0..kMaxColIdx

LEMMA BufferSizes ==
  /\ kNumCharsWide \in Nat /\ kNumCharsWide > 0 /\ kMaxColIdx = kNumCharsWide - 1
  /\ kNumRows \in Nat /\ kNumRows > 1 /\ kMaxRowIdx = kNumRows - 1
BY TextBufferAssumption DEF kMaxColIdx, kMaxRowIdx

LEMMA NewlineOK ==
  ASSUME NEW b, BufferOK(b) PROVE BufferOK(InsertNewline(b))
<1>1. /\ b = [cursor |-> b.cursor, rows |-> b.rows]
      /\ b.cursor \in [x : 0..kNumCharsWide, y : 0..kMaxRowIdx]
      /\ DOMAIN b.rows = 0..kMaxRowIdx
      /\ \A y \in 0..kMaxRowIdx : DOMAIN b.rows[y] = 0..kMaxColIdx
  BY DEF BufferOK
<1>2. CASE b.cursor.y = kMaxRowIdx
  <2>1. InsertNewline(b) = [cursor |-> [b.cursor EXCEPT !.x = 0], rows |-> ScrollUp(b.rows)]
    BY <1>2 DEF InsertNewline
  <2>2. DOMAIN ScrollUp(b.rows) = 0..kMaxRowIdx
        /\ \A y \in 0..kMaxRowIdx : DOMAIN ScrollUp(b.rows)[y] = 0..kMaxColIdx
    <3>1. ASSUME NEW y \in 0..kMaxRowIdx PROVE DOMAIN ScrollUp(b.rows)[y] = 0..kMaxColIdx
      <4>1. ScrollUp(b.rows)[y] = IF y < kMaxRowIdx THEN b.rows[y + 1] ELSE ClearedRow
        BY DEF ScrollUp
      <4>2. y < kMaxRowIdx => y + 1 \in 0..kMaxRowIdx
        BY BufferSizes
      <4>3. y < kMaxRowIdx => DOMAIN b.rows[y + 1] = 0..kMaxColIdx
        BY ONLY <1>1, <4>2
      <4>4. DOMAIN ClearedRow = 0..kMaxColIdx
        BY DEF ClearedRow
      <4> QED BY ONLY <4>1, <4>3, <4>4, Zenon
    <3> QED BY ONLY <3>1 DEF ScrollUp
  <2>3. [b.cursor EXCEPT !.x = 0] \in [x : 0..kNumCharsWide, y : 0..kMaxRowIdx]
    BY ONLY <1>1, BufferSizes
  <2> QED BY ONLY <2>1, <2>2, <2>3 DEF BufferOK
<1>3. CASE b.cursor.y # kMaxRowIdx
  <2>1. InsertNewline(b) = [b EXCEPT !.cursor = [x |-> 0, y |-> b.cursor.y + 1]]
    BY <1>3 DEF InsertNewline
  <2>2. [x |-> 0, y |-> b.cursor.y + 1] \in [x : 0..kNumCharsWide, y : 0..kMaxRowIdx]
    BY ONLY <1>1, <1>3, BufferSizes
  <2> QED BY ONLY <1>1, <2>1, <2>2 DEF BufferOK
<1> QED BY <1>2, <1>3

LEMMA StoreOK ==
  ASSUME NEW b, BufferOK(b), NEW ch PROVE BufferOK(Store(b, ch))
<1>1. /\ b = [cursor |-> b.cursor, rows |-> b.rows]
      /\ b.cursor \in [x : 0..kNumCharsWide, y : 0..kMaxRowIdx]
      /\ DOMAIN b.rows = 0..kMaxRowIdx
      /\ \A y \in 0..kMaxRowIdx : DOMAIN b.rows[y] = 0..kMaxColIdx
  BY DEF BufferOK
<1>2. CASE b.cursor.x > kMaxColIdx
  BY <1>2 DEF Store
<1>3. CASE ~(b.cursor.x > kMaxColIdx)
  <2> DEFINE rows == [b.rows EXCEPT ![b.cursor.y][b.cursor.x] = ch]
  <2>1. Store(b, ch) = [cursor |-> [b.cursor EXCEPT !.x = b.cursor.x + 1], rows |-> rows]
    BY <1>1, <1>3 DEF Store
  <2>2. DOMAIN rows = 0..kMaxRowIdx /\ \A y \in 0..kMaxRowIdx : DOMAIN rows[y] = 0..kMaxColIdx
    BY ONLY <1>1
  <2>3. [b.cursor EXCEPT !.x = b.cursor.x + 1] \in [x : 0..kNumCharsWide, y : 0..kMaxRowIdx]
    BY ONLY <1>1, <1>3, BufferSizes
  <2> HIDE DEF rows
  <2> QED BY ONLY <2>1, <2>2, <2>3 DEF BufferOK
<1> QED BY <1>2, <1>3

LEMMA DrawCharacterOK ==
  ASSUME NEW b, BufferOK(b), NEW ch PROVE BufferOK(DrawCharacter(b, ch))
<1>1. BufferOK(InsertNewline(b))
  BY NewlineOK
<1>2. BufferOK(Store(b, ch)) /\ BufferOK(Store(InsertNewline(b), ch))
  BY <1>1, StoreOK
<1> QED BY <1>1, <1>2, Zenon DEF DrawCharacter

LEMMA DrawsOK ==
  ASSUME NEW b, BufferOK(b), NEW s, DOMAIN s = 1..Len(s), Len(s) \in Nat
  PROVE  BufferOK(FoldLeft(DrawCharacter, b, s))
<1> DEFINE f == FoldOf("draw", b, s)
           n == Len(s)
           S == {k \in Nat : k <= n => BufferOK(f[1..k])}
<1>1. f[1..0] = b /\ \A k \in 1..n : f[1..k] = Step("draw", f[1..k - 1], s[k])
  BY FoldStep
<1>2. FoldLeft(DrawCharacter, b, s) = f[1..n]
  BY DrawFolds
<1> HIDE DEF f
<1>3. 0 \in S
  BY <1>1
<1>4. ASSUME NEW k \in Nat, k \in S PROVE k + 1 \in S
  <2> SUFFICES ASSUME k + 1 <= n PROVE BufferOK(f[1..k + 1])
    OBVIOUS
  <2>1. k + 1 \in 1..n /\ k <= n /\ k + 1 - 1 = k
    OBVIOUS
  <2>2. f[1..k + 1] = DrawCharacter(f[1..k], s[k + 1])
    BY <1>1, <2>1 DEF Step
  <2>3. BufferOK(f[1..k])
    BY <1>4, <2>1
  <2> QED BY ONLY <2>2, <2>3, DrawCharacterOK
<1> HIDE DEF S
<1>5. Nat \subseteq S
  BY <1>3, <1>4, SetInduction
<1>6. n \in S /\ n <= n
  BY <1>5
<1> QED BY <1>2, <1>6 DEF S

-----------------------------------------------------------------------------
(* Colours. *)
LEMMA MaxOfIndices == Max({1}) = 1 /\ Max({2}) = 2 /\ Max({1, 2}) = 2
<1>1. 1 \in {1} /\ {1} \subseteq Int /\ \A x \in {1} : x <= 1
  OBVIOUS
<1>2. 2 \in {2} /\ {2} \subseteq Int /\ \A x \in {2} : x <= 2
  OBVIOUS
<1>3. 2 \in {1, 2} /\ {1, 2} \subseteq Int /\ \A x \in {1, 2} : x <= 2
  OBVIOUS
<1>4. Max({1}) = 1
  BY ONLY <1>1, MaxIs
<1>5. Max({2}) = 2
  BY ONLY <1>2, MaxIs
<1>6. Max({1, 2}) = 2
  BY ONLY <1>3, MaxIs
<1> QED BY <1>4, <1>5, <1>6

(* The colour that a parameter asks for, if it is one that does. *)
AfterOne(p, base, initial, old) == IF Selects(p, base) THEN ColourOf(p, base, initial) ELSE old

LEMMA AfterIs ==
  ASSUME NEW p, NEW q, NEW base, NEW initial, NEW old
  PROVE  /\ After(<<p>>, base, initial, old) = AfterOne(p, base, initial, old)
         /\ After(<<p, q>>, base, initial, old)
              = AfterOne(q, base, initial, AfterOne(p, base, initial, old))
<1>1. After(<<p>>, base, initial, old) = AfterOne(p, base, initial, old)
  <2> DEFINE chosen == {i \in DOMAIN <<p>> : Selects(<<p>>[i], base)}
  <2>1. chosen = IF Selects(p, base) THEN {1} ELSE {}
    OBVIOUS
  <2>2. After(<<p>>, base, initial, old)
          = IF chosen = {} THEN old ELSE ColourOf(<<p>>[Max(chosen)], base, initial)
    BY DEF After
  <2>3. <<p>>[1] = p
    OBVIOUS
  <2> HIDE DEF chosen
  <2> QED BY ONLY <2>1, <2>2, <2>3, MaxOfIndices DEF AfterOne
<1>2. After(<<p, q>>, base, initial, old)
        = AfterOne(q, base, initial, AfterOne(p, base, initial, old))
  <2> DEFINE chosen == {i \in DOMAIN <<p, q>> : Selects(<<p, q>>[i], base)}
  <2>1. chosen = {i \in {1, 2} : IF i = 1 THEN Selects(p, base) ELSE Selects(q, base)}
    OBVIOUS
  <2>2. chosen = IF Selects(p, base) THEN IF Selects(q, base) THEN {1, 2} ELSE {1}
                 ELSE IF Selects(q, base) THEN {2} ELSE {}
    BY ONLY <2>1
  <2>3. After(<<p, q>>, base, initial, old)
          = IF chosen = {} THEN old ELSE ColourOf(<<p, q>>[Max(chosen)], base, initial)
    BY DEF After
  <2>4. <<p, q>>[1] = p /\ <<p, q>>[2] = q
    OBVIOUS
  <2> HIDE DEF chosen
  <2> QED BY ONLY <2>2, <2>3, <2>4, MaxOfIndices DEF AfterOne
<1> QED BY <1>1, <1>2

LEMMA HandlesOne ==
  ASSUME NEW p \in Nat, NEW f, NEW b
  PROVE  HandleSetColor([fg |-> f, bg |-> b], p)
           = [fg |-> AfterOne(p, 30, 8, f), bg |-> AfterOne(p, 40, 1, b)]
<1>1. /\ p = 10 * (p \div 10) + (p % 10) /\ p \div 10 \in Int /\ p % 10 \in 0..9 /\ p \div 10 >= 0
  BY Division
<1> DEFINE d == p \div 10
           m == p % 10
<1>2. CASE p = 0
  <2>1. d = 0 /\ m = 0
    BY <1>2
  <2>2. HandleSetColor([fg |-> f, bg |-> b], p)
          = [fg |-> ToRgb565(kNormalColors[8]), bg |-> ToRgb565(kNormalColors[1])]
    BY ONLY <1>2, <2>1 DEF HandleSetColor
  <2> QED BY ONLY <1>2, <2>2 DEF AfterOne, Selects, ColourOf
<1>3. CASE p # 0
  <2>1. /\ Selects(p, 30) <=> m <= 7 /\ (d = 3 \/ d = 9)
        /\ Selects(p, 40) <=> m <= 7 /\ (d = 4 \/ d = 10)
    BY ONLY <1>1, <1>3 DEF Selects
  <2>2. /\ m <= 7 /\ d = 3 => ColourOf(p, 30, 8) = ToRgb565(kNormalColors[m + 1])
        /\ m <= 7 /\ d = 9 => ColourOf(p, 30, 8) = ToRgb565(kBrightColors[m + 1])
        /\ m <= 7 /\ d = 4 => ColourOf(p, 40, 1) = ToRgb565(kNormalColors[m + 1])
        /\ m <= 7 /\ d = 10 => ColourOf(p, 40, 1) = ToRgb565(kBrightColors[m + 1])
    <3>1. CASE m <= 7 /\ (d = 3 \/ d = 4)
      <4>1. d = 3 => p - 30 = m
        BY ONLY <1>1, <3>1
      <4>2. d = 4 => p - 40 = m
        BY ONLY <1>1, <3>1
      <4> QED BY ONLY <1>1, <1>3, <3>1, <4>1, <4>2 DEF ColourOf
    <3>2. CASE m <= 7 /\ (d = 9 \/ d = 10)
      <4>1. d = 9 => p - 30 - 59 = m + 1 /\ ~(p - 30 < 8)
        BY ONLY <1>1, <3>2
      <4>2. d = 10 => p - 40 - 59 = m + 1 /\ ~(p - 40 < 8)
        BY ONLY <1>1, <3>2
      <4> QED BY ONLY <1>1, <1>3, <3>2, <4>1, <4>2 DEF ColourOf
    <3> QED BY ONLY <3>1, <3>2
  <2>3. HandleSetColor([fg |-> f, bg |-> b], p)
          = IF m > 7 THEN [fg |-> f, bg |-> b]
            ELSE [fg |-> IF d = 3 THEN ToRgb565(kNormalColors[m + 1])
                         ELSE IF d = 9 THEN ToRgb565(kBrightColors[m + 1]) ELSE f,
                  bg |-> IF d = 4 THEN ToRgb565(kNormalColors[m + 1])
                         ELSE IF d = 10 THEN ToRgb565(kBrightColors[m + 1]) ELSE b]
    <3> DEFINE r == [fg |-> f, bg |-> b]
               normal == ToRgb565(kNormalColors[m + 1])
               bright == ToRgb565(kBrightColors[m + 1])
    <3>1. \A x : [r EXCEPT !.fg = x] = [fg |-> x, bg |-> b] /\ [r EXCEPT !.bg = x] = [fg |-> f, bg |-> x]
      OBVIOUS
    <3>2. HandleSetColor(r, p)
            = IF m > 7 THEN r
              ELSE CASE d = 3 -> [r EXCEPT !.fg = normal]
                     [] d = 4 -> [r EXCEPT !.bg = normal]
                     [] d = 9 -> [r EXCEPT !.fg = bright]
                     [] d = 10 -> [r EXCEPT !.bg = bright]
                     [] OTHER -> r
      <4> DEFINE reset == IF p = 0 THEN [fg |-> ToRgb565(kNormalColors[8]),
                                         bg |-> ToRgb565(kNormalColors[1])]
                          ELSE r
      <4>1. reset = r
        BY ONLY <1>3
      <4>2. HandleSetColor(r, p)
              = IF m > 7 THEN reset
                ELSE CASE d = 3 -> [reset EXCEPT !.fg = normal]
                       [] d = 4 -> [reset EXCEPT !.bg = normal]
                       [] d = 9 -> [reset EXCEPT !.fg = bright]
                       [] d = 10 -> [reset EXCEPT !.bg = bright]
                       [] OTHER -> reset
        BY DEF HandleSetColor
      <4> HIDE DEF reset, r, d, m, normal, bright
      <4> QED BY ONLY <4>1, <4>2
    <3> HIDE DEF d, m, normal, bright
    <3> QED BY ONLY <3>1, <3>2 DEF normal, bright
  <2>4. m > 7 <=> ~(m <= 7)
    BY ONLY <1>1
  <2> HIDE DEF d, m
  <2> QED BY ONLY <2>1, <2>2, <2>3, <2>4 DEF AfterOne
<1> QED BY <1>2, <1>3

(* One parameter, or two, set the colours that they ask for. *)
LEMMA ColoursSet ==
  ASSUME NEW p \in Nat, NEW q \in Nat, NEW f, NEW b
  PROVE  /\ FoldLeft(HandleSetColor, [fg |-> f, bg |-> b], <<p>>)
              = [fg |-> After(<<p>>, 30, 8, f), bg |-> After(<<p>>, 40, 1, b)]
         /\ FoldLeft(HandleSetColor, [fg |-> f, bg |-> b], <<p, q>>)
              = [fg |-> After(<<p, q>>, 30, 8, f), bg |-> After(<<p, q>>, 40, 1, b)]
<1>1. HandleSetColor([fg |-> f, bg |-> b], p)
        = [fg |-> AfterOne(p, 30, 8, f), bg |-> AfterOne(p, 40, 1, b)]
  BY HandlesOne
<1>2. HandleSetColor(HandleSetColor([fg |-> f, bg |-> b], p), q)
        = [fg |-> AfterOne(q, 30, 8, AfterOne(p, 30, 8, f)),
           bg |-> AfterOne(q, 40, 1, AfterOne(p, 40, 1, b))]
  BY <1>1, HandlesOne
<1>3. /\ After(<<p>>, 30, 8, f) = AfterOne(p, 30, 8, f)
      /\ After(<<p>>, 40, 1, b) = AfterOne(p, 40, 1, b)
      /\ After(<<p, q>>, 30, 8, f) = AfterOne(q, 30, 8, AfterOne(p, 30, 8, f))
      /\ After(<<p, q>>, 40, 1, b) = AfterOne(q, 40, 1, AfterOne(p, 40, 1, b))
  BY AfterIs
<1>4. /\ FoldLeft(HandleSetColor, [fg |-> f, bg |-> b], <<p>>) = HandleSetColor([fg |-> f, bg |-> b], p)
      /\ FoldLeft(HandleSetColor, [fg |-> f, bg |-> b], <<p, q>>)
           = HandleSetColor(HandleSetColor([fg |-> f, bg |-> b], p), q)
  BY ColoursOfOne, ColoursOfTwo
<1> QED BY ONLY <1>1, <1>2, <1>3, <1>4, Zenon

-----------------------------------------------------------------------------
(* The characters of the log, and sequences that begin with one. *)
Digits == {"0", "1", "2", "3", "4", "5", "6", "7", "8", "9"}
Letters == Glyphs \cup {Newline}
Chars == Digits \cup {Escape, Csi, ";", "m", "K"} \cup Letters
Params == {p \in Nat : p < 1000}

LEMMA Headed ==
  ASSUME NEW a \in Chars, NEW t \in Seq(Chars)
  PROVE  /\ <<a>> \o t \in Seq(Chars) /\ <<a>> \o t # <<>>
         /\ Head(<<a>> \o t) = a /\ Tail(<<a>> \o t) = t
<1>1. <<a>> \in Seq(Chars) /\ Len(<<a>>) = 1 /\ <<a>>[1] = a
  OBVIOUS
<1> DEFINE u == <<a>> \o t
<1>2. /\ u \in Seq(Chars) /\ Len(u) = 1 + Len(t)
      /\ \A i \in 1..1 + Len(t) : u[i] = IF i <= 1 THEN <<a>>[i] ELSE t[i - 1]
  BY ONLY <1>1, t \in Seq(Chars), ConcatProperties
<1>3. Len(t) \in Nat
  OBVIOUS
<1> HIDE DEF u
<1>4. u # <<>> /\ Head(u) = a
  BY <1>1, <1>2, <1>3
<1>5. Tail(u) = t
  <2>1. Tail(u) \in Seq(Chars) /\ Len(Tail(u)) = Len(t)
    BY <1>2, <1>3, <1>4
  <2>2. ASSUME NEW i \in 1..Len(t) PROVE Tail(u)[i] = t[i]
    BY <1>2, <1>3, <1>4
  <2> QED BY <2>1, <2>2, SeqEqual
<1> QED BY <1>2, <1>4, <1>5 DEF u

(* Concatenation, as an operator that the provers need not look into. *)
Joined(s, t) == s \o t

LEMMA Joins ==
  ASSUME NEW a \in Seq(Chars), NEW b \in Seq(Chars)
  PROVE  /\ Joined(a, b) \in Seq(Chars)
         /\ Joined(a, <<>>) = a /\ Joined(<<>>, a) = a
         /\ \A c \in Seq(Chars) : Joined(Joined(a, b), c) = Joined(a, Joined(b, c))
BY ConcatAssociative, ConcatProperties, ConcatEmptySeq DEF Joined

LEMMA FourJoined ==
  ASSUME NEW a \in Seq(Chars), NEW b \in Seq(Chars), NEW c \in Seq(Chars), NEW t \in Seq(Chars)
  PROVE  Joined(Joined(Joined(a, b), c), t) = Joined(a, Joined(b, Joined(c, t)))
<1>1. Joined(a, b) \in Seq(Chars) /\ Joined(c, t) \in Seq(Chars)
  BY Joins
<1>2. Joined(Joined(Joined(a, b), c), t) = Joined(Joined(a, b), Joined(c, t))
  BY <1>1, Joins
<1>3. Joined(Joined(a, b), Joined(c, t)) = Joined(a, Joined(b, Joined(c, t)))
  BY <1>1, Joins
<1> QED BY ONLY <1>2, <1>3

LEMMA DigitsAre ==
  /\ Len(kDigits) = 10
  /\ \A i \in 1..10 : kDigits[i] \in Digits
  /\ \A i, j \in 1..10 : kDigits[i] = kDigits[j] => i = j
<1>1. Len(kDigits) = 10
  BY DEF kDigits
<1>2. /\ kDigits[1] = "0" /\ kDigits[2] = "1" /\ kDigits[3] = "2" /\ kDigits[4] = "3"
      /\ kDigits[5] = "4" /\ kDigits[6] = "5" /\ kDigits[7] = "6" /\ kDigits[8] = "7"
      /\ kDigits[9] = "8" /\ kDigits[10] = "9"
  BY DEF kDigits
<1>3. \A i \in 1..10 : i \in {1, 2, 3, 4, 5, 6, 7, 8, 9, 10}
  OBVIOUS
<1>4. ASSUME NEW i \in 1..10 PROVE kDigits[i] \in Digits
  BY ONLY <1>2, <1>3, i \in 1..10 DEF Digits
<1>5. ASSUME NEW i \in 1..10, NEW j \in 1..10, kDigits[i] = kDigits[j] PROVE i = j
  BY ONLY <1>2, <1>3, <1>5, i \in 1..10, j \in 1..10
<1> QED BY <1>1, <1>4, <1>5

(* The value that the decoder gives to a digit is the digit's. *)
LEMMA DigitValue ==
  ASSUME NEW j \in {n \in Nat : n < 10}
  PROVE  /\ kDigits[j + 1] \in Digits
         /\ Contains(kDigits, kDigits[j + 1])
         /\ SelectInSeq(kDigits, LAMBDA d : d = kDigits[j + 1]) - 1 = j
<1>1. j + 1 \in 1..10 /\ j + 1 - 1 = j
  OBVIOUS
<1>2. kDigits[j + 1] \in Digits /\ Contains(kDigits, kDigits[j + 1])
  BY ONLY <1>1, DigitsAre DEF Contains
<1> DEFINE found == {i \in 1..Len(kDigits) : kDigits[i] = kDigits[j + 1]}
<1>3. found = {j + 1}
  BY ONLY <1>1, DigitsAre
<1>4. SelectInSeq(kDigits, LAMBDA d : d = kDigits[j + 1]) = IF found # {} THEN Min(found) ELSE 0
  BY Zenon DEF SelectInSeq
<1> HIDE DEF found
<1>5. Min({j + 1}) = j + 1
  BY ONLY <1>1 DEF Min
<1> QED BY ONLY <1>1, <1>2, <1>3, <1>4, <1>5

LEMMA NotDigits ==
  ASSUME NEW c \in {";", "m", "K"} PROVE ~Contains(kDigits, c)
<1>1. c \notin Digits
  BY DEF Digits
<1> QED BY ONLY <1>1, DigitsAre DEF Contains

-----------------------------------------------------------------------------
(* How a parameter is written: its digits, the last k of them still to      *)
(* come, and the value of those before.                                     *)
Digit(n) == kDigits[(n % 10) + 1]
Places(p) == IF p > 99 THEN 3 ELSE IF p > 9 THEN 2 ELSE 1
Before(k, p) ==
  IF k = 0 THEN p ELSE IF k = 1 THEN p \div 10 ELSE IF k = 2 THEN p \div 100 ELSE 0
Coming(k, p, rest) ==
  IF k = 0 THEN rest
  ELSE IF k = 1 THEN <<Digit(p)>> \o rest
  ELSE IF k = 2 THEN <<Digit(p \div 10)>> \o (<<Digit(p)>> \o rest)
  ELSE <<Digit(p \div 100)>> \o (<<Digit(p \div 10)>> \o (<<Digit(p)>> \o rest))

LEMMA Remainders ==
  ASSUME NEW n \in Nat
  PROVE  n % 10 \in {j \in Nat : j < 10} /\ n \div 10 \in Nat /\ n = (n \div 10) * 10 + (n % 10)
BY Division

LEMMA DigitRead ==
  ASSUME NEW n \in Nat
  PROVE  /\ Digit(n) \in Chars
         /\ Contains(kDigits, Digit(n))
         /\ SelectInSeq(kDigits, LAMBDA d : d = Digit(n)) - 1 = n % 10
<1> DEFINE j == n % 10
<1>1. j \in {i \in Nat : i < 10}
  BY Remainders
<1>2. Digit(n) = kDigits[j + 1]
  BY DEF Digit
<1> HIDE DEF j
<1>3. /\ kDigits[j + 1] \in Digits
      /\ Contains(kDigits, kDigits[j + 1])
      /\ SelectInSeq(kDigits, LAMBDA d : d = kDigits[j + 1]) - 1 = j
  BY ONLY <1>1, DigitValue
<1>4. SelectInSeq(kDigits, LAMBDA d : d = Digit(n)) = SelectInSeq(kDigits, LAMBDA d : d = kDigits[j + 1])
  BY ONLY <1>2, Zenon DEF SelectInSeq
<1>5. Digit(n) \in Chars
  BY ONLY <1>2, <1>3 DEF Chars
<1> QED BY ONLY <1>2, <1>3, <1>4, <1>5 DEF j

LEMMA DigitsOfParam ==
  ASSUME NEW p \in Params
  PROVE  Digit(p) \in Chars /\ Digit(p \div 10) \in Chars /\ Digit(p \div 100) \in Chars
<1>1. p \in Nat /\ p \div 10 \in Nat /\ p \div 100 \in Nat
  BY DEF Params
<1> QED BY ONLY <1>1, DigitRead

LEMMA BeforeIs ==
  ASSUME NEW p \in Params
  PROVE  /\ Places(p) \in {1, 2, 3}
         /\ Before(0, p) = p /\ Before(Places(p), p) = 0
         /\ \A k \in {1, 2, 3} :
              /\ Before(k - 1, p) \in Nat
              /\ Before(k, p) * 10 + (Before(k - 1, p) % 10) = Before(k - 1, p)
<1>1. p \in Nat /\ p < 1000
  BY DEF Params
<1>2. /\ p \div 10 \in Nat /\ p \div 100 \in Nat /\ p \div 100 < 10
      /\ (p \div 10) * 10 + (p % 10) = p
      /\ (p \div 100) * 10 + ((p \div 10) % 10) = p \div 10
      /\ p <= 9 => p \div 10 = 0
      /\ p <= 99 => p \div 100 = 0
      /\ 0 * 10 + ((p \div 100) % 10) = p \div 100
  BY ONLY <1>1
<1>3. 1 - 1 = 0 /\ 2 - 1 = 1 /\ 3 - 1 = 2
  OBVIOUS
<1>4. Places(p) \in {1, 2, 3} /\ Before(Places(p), p) = 0
  BY ONLY <1>1, <1>2 DEF Places, Before
<1> QED BY ONLY <1>1, <1>2, <1>3, <1>4 DEF Before

LEMMA ComingIs ==
  ASSUME NEW p \in Params, NEW rest \in Seq(Chars), rest # <<>>
  PROVE  /\ Coming(0, p, rest) = rest
         /\ \A k \in {0, 1, 2, 3} : Coming(k, p, rest) \in Seq(Chars) /\ Coming(k, p, rest) # <<>>
         /\ \A k \in {1, 2, 3} :
              Coming(k, p, rest) = <<Digit(Before(k - 1, p))>> \o Coming(k - 1, p, rest)
<1>1. 1 - 1 = 0 /\ 2 - 1 = 1 /\ 3 - 1 = 2
  OBVIOUS
<1>2. Digit(p) \in Chars /\ Digit(p \div 10) \in Chars /\ Digit(p \div 100) \in Chars
  BY DigitsOfParam
<1> DEFINE one == <<Digit(p)>> \o rest
           two == <<Digit(p \div 10)>> \o one
           three == <<Digit(p \div 100)>> \o two
<1>3. one \in Seq(Chars) /\ one # <<>>
  BY <1>2, Headed
<1> HIDE DEF one
<1>4. two \in Seq(Chars) /\ two # <<>>
  BY <1>2, <1>3, Headed
<1> HIDE DEF two
<1>5. three \in Seq(Chars) /\ three # <<>>
  BY <1>2, <1>4, Headed
<1> HIDE DEF three
<1>6. /\ Coming(0, p, rest) = rest /\ Coming(1, p, rest) = one
      /\ Coming(2, p, rest) = two /\ Coming(3, p, rest) = three
  BY DEF Coming, one, two, three
<1>7. /\ one = <<Digit(Before(0, p))>> \o rest /\ two = <<Digit(Before(1, p))>> \o one
      /\ three = <<Digit(Before(2, p))>> \o two
  BY DEF one, two, three, Before
<1>8. \A k \in {0, 1, 2, 3} : Coming(k, p, rest) \in Seq(Chars) /\ Coming(k, p, rest) # <<>>
  BY ONLY <1>3, <1>4, <1>5, <1>6, rest \in Seq(Chars), rest # <<>>
<1>9. \A k \in {1, 2, 3} :
        Coming(k, p, rest) = <<Digit(Before(k - 1, p))>> \o Coming(k - 1, p, rest)
  BY ONLY <1>1, <1>6, <1>7
<1> QED BY ONLY <1>6, <1>8, <1>9

LEMMA WrittenAs ==
  ASSUME NEW p \in Params, NEW rest \in Seq(Chars)
  PROVE  Decimal(p) \o rest = Coming(Places(p), p, rest) /\ Decimal(p) \in Seq(Chars)
<1> DEFINE a == <<Digit(p \div 100)>>
           b == <<Digit(p \div 10)>>
           c == <<Digit(p)>>
<1>1. a \in Seq(Chars) /\ b \in Seq(Chars) /\ c \in Seq(Chars) /\ <<>> \in Seq(Chars)
  BY DigitsOfParam
<1>2. p \in Nat /\ p < 1000 /\ (p \div 100) % 10 = p \div 100
  BY DEF Params
<1>3. Decimal(p) = Joined(Joined(IF p > 99 THEN a ELSE <<>>, IF p > 9 THEN b ELSE <<>>), c)
  BY <1>2 DEF Decimal, Digit, Joined
<1>4. Coming(Places(p), p, rest)
        = IF p > 99 THEN Joined(a, Joined(b, Joined(c, rest)))
          ELSE IF p > 9 THEN Joined(b, Joined(c, rest)) ELSE Joined(c, rest)
  BY DEF Coming, Places, Joined
<1> HIDE DEF a, b, c
<1>5. Joined(Decimal(p), rest) = Coming(Places(p), p, rest) /\ Decimal(p) \in Seq(Chars)
  <2>1. CASE p > 99
    <3>1. p > 9
      BY ONLY <1>2, <2>1
    <3>2. Decimal(p) = Joined(Joined(a, b), c)
      BY ONLY <1>3, <2>1, <3>1
    <3>3. Joined(a, b) \in Seq(Chars)
      BY ONLY <1>1, Joins
    <3>4. Joined(Joined(a, b), c) \in Seq(Chars)
      BY ONLY <1>1, <3>3, Joins
    <3>5. Joined(Joined(Joined(a, b), c), rest) = Joined(a, Joined(b, Joined(c, rest)))
      BY ONLY <1>1, rest \in Seq(Chars), FourJoined
    <3> QED BY ONLY <1>4, <2>1, <3>2, <3>4, <3>5
  <2>2. CASE ~(p > 99) /\ p > 9
    <3>1. Joined(<<>>, b) = b
      BY ONLY <1>1, Joins
    <3>2. Decimal(p) = Joined(b, c)
      BY ONLY <1>3, <2>2, <3>1
    <3>3. Joined(b, c) \in Seq(Chars) /\ Joined(Joined(b, c), rest) = Joined(b, Joined(c, rest))
      BY ONLY <1>1, rest \in Seq(Chars), Joins
    <3> QED BY ONLY <1>4, <2>2, <3>2, <3>3
  <2>3. CASE ~(p > 99) /\ ~(p > 9)
    <3>1. Joined(<<>>, <<>>) = <<>> /\ Joined(<<>>, c) = c
      BY ONLY <1>1, Joins
    <3>2. Decimal(p) = c
      BY ONLY <1>3, <2>3, <3>1
    <3> QED BY ONLY <1>1, <1>4, <2>3, <3>2
  <2> QED BY ONLY <2>1, <2>2, <2>3
<1> QED BY ONLY <1>5 DEF Joined

(* The text of a sequence of one parameter and of two, after the bracket. *)
One(p, final) == Coming(Places(p), p, <<final>>)
Second(q, final) == <<";">> \o One(q, final)
Two(p, q, final) == Coming(Places(p), p, Second(q, final))

LEMMA TextsAre ==
  ASSUME NEW p \in Params, NEW q \in Params, NEW final \in {"m", "K"}
  PROVE  /\ <<final>> \in Seq(Chars) /\ <<final>> # <<>>
         /\ One(p, final) \in Seq(Chars) /\ Two(p, q, final) \in Seq(Chars)
         /\ Second(q, final) \in Seq(Chars) /\ Second(q, final) # <<>>
         /\ Head(Second(q, final)) = ";" /\ Tail(Second(q, final)) = One(q, final)
<1>1. <<final>> \in Seq(Chars) /\ <<final>> # <<>> /\ ";" \in Chars
  <2>1. final \in Chars /\ ";" \in Chars
    BY DEF Chars
  <2>2. \A a \in Chars : <<a>> \in Seq(Chars) /\ <<a>> # <<>>
    OBVIOUS
  <2> QED BY ONLY <2>1, <2>2
<1>2. \A n \in Params : Places(n) \in {0, 1, 2, 3}
  BY DEF Places
<1>3. One(p, final) \in Seq(Chars) /\ One(q, final) \in Seq(Chars)
  BY ONLY <1>1, <1>2, ComingIs, p \in Params, q \in Params DEF One
<1>4. /\ Second(q, final) \in Seq(Chars) /\ Second(q, final) # <<>>
      /\ Head(Second(q, final)) = ";" /\ Tail(Second(q, final)) = One(q, final)
  BY ONLY <1>1, <1>3, Headed DEF Second
<1>5. Two(p, q, final) \in Seq(Chars)
  BY ONLY <1>2, <1>4, ComingIs, p \in Params DEF Two
<1> QED BY ONLY <1>1, <1>3, <1>4, <1>5

LEMMA SequenceIs ==
  ASSUME NEW p \in Params, NEW q \in Params, NEW final \in {"m", "K"}
  PROVE  /\ Sequence(<<p>>, final) = <<Escape>> \o (<<Csi>> \o One(p, final))
         /\ Sequence(<<p, q>>, final) = <<Escape>> \o (<<Csi>> \o Two(p, q, final))
<1> DEFINE e == <<Escape>>
           b == <<Csi>>
           d == Decimal(p)
           r == Decimal(q)
           s == <<";">>
           f == <<final>>
<1>1. e \in Seq(Chars) /\ b \in Seq(Chars) /\ s \in Seq(Chars) /\ <<>> \in Seq(Chars)
  BY DEF Chars
<1>2. f \in Seq(Chars)
  BY TextsAre
<1>3. /\ d \in Seq(Chars) /\ Joined(d, f) = One(p, final) /\ r \in Seq(Chars)
      /\ Joined(r, f) = One(q, final) /\ Joined(d, Second(q, final)) = Two(p, q, final)
      /\ Second(q, final) \in Seq(Chars)
  <2>1. Second(q, final) \in Seq(Chars)
    BY TextsAre
  <2> QED BY <1>2, <2>1, WrittenAs DEF One, Two, Joined
<1>4. <<Escape, Csi>> = e \o b
  <2>1. <<Escape, Csi>> \in Seq(Chars) /\ Escape \in Chars /\ Csi \in Chars
    BY DEF Chars
  <2>2. /\ e \o b \in Seq(Chars) /\ Len(e \o b) = 2
        /\ \A i \in 1..2 : (e \o b)[i] = IF i <= 1 THEN e[i] ELSE b[i - 1]
    <3>1. Len(e) = 1 /\ Len(b) = 1
      OBVIOUS
    <3> HIDE DEF e, b
    <3>2. /\ e \o b \in Seq(Chars) /\ Len(e \o b) = Len(e) + Len(b)
          /\ \A i \in 1..Len(e) + Len(b) : (e \o b)[i] = IF i <= Len(e) THEN e[i] ELSE b[i - Len(e)]
      BY ONLY <1>1, ConcatProperties
    <3> QED BY ONLY <3>1, <3>2
  <2>3. Len(<<Escape, Csi>>) = 2 /\ \A i \in 1..2 : <<Escape, Csi>>[i] = (e \o b)[i]
    <3>1. <<Escape, Csi>>[1] = e[1] /\ <<Escape, Csi>>[2] = b[1] /\ Len(<<Escape, Csi>>) = 2
      OBVIOUS
    <3> HIDE DEF e, b
    <3> QED BY ONLY <2>2, <3>1
  <2> HIDE DEF e, b
  <2> QED BY ONLY <2>1, <2>2, <2>3, SeqEqual
<1>5. Sequence(<<p>>, final) = Joined(Joined(Joined(Joined(e, b), d), <<>>), f)
  <2>1. Len(<<p>>) # 2 /\ <<p>>[1] = p
    OBVIOUS
  <2> QED BY ONLY <1>4, <2>1 DEF Sequence, Joined
<1>6. Sequence(<<p, q>>, final) = Joined(Joined(Joined(Joined(e, b), d), Joined(s, r)), f)
  <2>1. Len(<<p, q>>) = 2 /\ <<p, q>>[1] = p /\ <<p, q>>[2] = q
    OBVIOUS
  <2> QED BY ONLY <1>4, <2>1 DEF Sequence, Joined
<1>7. Second(q, final) = Joined(s, One(q, final))
  BY DEF Second, Joined
<1> HIDE DEF e, b, d, r, s, f
<1>8. Joined(e, b) \in Seq(Chars) /\ Joined(s, r) \in Seq(Chars)
  BY ONLY <1>1, <1>3, Joins
<1>9. Joined(Joined(e, b), d) \in Seq(Chars)
  BY ONLY <1>3, <1>8, Joins
<1>10. Sequence(<<p>>, final) = Joined(e, Joined(b, One(p, final)))
  <2>1. Joined(Joined(Joined(e, b), d), <<>>) = Joined(Joined(e, b), d)
    BY ONLY <1>9, Joins
  <2>2. Joined(Joined(Joined(e, b), d), f) = Joined(e, Joined(b, Joined(d, f)))
    BY ONLY <1>1, <1>2, <1>3, FourJoined
  <2> QED BY ONLY <1>3, <1>5, <2>1, <2>2
<1>11. Sequence(<<p, q>>, final) = Joined(e, Joined(b, Two(p, q, final)))
  <2>1. Joined(Joined(Joined(Joined(e, b), d), Joined(s, r)), f)
          = Joined(Joined(Joined(e, b), d), Joined(Joined(s, r), f))
    BY ONLY <1>2, <1>8, <1>9, Joins
  <2>2. Joined(Joined(s, r), f) = Joined(s, Joined(r, f))
    BY ONLY <1>1, <1>2, <1>3, Joins
  <2>3. Joined(Joined(Joined(e, b), d), Second(q, final))
          = Joined(e, Joined(b, Joined(d, Second(q, final))))
    BY ONLY <1>1, <1>3, FourJoined
  <2> QED BY ONLY <1>3, <1>6, <1>7, <2>1, <2>2, <2>3
<1> QED BY ONLY <1>10, <1>11 DEF e, b, Joined

-----------------------------------------------------------------------------
(* The invariant.  Of a sequence there is still to come what the parameters *)
(* read so far leave, and the colours asked for are those that it will set. *)
Asked(all, final) ==
  IF final = "m"
  THEN fg = After(all, 30, 8, fg_color_) /\ bg = After(all, 40, 1, bg_color_)
  ELSE fg = fg_color_ /\ bg = bg_color_

ReadingAt(text, p, q, final, k) ==
  /\ cur_val_ = Before(k, p)
  /\ \/ params_ = <<>> /\ text = Coming(k, p, <<final>>) /\ Asked(<<p>>, final)
     \/ params_ = <<>> /\ text = Coming(k, p, Second(q, final)) /\ Asked(<<p, q>>, final)
     \/ params_ = <<q>> /\ text = Coming(k, p, <<final>>) /\ Asked(<<q, p>>, final)

Reading(text) ==
  \E p \in Params, q \in Params, final \in {"m", "K"}, k \in {0, 1, 2, 3} :
    ReadingAt(text, p, q, final, k)

(* No sequence is being read. *)
Level ==
  cur_val_ = 0 /\ params_ = <<>> /\ fg_color_ = fg /\ bg_color_ = bg
Settled ==
  /\ Level
  /\ IF strays THEN state_ \in {"kNormal", "kEscape"} /\ buffered_chars_ = <<>>
     ELSE state_ = "kNormal"

Done == Settled /\ token = <<>> /\ owed = <<>>
OneAhead ==
  /\ Settled
  /\ \E c \in Letters :
       (strays => c # Csi) /\ token = <<c>> /\ owed = <<Styled(c)>>
StrayAhead ==
  /\ Settled /\ strays
  /\ \E c \in Letters :
       c # Csi /\ token = <<Escape, c>> /\ owed = <<Styled(Escape), Styled(c)>>
StrayHeld ==
  /\ Level /\ strays /\ state_ = "kEscape" /\ buffered_chars_ = <<Escape>>
  /\ \E c \in Letters :
       c # Csi /\ token = <<c>> /\ owed = <<Styled(Escape), Styled(c)>>
SequenceAhead ==
  /\ ~strays /\ owed = <<>> /\ state_ = "kNormal"
  /\ \E text \in Seq(Chars) : token = <<Escape>> \o (<<Csi>> \o text) /\ Reading(text)
SequenceBegun ==
  /\ ~strays /\ owed = <<>> /\ state_ = "kEscape"
  /\ \E text \in Seq(Chars) : token = <<Csi>> \o text /\ Reading(text)
InSequence ==
  ~strays /\ owed = <<>> /\ state_ = "kCsi" /\ Reading(token)

Kept ==
  /\ BufferOK(log_text_buffer_)
  /\ buffered_chars_ \in Seq(Chars) /\ Len(buffered_chars_) <= VectorSize
  /\ halted \in BOOLEAN /\ strays \in BOOLEAN

Where ==
  \/ Done \/ OneAhead \/ StrayAhead \/ StrayHeld
  \/ SequenceAhead \/ SequenceBegun \/ InSequence

DecoderIInv == Kept /\ Where

-----------------------------------------------------------------------------
(* What the steps have in common. *)
LEMMA Names ==
  /\ Escape \in Chars /\ Csi \in Chars /\ Escape # Csi
  /\ \A c \in Letters : c \in Chars /\ c # Escape /\ c # Wrong
  /\ \A c \in Chars : c # Cleared.ch
  /\ Escape # Wrong
<1>1. Escape \notin Glyphs /\ Wrong \notin Glyphs /\ Cleared.ch \notin Glyphs
  BY DecoderAssumption
<1>2. /\ Escape # Newline /\ Wrong # Newline /\ Cleared.ch # Newline
      /\ Escape # Csi /\ Escape # Wrong
  BY DEF Escape, Csi, Wrong, Newline, Cleared
<1>3. \A c \in Digits \cup {Escape, Csi, ";", "m", "K"} : c # Cleared.ch
  BY DEF Digits, Escape, Csi, Cleared
<1>4. \A c \in Letters : c \in Chars /\ c # Escape /\ c # Wrong /\ c # Cleared.ch
  BY ONLY <1>1, <1>2 DEF Chars, Letters
<1>5. \A c \in Chars : c # Cleared.ch
  BY ONLY <1>3, <1>4 DEF Chars
<1> QED BY ONLY <1>2, <1>4, <1>5 DEF Chars

LEMMA PushedOK ==
  ASSUME NEW v, NEW c \in Chars, v \in Seq(Chars), Len(v) <= VectorSize
  PROVE  Pushed(v, c) \in Seq(Chars) /\ Len(Pushed(v, c)) <= VectorSize
<1>1. VectorSize \in Nat
  BY DecoderAssumption
<1>2. Append(v, c) \in Seq(Chars) /\ Len(Append(v, c)) = Len(v) + 1 /\ Len(v) \in Nat
  BY AppendProperties
<1> QED BY <1>1, <1>2 DEF Pushed

(* With two places there is room for all that is pushed to an empty vector. *)
LEMMA PushedFits ==
  ASSUME NEW x, NEW y
  PROVE  Pushed(<<>>, x) = <<x>> /\ Pushed(<<x>>, y) = <<x, y>>
<1>1. VectorSize \in Nat /\ VectorSize > 1
  BY DecoderAssumption
<1> DEFINE S == {x, y}
<1>2. Len(<<>>) = 0 /\ Len(<<x>>) = 1 /\ Len(<<x, y>>) = 2
  OBVIOUS
<1>3. <<>> \in Seq(S) /\ <<x>> \in Seq(S) /\ <<x, y>> \in Seq(S) /\ x \in S /\ y \in S
  OBVIOUS
<1>4. Append(<<>>, x) = <<x>>
  <2>1. Append(<<>>, x) \in Seq(S) /\ Len(Append(<<>>, x)) = 1 /\ Append(<<>>, x)[1] = x
    BY <1>2, <1>3, AppendProperties
  <2> QED BY <1>2, <1>3, <2>1, SeqEqual
<1>5. Append(<<x>>, y) = <<x, y>>
  <2>1. /\ Append(<<x>>, y) \in Seq(S) /\ Len(Append(<<x>>, y)) = 2
        /\ Append(<<x>>, y)[1] = x /\ Append(<<x>>, y)[2] = y
    <3>1. <<x>>[1] = x /\ 1 \in 1..1 /\ 1 + 1 = 2
      OBVIOUS
    <3> HIDE DEF S
    <3> QED BY ONLY <1>2, <1>3, <3>1, AppendProperties
  <2>2. Len(Append(<<x>>, y)) = Len(<<x, y>>)
        /\ \A i \in 1..2 : Append(<<x>>, y)[i] = <<x, y>>[i]
    <3>1. <<x, y>>[1] = x /\ <<x, y>>[2] = y /\ \A i \in 1..2 : i = 1 \/ i = 2
      OBVIOUS
    <3> QED BY ONLY <1>2, <2>1, <3>1
  <2> HIDE DEF S
  <2> QED BY ONLY <1>2, <1>3, <2>1, <2>2, SeqEqual
<1> QED BY ONLY <1>1, <1>2, <1>4, <1>5 DEF Pushed

LEMMA EmitsOK ==
  ASSUME NEW chars \in Seq(Chars), BufferOK(log_text_buffer_), EmitChars(chars)
  PROVE  BufferOK(log_text_buffer_)'
<1> DEFINE styled == [i \in DOMAIN chars |->
                        [ch |-> chars[i], foreground_color |-> fg_color_,
                         background_color |-> bg_color_]]
<1>1. Len(chars) \in Nat /\ DOMAIN chars = 1..Len(chars)
  OBVIOUS
<1>2. DOMAIN styled = 1..Len(chars)
  BY <1>1
<1>3. log_text_buffer_' = FoldLeft(DrawCharacter, log_text_buffer_, styled)
  BY DEF EmitChars
<1> HIDE DEF styled
<1>4. Len(styled) = Len(chars)
  BY <1>1, <1>2
<1>5. BufferOK(FoldLeft(DrawCharacter, log_text_buffer_, styled))
  BY <1>1, <1>2, <1>4, DrawsOK
<1> QED BY ONLY <1>3, <1>5 DEF BufferOK

LEMMA SubSeqOne ==
  ASSUME NEW s, NEW m \in Nat
  PROVE  SubSeq(s, m, m) = <<s[m]>>
<1> DEFINE S == {s[m]}
<1>1. \A i \in m..m : s[i] \in S
  OBVIOUS
<1>2. SubSeq(s, m, m) \in Seq(S) /\ Len(SubSeq(s, m, m)) = 1 /\ SubSeq(s, m, m)[1] = s[m]
  <2>1. m \in Int /\ m - m + 1 = 1 /\ m + 1 - 1 = m /\ m <= m /\ 1 \in 1..1
    OBVIOUS
  <2> HIDE DEF S
  <2> QED BY ONLY <1>1, <2>1, SubSeqProperties
<1>3. <<s[m]>> \in Seq(S) /\ Len(<<s[m]>>) = 1 /\ <<s[m]>>[1] = s[m]
  OBVIOUS
<1>4. \A i \in 1..1 : i = 1
  OBVIOUS
<1> HIDE DEF S
<1> QED BY ONLY <1>2, <1>3, <1>4, SeqEqual

(* What is owed after showing what is owed first. *)
LEMMA PrefixOwed ==
  ASSUME NEW x, NEW y
  PROVE  /\ IsPrefix(<<x>>, <<x>>) /\ IsPrefix(<<x>>, <<x, y>>) /\ IsPrefix(<<x, y>>, <<x, y>>)
         /\ SubSeq(<<x>>, 2, 1) = <<>> /\ SubSeq(<<x, y>>, 2, 2) = <<y>>
         /\ SubSeq(<<x, y>>, 3, 2) = <<>>
<1>1. Len(<<x>>) = 1 /\ Len(<<x, y>>) = 2
  OBVIOUS
<1>2. SubSeq(<<x>>, 1, 1) = <<x>> /\ SubSeq(<<x, y>>, 1, 1) = <<x>>
  <2>1. <<x>>[1] = x /\ <<x, y>>[1] = x /\ 1 \in Nat
    OBVIOUS
  <2> QED BY ONLY <2>1, SubSeqOne
<1>3. IsPrefix(<<x>>, <<x>>) /\ IsPrefix(<<x, y>>, <<x, y>>)
  BY ONLY <1>1 DEF IsPrefix
<1>4. IsPrefix(<<x>>, <<x, y>>)
  BY ONLY <1>1, <1>2 DEF IsPrefix
<1>5. SubSeq(<<x>>, 2, 1) = <<>> /\ SubSeq(<<x, y>>, 2, 2) = <<y>> /\ SubSeq(<<x, y>>, 3, 2) = <<>>
  <2>1. <<x, y>>[2] = y /\ 2 \in Nat /\ 1 \in Int /\ 2 \in Int /\ 3 \in Int /\ 1 < 2 /\ 2 < 3
    OBVIOUS
  <2> QED BY ONLY <2>1, SubSeqOne, SubSeqEmpty
<1> QED BY <1>3, <1>4, <1>5

LEMMA ShowsOne ==
  ASSUME NEW c, EmitChars(<<c>>), fg_color_ = fg, bg_color_ = bg
  PROVE  /\ owed = <<Styled(c)>> => owed' = <<>>
         /\ \A d : owed = <<Styled(c), Styled(d)>> => owed' = <<Styled(d)>>
<1>1. owed' = IF IsPrefix(<<Styled(c)>>, owed) THEN SubSeq(owed, 2, Len(owed)) ELSE <<NotWritten>>
  <2> DEFINE styled == [i \in DOMAIN <<c>> |->
                          [ch |-> <<c>>[i], foreground_color |-> fg_color_,
                           background_color |-> bg_color_]]
  <2>1. styled = <<Styled(c)>>
    BY DEF Styled
  <2>2. owed' = IF IsPrefix(styled, owed) THEN SubSeq(owed, Len(<<c>>) + 1, Len(owed))
                ELSE <<NotWritten>>
    BY DEF EmitChars
  <2>3. Len(<<c>>) + 1 = 2
    OBVIOUS
  <2> HIDE DEF styled
  <2> QED BY ONLY <2>1, <2>2, <2>3
<1>2. Len(<<Styled(c)>>) = 1 /\ \A d : Len(<<Styled(c), Styled(d)>>) = 2
  OBVIOUS
<1>3. owed = <<Styled(c)>> => owed' = <<>>
  BY ONLY <1>1, <1>2, PrefixOwed
<1>4. ASSUME NEW d, owed = <<Styled(c), Styled(d)>> PROVE owed' = <<Styled(d)>>
  BY ONLY <1>1, <1>2, <1>4, PrefixOwed
<1> QED BY ONLY <1>3, <1>4

LEMMA ShowsTwo ==
  ASSUME NEW c, NEW d, EmitChars(<<c, d>>), fg_color_ = fg, bg_color_ = bg,
         owed = <<Styled(c), Styled(d)>>
  PROVE  owed' = <<>>
<1> DEFINE styled == [i \in DOMAIN <<c, d>> |->
                        [ch |-> <<c, d>>[i], foreground_color |-> fg_color_,
                         background_color |-> bg_color_]]
<1>1. styled = <<Styled(c), Styled(d)>>
  BY DEF Styled
<1>2. owed' = IF IsPrefix(styled, owed) THEN SubSeq(owed, Len(<<c, d>>) + 1, Len(owed))
              ELSE <<NotWritten>>
  BY DEF EmitChars
<1>3. Len(<<c, d>>) + 1 = 3 /\ Len(<<Styled(c), Styled(d)>>) = 2
  OBVIOUS
<1> HIDE DEF styled
<1>4. owed' = IF IsPrefix(owed, owed) THEN SubSeq(owed, 3, 2) ELSE <<NotWritten>>
  BY <1>1, <1>2, <1>3
<1> QED BY <1>4, PrefixOwed

LEMMA KeptStep ==
  ASSUME Kept, NEW c \in Chars, InNormal(c) \/ InEscape(c) \/ InCsi(c),
         UNCHANGED <<halted, fg, bg, strays>>
  PROVE  Kept'
<1> USE DEF Kept
<1>1. <<c>> \in Seq(Chars) /\ <<>> \in Seq(Chars) /\ Len(<<>>) = 0 /\ VectorSize \in Nat
  BY DecoderAssumption
<1>2. /\ Pushed(buffered_chars_, c) \in Seq(Chars)
      /\ Len(Pushed(buffered_chars_, c)) <= VectorSize
  BY PushedOK
<1>3. halted' \in BOOLEAN /\ strays' \in BOOLEAN
  OBVIOUS
<1>4. BufferOK(log_text_buffer_)'
  <2>1. CASE EmitNothing
    BY <2>1 DEF EmitNothing, BufferOK
  <2>2. CASE EmitChars(<<c>>)
    BY <1>1, <2>2, EmitsOK
  <2>3. CASE EmitChars(Pushed(buffered_chars_, c))
    BY <1>2, <2>3, EmitsOK
  <2> QED BY <2>1, <2>2, <2>3, Zenon DEF InNormal, InEscape, InCsi, Error
<1>5. \/ buffered_chars_' = Pushed(buffered_chars_, c)
      \/ buffered_chars_' = <<>> \/ buffered_chars_' = buffered_chars_
  BY Zenon DEF InNormal, InEscape, InCsi, Error
<1>6. buffered_chars_' \in Seq(Chars) /\ Len(buffered_chars_') <= VectorSize
  <2>1. 0 <= VectorSize
    BY <1>1
  <2> QED BY <1>1, <1>2, <1>5, <2>1
<1> QED BY ONLY <1>3, <1>4, <1>6 DEF Kept

-----------------------------------------------------------------------------
(* The steps outside a sequence. *)
LEMMA Unread ==
  ASSUME UNCHANGED <<cur_val_, params_, fg_color_, bg_color_, fg, bg>>
  PROVE  /\ Level => Level'
         /\ \A text : Reading(text) => Reading(text)'
         /\ \A c : Styled(c)' = Styled(c)
<1>1. Level => Level'
  BY DEF Level
<1>2. ASSUME NEW text, Reading(text) PROVE Reading(text)'
  <2>1. ASSUME NEW all, NEW final, Asked(all, final) PROVE Asked(all, final)'
    BY <2>1 DEF Asked
  <2>2. PICK p \in Params, q \in Params, final \in {"m", "K"}, k \in {0, 1, 2, 3} :
          ReadingAt(text, p, q, final, k)
    BY <1>2, Zenon DEF Reading
  <2>3. ReadingAt(text, p, q, final, k)'
    BY <2>1, <2>2 DEF ReadingAt
  <2> QED BY <2>3, Zenon DEF Reading
<1>3. \A c : Styled(c)' = Styled(c)
  BY DEF Styled
<1> QED BY <1>1, <1>2, <1>3

LEMMA ReadingNext ==
  ASSUME NEW text, Reading(text)', token' = text PROVE Reading(token)'
<1>1. PICK p \in Params, q \in Params, final \in {"m", "K"}, k \in {0, 1, 2, 3} :
        ReadingAt(text, p, q, final, k)'
  BY Zenon DEF Reading
<1>2. ReadingAt(token, p, q, final, k)'
  BY ONLY <1>1, token' = text DEF ReadingAt
<1> QED BY <1>2, Zenon DEF Reading

LEMMA OneTaken ==
  ASSUME NEW c PROVE <<c>> # <<>> /\ Head(<<c>>) = c /\ Tail(<<c>>) = <<>>
OBVIOUS

LEMMA OneStep ==
  ASSUME OneAhead, InNormal(Head(token)) \/ InEscape(Head(token)) \/ InCsi(Head(token)),
         token' = Tail(token), UNCHANGED <<halted, fg, bg, strays>>
  PROVE  Head(token) \in Chars /\ Where'
<1>1. PICK c \in Letters : (strays => c # Csi) /\ token = <<c>> /\ owed = <<Styled(c)>>
  BY Zenon DEF OneAhead
<1>2. Head(token) = c /\ token' = <<>>
  BY <1>1, OneTaken
<1>3. c \in Chars /\ c # Escape
  BY Names
<1>4. Settled /\ Level /\ fg_color_ = fg /\ bg_color_ = bg
  BY DEF OneAhead, Settled, Level
<1>5. CASE state_ = "kNormal"
  <2>1. InNormal(c)
    BY <1>2, <1>5 DEF InEscape, InCsi
  <2>2. EmitChars(<<c>>) /\ UNCHANGED <<buffered_chars_, state_, cur_val_, params_, fg_color_, bg_color_>>
    BY <1>3, <2>1 DEF InNormal
  <2>3. owed' = <<>>
    BY <1>1, <1>4, <2>2, ShowsOne
  <2>4. Settled'
    BY <1>4, <2>2 DEF Settled, Level
  <2> QED BY <1>2, <1>3, <2>3, <2>4 DEF Where, Done
<1>6. CASE state_ # "kNormal"
  <2>1. strays /\ state_ = "kEscape" /\ buffered_chars_ = <<>> /\ c # Csi
    BY <1>1, <1>4, <1>6 DEF Settled
  <2>2. InEscape(c)
    BY <1>2, <2>1 DEF InNormal, InCsi
  <2>3. Pushed(buffered_chars_, c) = <<c>>
    BY <2>1, PushedFits
  <2>4. /\ EmitChars(<<c>>) /\ buffered_chars_' = <<>>
        /\ UNCHANGED <<state_, cur_val_, params_, fg_color_, bg_color_>>
    BY <2>1, <2>2, <2>3 DEF InEscape, Error
  <2>5. owed' = <<>>
    BY <1>1, <1>4, <2>4, ShowsOne
  <2>6. Settled'
    BY <1>4, <2>1, <2>4 DEF Settled, Level
  <2> QED BY <1>2, <1>3, <2>5, <2>6 DEF Where, Done
<1> QED BY <1>5, <1>6

LEMMA StrayStep ==
  ASSUME StrayAhead, InNormal(Head(token)) \/ InEscape(Head(token)) \/ InCsi(Head(token)),
         token' = Tail(token), UNCHANGED <<halted, fg, bg, strays>>
  PROVE  Head(token) \in Chars /\ Where'
<1>1. PICK c \in Letters :
        c # Csi /\ token = <<Escape, c>> /\ owed = <<Styled(Escape), Styled(c)>>
  BY Zenon DEF StrayAhead
<1>2. Head(token) = Escape /\ token' = <<c>>
  <2>1. Head(<<Escape, c>>) = Escape /\ Tail(<<Escape, c>>) = <<c>>
    OBVIOUS
  <2> QED BY <1>1, <2>1
<1>3. Escape \in Chars /\ Escape # Csi
  BY Names
<1>4. /\ strays /\ Level /\ fg_color_ = fg /\ bg_color_ = bg /\ buffered_chars_ = <<>>
      /\ state_ \in {"kNormal", "kEscape"}
  BY DEF StrayAhead, Settled, Level
<1>5. Pushed(buffered_chars_, Escape) = <<Escape>>
  BY <1>4, PushedFits
<1>6. CASE state_ = "kNormal"
  <2>1. InNormal(Escape)
    BY <1>2, <1>6 DEF InEscape, InCsi
  <2>2. /\ buffered_chars_' = <<Escape>> /\ state_' = "kEscape" /\ owed' = owed
        /\ UNCHANGED <<cur_val_, params_, fg_color_, bg_color_>>
    BY <1>5, <2>1 DEF InNormal, EmitNothing
  <2>3. Level' /\ owed' = <<Styled(Escape)', Styled(c)'>>
    BY <1>1, <1>4, <2>2, Unread
  <2>4. StrayHeld'
    BY <1>1, <1>2, <1>4, <2>2, <2>3 DEF StrayHeld
  <2> QED BY <1>2, <1>3, <2>4 DEF Where
<1>7. CASE state_ # "kNormal"
  <2>1. state_ = "kEscape" /\ InEscape(Escape)
    BY <1>2, <1>4, <1>7 DEF InNormal, InCsi
  <2>2. /\ EmitChars(<<Escape>>) /\ buffered_chars_' = <<>>
        /\ UNCHANGED <<state_, cur_val_, params_, fg_color_, bg_color_>>
    BY <1>3, <1>5, <2>1 DEF InEscape, Error
  <2>3. owed' = <<Styled(c)>>
    BY <1>1, <1>4, <2>2, ShowsOne
  <2>4. Level' /\ owed' = <<Styled(c)'>>
    BY <1>4, <2>2, <2>3, Unread
  <2>5. Settled'
    BY <1>4, <2>1, <2>2, <2>4 DEF Settled
  <2>6. OneAhead'
    BY <1>1, <1>2, <2>4, <2>5 DEF OneAhead
  <2> QED BY <1>2, <1>3, <2>6 DEF Where
<1> QED BY <1>6, <1>7

LEMMA HeldStep ==
  ASSUME StrayHeld, InNormal(Head(token)) \/ InEscape(Head(token)) \/ InCsi(Head(token)),
         token' = Tail(token), UNCHANGED <<halted, fg, bg, strays>>
  PROVE  Head(token) \in Chars /\ Where'
<1>1. PICK c \in Letters :
        c # Csi /\ token = <<c>> /\ owed = <<Styled(Escape), Styled(c)>>
  BY Zenon DEF StrayHeld
<1>2. Head(token) = c /\ token' = <<>> /\ c \in Chars
  BY <1>1, OneTaken, Names
<1>3. /\ strays /\ Level /\ fg_color_ = fg /\ bg_color_ = bg
      /\ buffered_chars_ = <<Escape>> /\ state_ = "kEscape"
  BY DEF StrayHeld, Level
<1>4. Pushed(buffered_chars_, c) = <<Escape, c>>
  BY <1>3, PushedFits
<1>5. InEscape(c)
  BY <1>2, <1>3 DEF InNormal, InCsi
<1>6. /\ EmitChars(<<Escape, c>>) /\ buffered_chars_' = <<>>
      /\ UNCHANGED <<state_, cur_val_, params_, fg_color_, bg_color_>>
  BY <1>1, <1>4, <1>5 DEF InEscape, Error
<1>7. owed' = <<>>
  BY <1>1, <1>3, <1>6, ShowsTwo
<1>8. Level'
  BY <1>3, <1>6, Unread
<1>9. Done'
  BY <1>2, <1>3, <1>6, <1>7, <1>8 DEF Done, Settled
<1> QED BY <1>2, <1>9 DEF Where

-----------------------------------------------------------------------------
(* The steps of a sequence. *)
LEMMA AheadStep ==
  ASSUME SequenceAhead, InNormal(Head(token)) \/ InEscape(Head(token)) \/ InCsi(Head(token)),
         token' = Tail(token), UNCHANGED <<halted, fg, bg, strays>>
  PROVE  Head(token) \in Chars /\ Where'
<1>1. PICK text \in Seq(Chars) : token = <<Escape>> \o (<<Csi>> \o text) /\ Reading(text)
  BY Zenon DEF SequenceAhead
<1>2. Head(token) = Escape /\ token' = <<Csi>> \o text /\ Escape \in Chars
  <2>1. <<Csi>> \o text \in Seq(Chars)
    BY Names, Headed
  <2> QED BY <1>1, <2>1, Names, Headed
<1>3. InNormal(Escape) /\ ~strays /\ owed = <<>>
  BY <1>2 DEF SequenceAhead, InEscape, InCsi
<1>4. /\ state_' = "kEscape" /\ owed' = <<>> /\ ~strays'
      /\ UNCHANGED <<cur_val_, params_, fg_color_, bg_color_>>
  BY <1>3 DEF InNormal, EmitNothing
<1>5. Reading(text)'
  BY <1>1, <1>4, Unread
<1>6. SequenceBegun'
  BY <1>2, <1>4, <1>5 DEF SequenceBegun
<1> QED BY <1>2, <1>6 DEF Where

LEMMA BegunStep ==
  ASSUME SequenceBegun, InNormal(Head(token)) \/ InEscape(Head(token)) \/ InCsi(Head(token)),
         token' = Tail(token), UNCHANGED <<halted, fg, bg, strays>>
  PROVE  Head(token) \in Chars /\ Where'
<1>1. PICK text \in Seq(Chars) : token = <<Csi>> \o text /\ Reading(text)
  BY Zenon DEF SequenceBegun
<1>2. Head(token) = Csi /\ token' = text /\ Csi \in Chars
  BY <1>1, Names, Headed
<1>3. InEscape(Csi) /\ ~strays /\ owed = <<>>
  BY <1>2 DEF SequenceBegun, InNormal, InCsi
<1>4. /\ state_' = "kCsi" /\ owed' = <<>> /\ ~strays'
      /\ UNCHANGED <<cur_val_, params_, fg_color_, bg_color_>>
  BY <1>3 DEF InEscape, EmitNothing
<1>5. Reading(text)'
  BY <1>1, <1>4, Unread
<1>6. Reading(token)'
  BY <1>2, <1>5, ReadingNext
<1>7. InSequence'
  BY <1>4, <1>6 DEF InSequence
<1> QED BY <1>2, <1>7 DEF Where

(* A digit of a parameter. *)
LEMMA DigitStep ==
  ASSUME NEW p \in Params, NEW k \in {1, 2, 3}, NEW rest \in Seq(Chars), rest # <<>>,
         token = Coming(k, p, rest), cur_val_ = Before(k, p),
         InCsi(Head(token)), token' = Tail(token)
  PROVE  /\ Head(token) \in Chars
         /\ cur_val_' = Before(k - 1, p) /\ token' = Coming(k - 1, p, rest)
         /\ UNCHANGED <<params_, state_, fg_color_, bg_color_, owed>>
<1> DEFINE n == Before(k - 1, p)
           c == Digit(n)
<1>1. n \in Nat /\ cur_val_ * 10 + (n % 10) = n
  BY BeforeIs
<1>2. token = <<c>> \o Coming(k - 1, p, rest) /\ Coming(k - 1, p, rest) \in Seq(Chars)
  <2>1. k - 1 \in {0, 1, 2, 3}
    OBVIOUS
  <2> QED BY <2>1, ComingIs
<1> HIDE DEF n
<1>3. /\ c \in Chars /\ Contains(kDigits, c)
      /\ SelectInSeq(kDigits, LAMBDA d : d = c) - 1 = n % 10
  BY ONLY <1>1, DigitRead
<1> HIDE DEF c
<1>4. Head(token) = c /\ Tail(token) = Coming(k - 1, p, rest)
  BY ONLY <1>2, <1>3, Headed
<1>5. InCsi(c)
  BY <1>4
<1>6. /\ cur_val_' = cur_val_ * 10 + SelectInSeq(kDigits, LAMBDA d : d = c) - 1
      /\ UNCHANGED <<params_, state_, fg_color_, bg_color_, owed>>
  BY ONLY <1>3, <1>5, Zenon DEF InCsi, EmitNothing
<1> QED BY <1>1, <1>3, <1>4, <1>6 DEF n

(* The last character sets the colours that the parameters ask for. *)
LEMMA FinalStep ==
  ASSUME NEW p \in Params, NEW q \in Params, NEW final \in {"m", "K"}, NEW all,
         all \in {<<p>>, <<q, p>>}, Pushed(params_, cur_val_) = all, Asked(all, final),
         InCsi(final), UNCHANGED <<fg, bg>>
  PROVE  Level' /\ state_' = "kNormal" /\ owed' = owed
<1>1. ~Contains(kDigits, final) /\ final # ";"
  BY NotDigits
<1>2. /\ cur_val_' = 0 /\ owed' = owed
      /\ HandleCsiCommand(final, Pushed(params_, cur_val_))
  BY ONLY <1>1, InCsi(final), Zenon DEF InCsi, EmitNothing
<1>3. HandleCsiCommand(final, all)
  BY <1>2
<1>4. params_' = <<>> /\ state_' = "kNormal"
  BY <1>3 DEF HandleCsiCommand
<1>5. FoldLeft(HandleSetColor, [fg |-> fg_color_, bg |-> bg_color_], all)
        = [fg |-> After(all, 30, 8, fg_color_), bg |-> After(all, 40, 1, bg_color_)]
  <2>1. p \in Nat /\ q \in Nat
    BY DEF Params
  <2> DEFINE Folded(t) == FoldLeft(HandleSetColor, [fg |-> fg_color_, bg |-> bg_color_], t)
             Afters(t) == [fg |-> After(t, 30, 8, fg_color_), bg |-> After(t, 40, 1, bg_color_)]
  <2>2. \A x, y \in Nat : Folded(<<x>>) = Afters(<<x>>) /\ Folded(<<x, y>>) = Afters(<<x, y>>)
    BY ONLY ColoursSet
  <2> HIDE DEF Folded, Afters
  <2>3. Folded(<<p>>) = Afters(<<p>>) /\ Folded(<<q, p>>) = Afters(<<q, p>>)
    BY ONLY <2>1, <2>2
  <2>4. Folded(all) = Afters(all)
    BY ONLY <2>3, all \in {<<p>>, <<q, p>>}
  <2> QED BY ONLY <2>4 DEF Folded, Afters
<1>6. fg_color_' = fg /\ bg_color_' = bg
  <2>1. CASE final = "m"
    <3>1. /\ fg_color_' = After(all, 30, 8, fg_color_)
          /\ bg_color_' = After(all, 40, 1, bg_color_)
      BY <1>3, <1>5, <2>1 DEF HandleCsiCommand, SetColours
    <3> QED BY <2>1, <3>1 DEF Asked
  <2>2. CASE final # "m"
    BY <1>3, <2>2 DEF HandleCsiCommand, Asked
  <2> QED BY <2>1, <2>2
<1> QED BY <1>2, <1>4, <1>6 DEF Level

LEMMA InsideStep ==
  ASSUME InSequence, InNormal(Head(token)) \/ InEscape(Head(token)) \/ InCsi(Head(token)),
         token' = Tail(token), UNCHANGED <<halted, fg, bg, strays>>
  PROVE  Head(token) \in Chars /\ Where'
<1>1. state_ = "kCsi" /\ ~strays /\ owed = <<>> /\ InCsi(Head(token))
  BY DEF InSequence, InNormal, InEscape
<1>2. PICK p \in Params, q \in Params, final \in {"m", "K"}, k \in {0, 1, 2, 3} :
        ReadingAt(token, p, q, final, k)
  BY Zenon DEF InSequence, Reading
<1>3. /\ <<final>> \in Seq(Chars) /\ <<final>> # <<>>
      /\ Second(q, final) \in Seq(Chars) /\ Second(q, final) # <<>>
  BY TextsAre
<1>4. cur_val_ = Before(k, p)
  BY <1>2 DEF ReadingAt
<1>5. CASE k # 0
  <2>1. k \in {1, 2, 3} /\ k - 1 \in {0, 1, 2, 3}
    BY <1>5
  <2>2. PICK rest \in {<<final>>, Second(q, final)} : token = Coming(k, p, rest)
    BY <1>2 DEF ReadingAt
  <2>3. rest \in Seq(Chars) /\ rest # <<>>
    BY <1>3
  <2>4. /\ Head(token) \in Chars
        /\ \A r \in {<<final>>, Second(q, final)} :
             token = Coming(k, p, r) => token' = Coming(k - 1, p, r)
        /\ cur_val_' = Before(k - 1, p)
        /\ UNCHANGED <<params_, state_, fg_color_, bg_color_, owed>>
    <3>1. /\ Head(token) \in Chars /\ cur_val_' = Before(k - 1, p)
          /\ UNCHANGED <<params_, state_, fg_color_, bg_color_, owed>>
      BY <1>1, <1>4, <2>1, <2>2, <2>3, DigitStep
    <3>2. ASSUME NEW r \in {<<final>>, Second(q, final)}, token = Coming(k, p, r)
          PROVE  token' = Coming(k - 1, p, r)
      <4>1. r \in Seq(Chars) /\ r # <<>>
        BY <1>3
      <4> QED BY <1>1, <1>4, <2>1, <3>2, <4>1, DigitStep
    <3> QED BY <3>1, <3>2
  <2>5. \A all : Asked(all, final) => Asked(all, final)'
    BY <2>4 DEF Asked
  <2>6. ReadingAt(token, p, q, final, k - 1)'
    BY <1>2, <2>4, <2>5 DEF ReadingAt
  <2>7. InSequence'
    BY <1>1, <2>1, <2>4, <2>6, Zenon DEF InSequence, Reading
  <2> QED BY <2>4, <2>7, Zenon DEF Where
<1>6. CASE k = 0
  <2>1. cur_val_ = p /\ \A rest : Coming(k, p, rest) = rest
    BY <1>4, <1>6 DEF Before, Coming
  <2>2. CASE params_ = <<>> /\ token = Second(q, final) /\ Asked(<<p, q>>, final)
    <3>1. Head(token) = ";" /\ token' = One(q, final) /\ ";" \in Chars
      BY <2>2, TextsAre DEF Chars
    <3>2. ~Contains(kDigits, ";") /\ InCsi(";")
      BY <1>1, <3>1, NotDigits
    <3>3. /\ params_' = Pushed(params_, cur_val_) /\ cur_val_' = 0 /\ owed' = owed
          /\ UNCHANGED <<state_, fg_color_, bg_color_>>
      BY ONLY <3>2, Zenon DEF InCsi, EmitNothing
    <3>4. params_' = <<p>>
      BY <2>1, <2>2, <3>3, PushedFits
    <3>5. Asked(<<p, q>>, final)'
      BY <2>2, <3>3 DEF Asked
    <3>6. Places(q) \in {0, 1, 2, 3} /\ cur_val_' = Before(Places(q), q)
      BY <3>3, BeforeIs
    <3>7. ReadingAt(token, q, p, final, Places(q))'
      BY <3>1, <3>4, <3>5, <3>6 DEF ReadingAt, One
    <3>8. Reading(token)'
      BY <3>6, <3>7, Zenon DEF Reading
    <3>9. InSequence'
      BY <1>1, <3>3, <3>8 DEF InSequence
    <3> QED BY <3>1, <3>9 DEF Where
  <2>3. ASSUME NEW all, all \in {<<p>>, <<q, p>>}, Pushed(params_, cur_val_) = all,
               Asked(all, final), token = <<final>>
        PROVE  Head(token) \in Chars /\ Where'
    <3>1. Head(token) = final /\ token' = <<>> /\ final \in Chars
      BY <2>3, OneTaken DEF Chars
    <3>2. InCsi(final)
      BY <1>1, <3>1
    <3>3. Level' /\ state_' = "kNormal" /\ owed' = owed
      BY <2>3, <3>2, FinalStep
    <3>4. Done'
      BY <1>1, <3>1, <3>3 DEF Done, Settled
    <3> QED BY <3>1, <3>4 DEF Where
  <2>4. CASE params_ = <<>> /\ token = <<final>> /\ Asked(<<p>>, final)
    <3>1. Pushed(params_, cur_val_) = <<p>>
      BY <2>1, <2>4, PushedFits
    <3> QED BY <2>3, <2>4, <3>1
  <2>5. CASE params_ = <<q>> /\ token = <<final>> /\ Asked(<<q, p>>, final)
    <3>1. Pushed(params_, cur_val_) = <<q, p>>
      BY <2>1, <2>5, PushedFits
    <3> QED BY <2>3, <2>5, <3>1
  <2>6. \/ params_ = <<>> /\ token = <<final>> /\ Asked(<<p>>, final)
        \/ params_ = <<>> /\ token = Second(q, final) /\ Asked(<<p, q>>, final)
        \/ params_ = <<q>> /\ token = <<final>> /\ Asked(<<q, p>>, final)
    BY <1>2, <2>1, Zenon DEF ReadingAt
  <2> QED BY <2>2, <2>4, <2>5, <2>6
<1> QED BY <1>5, <1>6

-----------------------------------------------------------------------------
(* The messages. *)
LEMMA PlainStep ==
  ASSUME Done, NEW c \in Letters, Plain(c), UNCHANGED <<log_text_buffer_, decoder, halted>>
  PROVE  Where'
<1>1. /\ strays => c # Csi
      /\ token' = <<c>> /\ owed' = <<Styled(c)>> /\ UNCHANGED <<fg, bg, strays>>
  BY DEF Plain
<1>2. UNCHANGED <<fg_color_, bg_color_, state_, cur_val_, params_, buffered_chars_>>
  BY DEF decoder
<1>3. Styled(c)' = Styled(c)
  BY <1>1 DEF Styled
<1>4. Settled'
  BY <1>1, <1>2 DEF Done, Settled, Level
<1>5. OneAhead'
  BY <1>1, <1>3, <1>4 DEF OneAhead
<1> QED BY <1>5 DEF Where

LEMMA StrayAsked ==
  ASSUME Done, NEW c \in Letters, Stray(c), UNCHANGED <<log_text_buffer_, decoder, halted>>
  PROVE  Where' /\ strays' \in BOOLEAN
<1>1. /\ c # Csi /\ buffered_chars_ = <<>> /\ token' = <<Escape, c>>
      /\ owed' = <<Styled(Escape), Styled(c)>> /\ strays' = TRUE /\ UNCHANGED <<fg, bg>>
  BY DEF Stray
<1>2. UNCHANGED <<fg_color_, bg_color_, state_, cur_val_, params_, buffered_chars_>>
  BY DEF decoder
<1>3. Styled(c)' = Styled(c) /\ Styled(Escape)' = Styled(Escape)
  BY <1>1 DEF Styled
<1>4. Settled'
  BY <1>1, <1>2 DEF Done, Settled, Level
<1>5. StrayAhead'
  BY <1>1, <1>3, <1>4 DEF StrayAhead
<1> QED BY <1>1, <1>5 DEF Where

(* The colours that a sequence asks for are those of its parameters. *)
LEMMA SelectStep ==
  ASSUME Done, NEW p \in Params, NEW q \in Params, NEW final \in {"m", "K"},
         NEW all, all \in {<<p>>, <<p, q>>}, Select(all, final),
         UNCHANGED <<log_text_buffer_, decoder, halted>>
  PROVE  Where'
<1> DEFINE text == IF all = <<p>> THEN One(p, final) ELSE Two(p, q, final)
<1>1. /\ ~strays /\ token' = Sequence(all, final) /\ UNCHANGED <<owed, strays>>
      /\ fg' = IF final = "m" THEN After(all, 30, 8, fg) ELSE fg
      /\ bg' = IF final = "m" THEN After(all, 40, 1, bg) ELSE bg
  BY DEF Select
<1>2. UNCHANGED <<fg_color_, bg_color_, state_, cur_val_, params_, buffered_chars_>>
  BY DEF decoder
<1>3. /\ cur_val_ = 0 /\ params_ = <<>> /\ fg_color_ = fg /\ bg_color_ = bg
      /\ state_ = "kNormal" /\ owed = <<>>
  BY <1>1 DEF Done, Settled, Level
<1>4. Asked(all, final)'
  BY <1>1, <1>2, <1>3 DEF Asked
<1>5. token' = <<Escape>> \o (<<Csi>> \o text)
  <2>1. <<p>> # <<p, q>>
    OBVIOUS
  <2> QED BY <1>1, <2>1, SequenceIs
<1>6. text \in Seq(Chars)
  BY TextsAre
<1>7. Places(p) \in {0, 1, 2, 3} /\ cur_val_' = Before(Places(p), p)
  BY <1>2, <1>3, BeforeIs
<1>8. ReadingAt(text, p, q, final, Places(p))'
  <2>1. CASE all = <<p>>
    <3>1. text = Coming(Places(p), p, <<final>>) /\ Asked(<<p>>, final)' /\ params_' = <<>>
      BY <1>2, <1>3, <1>4, <2>1 DEF One
    <3> QED BY ONLY <1>7, <3>1 DEF ReadingAt
  <2>2. CASE all = <<p, q>>
    <3>0. <<p>> # <<p, q>>
      OBVIOUS
    <3>1. text = Coming(Places(p), p, Second(q, final)) /\ Asked(<<p, q>>, final)' /\ params_' = <<>>
      BY <1>2, <1>3, <1>4, <2>2, <3>0 DEF Two
    <3> QED BY ONLY <1>7, <3>1 DEF ReadingAt
  <2> QED BY <2>1, <2>2
<1> HIDE DEF text
<1>9. Reading(text)'
  BY <1>7, <1>8, Zenon DEF Reading
<1>10. SequenceAhead'
  BY <1>1, <1>2, <1>3, <1>5, <1>6, <1>9 DEF SequenceAhead
<1> QED BY <1>10 DEF Where

-----------------------------------------------------------------------------
LEMMA WhereEmpty ==
  ASSUME Where, token = <<>> PROVE Done
<1>1. ~OneAhead /\ ~StrayHeld
  BY OneTaken DEF OneAhead, StrayHeld
<1>2. ~StrayAhead
  <2>1. \A c : <<Escape, c>> # <<>>
    OBVIOUS
  <2> QED BY <2>1 DEF StrayAhead
<1>3. ~SequenceAhead
  <2>1. \A text \in Seq(Chars) : <<Csi>> \o text \in Seq(Chars)
    BY Names, Headed
  <2>2. \A text \in Seq(Chars) : <<Escape>> \o (<<Csi>> \o text) # <<>>
    BY <2>1, Names, Headed
  <2> QED BY <2>2 DEF SequenceAhead
<1>4. ~SequenceBegun
  <2>1. \A text \in Seq(Chars) : <<Csi>> \o text # <<>>
    BY Names, Headed
  <2> QED BY <2>1 DEF SequenceBegun
<1>5. ~InSequence
  <2> SUFFICES ASSUME InSequence PROVE FALSE
    OBVIOUS
  <2>1. PICK p \in Params, q \in Params, final \in {"m", "K"}, k \in {0, 1, 2, 3} :
          ReadingAt(token, p, q, final, k)
    BY Zenon DEF InSequence, Reading
  <2>2. PICK rest \in {<<final>>, Second(q, final)} : token = Coming(k, p, rest)
    BY <2>1 DEF ReadingAt
  <2>3. rest \in Seq(Chars) /\ rest # <<>>
    BY TextsAre
  <2>4. Coming(k, p, rest) # <<>>
    BY ONLY <2>3, ComingIs, p \in Params, k \in {0, 1, 2, 3}
  <2> QED BY ONLY <2>2, <2>4, token = <<>>
<1> QED BY <1>1, <1>2, <1>3, <1>4, <1>5 DEF Where

LEMMA HeadIs ==
  ASSUME Where, token # <<>> PROVE Head(token) \in Chars
<1>1. ~Done
  BY DEF Done
<1>2. CASE OneAhead \/ StrayHeld
  BY <1>2, OneTaken, Names DEF OneAhead, StrayHeld
<1>3. CASE StrayAhead
  <2>1. \A c : Head(<<Escape, c>>) = Escape
    OBVIOUS
  <2> QED BY <1>3, <2>1, Names DEF StrayAhead
<1>4. CASE SequenceAhead
  <2>1. PICK text \in Seq(Chars) : token = <<Escape>> \o (<<Csi>> \o text)
    BY <1>4 DEF SequenceAhead
  <2>2. <<Csi>> \o text \in Seq(Chars)
    BY Names, Headed
  <2> QED BY <2>1, <2>2, Names, Headed
<1>5. CASE SequenceBegun
  <2>1. PICK text \in Seq(Chars) : token = <<Csi>> \o text
    BY <1>5 DEF SequenceBegun
  <2> QED BY <2>1, Names, Headed
<1>6. CASE InSequence
  <2>1. PICK p \in Params, q \in Params, final \in {"m", "K"}, k \in {0, 1, 2, 3} :
          ReadingAt(token, p, q, final, k)
    BY <1>6, Zenon DEF InSequence, Reading
  <2>2. PICK rest \in {<<final>>, Second(q, final)} : token = Coming(k, p, rest)
    BY <2>1 DEF ReadingAt
  <2>3. rest \in Seq(Chars) /\ rest # <<>>
    BY TextsAre
  <2>4. token \in Seq(Chars)
    BY ONLY <2>2, <2>3, ComingIs, p \in Params, k \in {0, 1, 2, 3}
  <2> QED BY ONLY <2>4, token # <<>>
<1> QED BY <1>1, <1>2, <1>3, <1>4, <1>5, <1>6 DEF Where

LEMMA DecoderInit == Init => DecoderIInv
<1> SUFFICES ASSUME Init PROVE DecoderIInv
  OBVIOUS
<1>1. BufferOK(log_text_buffer_)
  <2>1. EmptyBuffer.cursor \in [x : 0..kNumCharsWide, y : 0..kMaxRowIdx]
    BY BufferSizes DEF EmptyBuffer
  <2>2. /\ DOMAIN EmptyBuffer.rows = 0..kMaxRowIdx
        /\ \A y \in 0..kMaxRowIdx : DOMAIN EmptyBuffer.rows[y] = 0..kMaxColIdx
    BY DEF EmptyBuffer, ClearedRow
  <2>3. EmptyBuffer = [cursor |-> EmptyBuffer.cursor, rows |-> EmptyBuffer.rows]
    BY DEF EmptyBuffer
  <2>4. log_text_buffer_ = EmptyBuffer
    BY DEF Init
  <2> QED BY ONLY <2>1, <2>2, <2>3, <2>4, Zenon DEF BufferOK
<1>2. buffered_chars_ = <<>> /\ halted = FALSE /\ strays = FALSE
  BY DEF Init
<1>3. <<>> \in Seq(Chars) /\ Len(<<>>) <= VectorSize
  BY DecoderAssumption, EmptySeq
<1>4. Kept
  BY <1>1, <1>2, <1>3 DEF Kept
<1>5. Done
  BY DEF Init, Done, Settled, Level
<1> QED BY <1>4, <1>5 DEF DecoderIInv, Where

LEMMA KeptSame ==
  ASSUME Kept, UNCHANGED <<log_text_buffer_, buffered_chars_, halted>>, strays' \in BOOLEAN
  PROVE  Kept'
BY DEF Kept, BufferOK

LEMMA MessageStep == DecoderIInv /\ LogCallback => DecoderIInv'
<1> SUFFICES ASSUME DecoderIInv, LogCallback PROVE DecoderIInv'
  OBVIOUS
<1>1. token = <<>> /\ UNCHANGED <<log_text_buffer_, decoder, halted>>
  BY DEF LogCallback
<1>2. Done
  BY <1>1, WhereEmpty DEF DecoderIInv
<1>3. Colours \subseteq Params /\ Unknown \subseteq Params /\ "m" \in {"m", "K"}
  BY DecoderAssumption DEF Params
<1>4. Where' /\ strays' \in BOOLEAN
  <2>1. ASSUME NEW c \in Glyphs \cup {Newline}, Plain(c) PROVE Where' /\ strays' \in BOOLEAN
    <3>1. c \in Letters
      BY DEF Letters
    <3>2. strays' = strays /\ strays \in BOOLEAN
      BY <2>1 DEF Plain, DecoderIInv, Kept
    <3> QED BY <1>1, <1>2, <2>1, <3>1, <3>2, PlainStep
  <2>2. ASSUME NEW p \in Params, NEW q \in Params, NEW final \in {"m", "K"},
               NEW all \in {<<p>>, <<p, q>>}, Select(all, final)
        PROVE  Where' /\ strays' \in BOOLEAN
    <3>1. strays' = strays /\ strays \in BOOLEAN
      BY <2>2 DEF Select, DecoderIInv, Kept
    <3> QED BY <1>1, <1>2, <2>2, <3>1, SelectStep
  <2>3. ASSUME NEW p \in Colours, NEW final \in {"m", "K"}, Select(<<p>>, final)
        PROVE  Where' /\ strays' \in BOOLEAN
    <3>1. p \in Params /\ <<p>> \in {<<p>>, <<p, p>>}
      BY <1>3
    <3> QED BY <2>2, <2>3, <3>1
  <2>4. ASSUME NEW p \in Colours, NEW q \in Unknown, Select(<<p, q>>, "m")
        PROVE  Where' /\ strays' \in BOOLEAN
    <3>1. p \in Params /\ q \in Params /\ <<p, q>> \in {<<p>>, <<p, q>>}
      BY <1>3
    <3> QED BY <1>3, <2>2, <2>4, <3>1
  <2>5. ASSUME NEW c \in Glyphs, Stray(c) PROVE Where' /\ strays' \in BOOLEAN
    <3>1. c \in Letters
      BY DEF Letters
    <3> QED BY <1>1, <1>2, <2>5, <3>1, StrayAsked
  <2> QED BY <2>1, <2>3, <2>4, <2>5 DEF LogCallback
<1>5. Kept'
  <2>1. UNCHANGED <<log_text_buffer_, buffered_chars_, halted>>
    BY <1>1 DEF decoder
  <2> QED BY <1>4, <2>1, KeptSame DEF DecoderIInv
<1> QED BY <1>4, <1>5 DEF DecoderIInv

LEMMA WhereSame ==
  ASSUME Where, UNCHANGED <<token, owed, fg, bg, strays>>,
         UNCHANGED <<fg_color_, bg_color_, state_, cur_val_, params_, buffered_chars_>>
  PROVE  Where'
<1>1. /\ Level => Level'
      /\ \A text : Reading(text) => Reading(text)'
      /\ \A c : Styled(c)' = Styled(c)
  BY Unread
<1>2. Settled => Settled'
  BY <1>1 DEF Settled
<1>3. CASE Done \/ OneAhead
  BY <1>1, <1>2, <1>3 DEF Done, OneAhead, Where
<1>4. CASE StrayAhead
  BY <1>1, <1>2, <1>4 DEF StrayAhead, Where
<1>5. CASE StrayHeld
  BY <1>1, <1>5 DEF StrayHeld, Where
<1>6. CASE SequenceAhead
  BY <1>1, <1>6 DEF SequenceAhead, Where
<1>7. CASE SequenceBegun
  BY <1>1, <1>7 DEF SequenceBegun, Where
<1>8. CASE InSequence
  <2>1. Reading(token)'
    <3>1. PICK text : text = token /\ Reading(text)'
      BY <1>1, <1>8 DEF InSequence
    <3>2. token' = text
      BY <3>1
    <3> QED BY <3>1, <3>2, ReadingNext
  <2> QED BY <1>8, <2>1 DEF InSequence, Where
<1> QED BY <1>3, <1>4, <1>5, <1>6, <1>7, <1>8 DEF Where

LEMMA CharacterStep == DecoderIInv /\ ProcessChar => DecoderIInv'
<1> SUFFICES ASSUME DecoderIInv, ProcessChar PROVE DecoderIInv'
  OBVIOUS
<1> DEFINE c == Head(token)
<1>1. Kept /\ Where /\ token # <<>>
  BY DEF DecoderIInv, ProcessChar
<1>2. CASE /\ InNormal(c) \/ InEscape(c) \/ InCsi(c)
           /\ token' = Tail(token) /\ UNCHANGED <<halted, fg, bg, strays>>
  <2>1. ~Done
    BY <1>1 DEF Done
  <2>2. c \in Chars /\ Where'
    BY <1>1, <1>2, <2>1, OneStep, StrayStep, HeldStep, AheadStep, BegunStep, InsideStep DEF Where
  <2> HIDE DEF c
  <2>3. Kept'
    BY <1>1, <1>2, <2>2, KeptStep
  <2> QED BY <2>2, <2>3 DEF DecoderIInv
<1>3. CASE halted' = TRUE /\ UNCHANGED <<log_text_buffer_, decoder, token, history>>
  <2>1. /\ UNCHANGED <<token, owed, fg, bg, strays>> /\ log_text_buffer_' = log_text_buffer_
        /\ UNCHANGED <<fg_color_, bg_color_, state_, cur_val_, params_, buffered_chars_>>
    BY <1>3 DEF decoder, history
  <2>2. Where'
    BY <1>1, <2>1, WhereSame
  <2>3. Kept'
    BY <1>1, <1>3, <2>1 DEF Kept, BufferOK
  <2> QED BY <2>2, <2>3 DEF DecoderIInv
<1> QED BY <1>2, <1>3, Zenon DEF ProcessChar

LEMMA DecoderStep == DecoderIInv /\ [Next]_vars => DecoderIInv'
<1> SUFFICES ASSUME DecoderIInv, UNCHANGED vars PROVE DecoderIInv'
  BY MessageStep, CharacterStep DEF Next
<1>1. /\ UNCHANGED <<token, owed, fg, bg, strays>> /\ UNCHANGED <<log_text_buffer_, halted>>
      /\ UNCHANGED <<fg_color_, bg_color_, state_, cur_val_, params_, buffered_chars_>>
  BY DEF vars, decoder, history
<1>2. Kept' /\ Where'
  <2>1. Kept /\ Where /\ strays' \in BOOLEAN
    BY <1>1 DEF DecoderIInv, Kept
  <2> QED BY <1>1, <2>1, KeptSame, WhereSame
<1> QED BY <1>2 DEF DecoderIInv

(* Nothing that is owed is a character that was not written. *)
LEMMA OwedIsWritten == Where => owed # <<NotWritten>>
<1> SUFFICES ASSUME Where PROVE owed # <<NotWritten>>
  OBVIOUS
<1>1. NotWritten.ch = Wrong /\ \A c : Styled(c).ch = c
  BY DEF NotWritten, Cleared, Styled
<1>2. \A c \in Letters : Styled(c) # NotWritten
  BY <1>1, Names
<1>3. \A x, y : <<x, y>> # <<NotWritten>> /\ <<>> # <<NotWritten>> /\ (x # NotWritten => <<x>> # <<NotWritten>>)
  OBVIOUS
<1>4. \/ owed = <<>> \/ \E c \in Letters : owed = <<Styled(c)>>
      \/ \E c \in Letters : owed = <<Styled(Escape), Styled(c)>>
  BY Zenon DEF Where, Done, OneAhead, StrayAhead, StrayHeld, SequenceAhead, SequenceBegun, InSequence
<1> QED BY <1>2, <1>3, <1>4

LEMMA DecoderHolds == DecoderIInv => DecoderInv
<1> SUFFICES ASSUME DecoderIInv PROVE DecoderInv
  OBVIOUS
<1>1. Kept /\ Where
  BY DEF DecoderIInv
<1>2. ShowsTheText
  <2>1. token = <<>> => owed = <<>>
    BY <1>1, WhereEmpty DEF Done
  <2> QED BY <1>1, <2>1, OwedIsWritten DEF ShowsTheText
<1>3. ColoursAsAsked
  BY <1>1, WhereEmpty DEF ColoursAsAsked, Done, Settled, Level
<1>4. state_ \in {"kNormal", "kEscape", "kCsi"}
  BY <1>1 DEF Where, Done, OneAhead, StrayAhead, StrayHeld, SequenceAhead, SequenceBegun,
              InSequence, Settled
<1>5. params_ = <<>> \/ \E q : params_ = <<q>>
  <2>1. \A text : Reading(text) => params_ = <<>> \/ \E q : params_ = <<q>>
    BY Zenon DEF Reading, ReadingAt
  <2> QED BY <1>1, <2>1, Zenon DEF Where, Done, OneAhead, StrayAhead, StrayHeld, SequenceAhead,
              SequenceBegun, InSequence, Settled, Level
<1>6. Len(params_) <= VectorSize
  <2>1. \A q : Len(<<q>>) = 1 /\ Len(<<>>) = 0
    OBVIOUS
  <2>2. VectorSize \in Nat /\ 1 < VectorSize
    BY DecoderAssumption
  <2>3. Len(params_) = 0 \/ Len(params_) = 1
    BY ONLY <1>5, <2>1
  <2> QED BY ONLY <2>2, <2>3
<1>7. TypeOK
  BY <1>1, <1>4, <1>6 DEF TypeOK, Kept, BufferOK
<1> QED BY <1>2, <1>3, <1>7 DEF DecoderInv

(* The log window shows the text of the messages, in order and in the       *)
(* colours that their sequences ask for, and nothing of a sequence; the     *)
(* cursor and the decoder's vectors stay within their bounds.               *)
THEOREM LogIsShown == Spec => []DecoderInv
<1>1. Init => DecoderIInv
  BY DecoderInit
<1>2. DecoderIInv /\ [Next]_vars => DecoderIInv'
  BY DecoderStep
<1>3. DecoderIInv => DecoderInv
  BY DecoderHolds
<1> QED BY <1>1, <1>2, <1>3, PTL DEF Spec

-----------------------------------------------------------------------------
(* The refinement.  The rows down to the cursor hold the lines, each from    *)
(* its first column on, and the rows below are cleared.                      *)
FilledTo(row, n) ==
  \A x \in 0..kMaxColIdx : row[x] # Cleared <=> x < n

GridOK(b) ==
  /\ BufferOK(b)
  /\ FilledTo(b.rows[b.cursor.y], b.cursor.x)
  /\ \A y \in 0..kMaxRowIdx : \E n \in 0..kNumCharsWide : FilledTo(b.rows[y], n)
  /\ \A y \in 0..kMaxRowIdx : y > b.cursor.y => b.rows[y] = ClearedRow

(* Shown, of any buffer. *)
LineOf(row) ==
  LET used == {x \in 0..kMaxColIdx : row[x] # Cleared}
      n == CHOOSE n \in 0..kNumCharsWide : used = 0..(n - 1)
  IN  [i \in 1..n |-> row[i - 1]]
ShownOf(b) ==
  LET seen == {y \in 0..kMaxRowIdx : \/ y <= b.cursor.y
                                     \/ b.rows[y] # ClearedRow}
  IN  [i \in 1..Cardinality(seen) |-> LineOf(b.rows[i - 1])]

LEMMA ShownIsOf == Shown = ShownOf(log_text_buffer_)
BY DEF Shown, ShownOf, Line, LineOf, GetChar

LEMMA LineIs ==
  ASSUME NEW row, NEW n \in 0..kNumCharsWide, FilledTo(row, n)
  PROVE  LineOf(row) = [i \in 1..n |-> row[i - 1]]
<1> DEFINE used == {x \in 0..kMaxColIdx : row[x] # Cleared}
           m == CHOOSE k \in 0..kNumCharsWide : used = 0..(k - 1)
<1>1. used = 0..(n - 1)
  <2>1. \A x : x \in used <=> x \in 0..kMaxColIdx /\ x < n
    BY DEF FilledTo
  <2>2. \A x : x \in 0..kMaxColIdx /\ x < n <=> x \in 0..(n - 1)
    BY BufferSizes
  <2> HIDE DEF used
  <2> QED BY ONLY <2>1, <2>2
<1>2. m \in 0..kNumCharsWide /\ used = 0..(m - 1)
  BY <1>1
<1>3. LineOf(row) = [i \in 1..m |-> row[i - 1]]
  BY DEF LineOf
<1> HIDE DEF used, m
<1>4. m = n
  <2>1. m \in Int /\ n \in Int /\ 0 <= m /\ 0 <= n /\ 0..(m - 1) = 0..(n - 1)
    BY <1>1, <1>2, BufferSizes
  <2>2. ~(m < n)
    <3>1. m < n => m \in 0..(n - 1) /\ m \notin 0..(m - 1)
      BY ONLY <2>1
    <3> QED BY ONLY <2>1, <3>1
  <2>3. ~(n < m)
    <3>1. n < m => n \in 0..(m - 1) /\ n \notin 0..(n - 1)
      BY ONLY <2>1
    <3> QED BY ONLY <2>1, <3>1
  <2> QED BY ONLY <2>1, <2>2, <2>3
<1> QED BY ONLY <1>3, <1>4

LEMMA ShownIs ==
  ASSUME NEW b, GridOK(b)
  PROVE  ShownOf(b) = [i \in 1..b.cursor.y + 1 |-> LineOf(b.rows[i - 1])]
<1> DEFINE seen == {y \in 0..kMaxRowIdx : \/ y <= b.cursor.y
                                          \/ b.rows[y] # ClearedRow}
           c == b.cursor.y
<1>1. c \in 0..kMaxRowIdx /\ \A y \in 0..kMaxRowIdx : y > c => b.rows[y] = ClearedRow
  BY DEF GridOK, BufferOK
<1>2. seen = 0..c
  <2>1. \A y : y \in seen <=> y \in 0..kMaxRowIdx /\ (y <= c \/ b.rows[y] # ClearedRow)
    OBVIOUS
  <2> HIDE DEF seen, c
  <2>2. \A y : y \in 0..kMaxRowIdx /\ y <= c <=> y \in 0..c
    BY ONLY <1>1, BufferSizes
  <2>3. \A y \in 0..kMaxRowIdx : ~(y <= c) => y > c
    BY ONLY <1>1, BufferSizes
  <2>4. \A y : y \in seen <=> y \in 0..c
    BY ONLY <1>1, <2>1, <2>2, <2>3
  <2> QED BY ONLY <2>4
<1>3. Cardinality(0..c) = c + 1
  <2>1. c \in Int /\ 0 \in Int /\ 0 <= c
    BY <1>1, BufferSizes
  <2> HIDE DEF c
  <2> QED BY ONLY <2>1, FS_Interval
<1>4. ShownOf(b) = [i \in 1..Cardinality(seen) |-> LineOf(b.rows[i - 1])]
  BY DEF ShownOf
<1> HIDE DEF seen, c
<1> QED BY ONLY <1>2, <1>3, <1>4 DEF c

(* Sequences as functions. *)
LEMMA AppendIs ==
  ASSUME NEW s, NEW n \in Nat, s = [i \in 1..n |-> s[i]], NEW e
  PROVE  /\ Len(s) = n
         /\ Append(s, e) = [i \in 1..n + 1 |-> IF i = n + 1 THEN e ELSE s[i]]
         /\ Len(Append(s, e)) = n + 1
         /\ Tail(Append(s, e)) = [i \in 1..n |-> Append(s, e)[i + 1]]
<1> DEFINE T == {s[i] : i \in 1..n} \cup {e}
           u == Append(s, e)
<1>1. s \in Seq(T) /\ Len(s) = n /\ e \in T
  <2>1. s \in [1..n -> T]
    OBVIOUS
  <2>2. Seq(T) = UNION {[1..m -> T] : m \in Nat} /\ e \in T
    BY SeqDef
  <2>3. DOMAIN s = 1..n
    OBVIOUS
  <2> HIDE DEF T
  <2>4. s \in Seq(T)
    BY ONLY <2>1, <2>2, n \in Nat
  <2>5. Len(s) \in Nat /\ DOMAIN s = 1..Len(s)
    BY ONLY <2>4, LenProperties
  <2>6. Len(s) = n
    BY ONLY <2>3, <2>5, n \in Nat
  <2> QED BY <2>2, <2>4, <2>6
<1> HIDE DEF T
<1>2. /\ u \in Seq(T) /\ u # <<>> /\ Len(u) = n + 1
      /\ \A i \in 1..n : u[i] = s[i]
      /\ u[n + 1] = e
  BY ONLY <1>1, AppendProperties
<1> HIDE DEF u
<1>3. u = [i \in 1..n + 1 |-> IF i = n + 1 THEN e ELSE s[i]]
  <2>1. u = [i \in 1..n + 1 |-> u[i]]
    BY <1>2
  <2>2. \A i \in 1..n + 1 : u[i] = IF i = n + 1 THEN e ELSE s[i]
    BY <1>2
  <2> QED BY ONLY <2>1, <2>2
<1>4. Tail(u) = [i \in 1..n |-> u[i + 1]]
  <2>1. /\ Tail(u) \in Seq(T) /\ Len(Tail(u)) = n
        /\ \A i \in 1..n : Tail(u)[i] = u[i + 1]
    BY <1>2
  <2>2. Tail(u) = [i \in 1..n |-> Tail(u)[i]]
    <3>1. Tail(u) \in [1..n -> T]
      BY ONLY <2>1, LenProperties
    <3> QED BY ONLY <3>1
  <2> QED BY ONLY <2>1, <2>2
<1> QED BY <1>1, <1>2, <1>3, <1>4 DEF u

(* Drawing a character does to the window what writing it does. *)
LEMMA NoLine ==
  /\ FilledTo(ClearedRow, 0) /\ LineOf(ClearedRow) = <<>>
<1>1. FilledTo(ClearedRow, 0)
  BY BufferSizes DEF FilledTo, ClearedRow
<1>2. 0 \in 0..kNumCharsWide
  BY BufferSizes
<1>3. LineOf(ClearedRow) = [i \in 1..0 |-> ClearedRow[i - 1]]
  BY ONLY <1>1, <1>2, LineIs
<1>4. \A f : [i \in 1..0 |-> f[i - 1]] = <<>>
  OBVIOUS
<1> QED BY ONLY <1>1, <1>3, <1>4

LEMMA NewlineShown ==
  ASSUME NEW b, GridOK(b), NEW ch, ch.ch = Newline
  PROVE  /\ GridOK(InsertNewline(b))
         /\ ShownOf(InsertNewline(b)) = LogWindow!Written(ShownOf(b), ch)
<1> DEFINE d == InsertNewline(b)
           c == b.cursor.y
           S == ShownOf(b)
           more == Append(S, <<>>)
<1>1. /\ b = [cursor |-> b.cursor, rows |-> b.rows] /\ c \in 0..kMaxRowIdx
      /\ \A y \in 0..kMaxRowIdx : \E n \in 0..kNumCharsWide : FilledTo(b.rows[y], n)
      /\ \A y \in 0..kMaxRowIdx : y > c => b.rows[y] = ClearedRow
  BY DEF GridOK, BufferOK
<1>2. BufferOK(d)
  BY NewlineOK DEF GridOK
<1>3. S = [i \in 1..c + 1 |-> LineOf(b.rows[i - 1])]
  BY ShownIs
<1>4. LogWindow!Written(S, ch) = IF Len(more) > kNumRows THEN Tail(more) ELSE more
  BY DEF LogWindow!Written, IsNewline
<1>5. /\ Len(more) = c + 2
      /\ more = [i \in 1..c + 2 |-> IF i = c + 2 THEN <<>> ELSE LineOf(b.rows[i - 1])]
      /\ Tail(more) = [i \in 1..c + 1 |-> more[i + 1]]
  <2>1. c + 1 \in Nat /\ c + 1 + 1 = c + 2
    BY <1>1, BufferSizes
  <2>2. \A i \in 1..c + 1 : S[i] = LineOf(b.rows[i - 1])
    BY <1>3
  <2>3. S = [i \in 1..c + 1 |-> S[i]]
    BY <1>3
  <2> HIDE DEF S, c
  <2>4. /\ more = [i \in 1..c + 2 |-> IF i = c + 2 THEN <<>> ELSE S[i]]
        /\ Len(more) = c + 2 /\ Tail(more) = [i \in 1..c + 1 |-> more[i + 1]]
    BY ONLY <2>1, <2>3, AppendIs
  <2>5. \A i \in 1..c + 2 : i # c + 2 => S[i] = LineOf(b.rows[i - 1])
    BY ONLY <2>1, <2>2
  <2> QED BY ONLY <2>4, <2>5
<1> HIDE DEF more, S
<1>6. CASE c = kMaxRowIdx
  <2>1. /\ d.cursor.x = 0 /\ d.cursor.y = c /\ d.rows[c] = ClearedRow
        /\ \A y \in 0..kMaxRowIdx : y # c => y + 1 \in 0..kMaxRowIdx /\ d.rows[y] = b.rows[y + 1]
    <3>1. d = [cursor |-> [b.cursor EXCEPT !.x = 0], rows |-> ScrollUp(b.rows)]
      BY <1>6 DEF InsertNewline
    <3>2. d.cursor.x = 0 /\ d.cursor.y = c /\ d.rows = ScrollUp(b.rows)
      BY <3>1 DEF GridOK, BufferOK
    <3>3. ScrollUp(b.rows)[c] = ClearedRow
      BY <1>1, <1>6, BufferSizes DEF ScrollUp
    <3>4. \A y \in 0..kMaxRowIdx :
            y # c => y + 1 \in 0..kMaxRowIdx /\ ScrollUp(b.rows)[y] = b.rows[y + 1]
      BY <1>1, <1>6, BufferSizes DEF ScrollUp
    <3> QED BY ONLY <3>2, <3>3, <3>4
  <2> HIDE DEF d, c
  <2>2. GridOK(d)
    <3>1. 0 \in 0..kNumCharsWide /\ \A y \in 0..kMaxRowIdx : ~(y > kMaxRowIdx)
      BY BufferSizes
    <3> QED BY ONLY <1>1, <1>2, <1>6, <2>1, <3>1, NoLine DEF GridOK
  <2>3. ShownOf(d) = [i \in 1..c + 1 |-> LineOf(d.rows[i - 1])]
    BY ONLY <2>1, <2>2, ShownIs
  <2>4. ASSUME NEW i \in 1..c + 1 PROVE LineOf(d.rows[i - 1]) = more[i + 1]
    <3>1. i + 1 \in 1..c + 2 /\ i - 1 \in 0..kMaxRowIdx /\ (i + 1 = c + 2 <=> i - 1 = c)
          /\ i + 1 - 1 = i /\ i - 1 + 1 = i
      BY <1>1, <1>6, BufferSizes
    <3>2. more[i + 1] = IF i - 1 = c THEN <<>> ELSE LineOf(b.rows[i])
      BY ONLY <1>5, <3>1
    <3> QED BY ONLY <2>1, <3>1, <3>2, NoLine
  <2>5. ShownOf(d) = Tail(more) /\ Len(more) > kNumRows
    <3>1. c + 2 > kNumRows
      BY <1>6, BufferSizes
    <3>2. Tail(more) = [i \in 1..c + 1 |-> more[i + 1]]
      BY ONLY <1>5
    <3>3. ShownOf(d) = [i \in 1..c + 1 |-> more[i + 1]]
      BY ONLY <2>3, <2>4
    <3>4. Len(more) = c + 2
      BY ONLY <1>5
    <3> QED BY ONLY <3>1, <3>2, <3>3, <3>4
  <2> QED BY ONLY <1>4, <2>2, <2>5 DEF d, S
<1>7. CASE c # kMaxRowIdx
  <2>1. d.cursor.x = 0 /\ d.cursor.y = c + 1 /\ d.rows = b.rows
    <3>1. d = [b EXCEPT !.cursor = [x |-> 0, y |-> b.cursor.y + 1]]
      BY <1>7 DEF InsertNewline
    <3> QED BY <1>1, <3>1
  <2>2. c + 1 \in 0..kMaxRowIdx /\ c + 1 > c /\ \A y \in 0..kMaxRowIdx : y > c + 1 => y > c
    BY <1>1, <1>7, BufferSizes
  <2> HIDE DEF d, c
  <2>3. b.rows[c + 1] = ClearedRow
    BY ONLY <1>1, <2>2
  <2>4. GridOK(d)
    BY ONLY <1>1, <1>2, <2>1, <2>2, <2>3, NoLine DEF GridOK
  <2>5. ShownOf(d) = [i \in 1..c + 2 |-> LineOf(b.rows[i - 1])]
    <3>1. c + 1 + 1 = c + 2
      BY <1>1, BufferSizes
    <3> QED BY ONLY <2>1, <2>4, <3>1, ShownIs
  <2>6. ShownOf(d) = more
    <3>1. \A i \in 1..c + 2 : i = c + 2 => i - 1 = c + 1
      BY <1>1, BufferSizes
    <3>2. \A i \in 1..c + 2 :
            LineOf(b.rows[i - 1]) = IF i = c + 2 THEN <<>> ELSE LineOf(b.rows[i - 1])
      BY ONLY <2>3, <3>1, NoLine
    <3> QED BY ONLY <1>5, <2>5, <3>2
  <2>7. ~(Len(more) > kNumRows)
    BY <1>1, <1>5, <1>7, BufferSizes
  <2> QED BY ONLY <1>4, <2>4, <2>6, <2>7 DEF d, S
<1> QED BY <1>6, <1>7

LEMMA StoreShown ==
  ASSUME NEW b, GridOK(b), NEW ch, ch.ch # Newline, ch # Cleared
  PROVE  /\ GridOK(Store(b, ch))
         /\ ShownOf(Store(b, ch)) = LogWindow!Written(ShownOf(b), ch)
<1> DEFINE d == Store(b, ch)
           c == b.cursor.y
           n == b.cursor.x
           S == ShownOf(b)
<1>1. /\ b = [cursor |-> b.cursor, rows |-> b.rows] /\ c \in 0..kMaxRowIdx
      /\ n \in 0..kNumCharsWide /\ FilledTo(b.rows[c], n)
      /\ b.cursor = [x |-> n, y |-> c]
      /\ DOMAIN b.rows = 0..kMaxRowIdx
      /\ \A y \in 0..kMaxRowIdx : DOMAIN b.rows[y] = 0..kMaxColIdx
      /\ \A y \in 0..kMaxRowIdx : \E k \in 0..kNumCharsWide : FilledTo(b.rows[y], k)
      /\ \A y \in 0..kMaxRowIdx : y > c => b.rows[y] = ClearedRow
  BY DEF GridOK, BufferOK
<1>2. BufferOK(d)
  BY StoreOK DEF GridOK
<1>3. S = [i \in 1..c + 1 |-> LineOf(b.rows[i - 1])]
  BY ShownIs
<1> DEFINE row == b.rows[c]
           line == LineOf(row)
<1>4. Len(S) = c + 1 /\ S[c + 1] = line /\ S = [i \in 1..c + 1 |-> S[i]]
  <2>1. c \in Nat /\ c + 1 \in Nat
    BY <1>1, BufferSizes
  <2> HIDE DEF c, S
  <2>2. S = [i \in 1..c + 1 |-> S[i]] /\ S[c + 1] = LineOf(b.rows[c])
    <3>1. \A i \in 1..c + 1 : S[i] = LineOf(b.rows[i - 1])
      BY ONLY <1>3
    <3>2. S = [i \in 1..c + 1 |-> S[i]]
      BY ONLY <1>3
    <3> DEFINE k == c + 1
    <3>3. k \in 1..c + 1 /\ k - 1 = c
      BY ONLY <2>1
    <3> HIDE DEF k
    <3>4. S[k] = LineOf(b.rows[k - 1])
      BY ONLY <3>1, <3>3
    <3> QED BY ONLY <3>2, <3>3, <3>4 DEF k
  <2>3. Len(S) = c + 1
    BY ONLY <2>1, <2>2, AppendIs
  <2> QED BY ONLY <2>2, <2>3
<1>5. Len(line) = n /\ line = [i \in 1..n |-> row[i - 1]] /\ line = [i \in 1..n |-> line[i]]
  <2> HIDE DEF row, n
  <2>1. line = [i \in 1..n |-> row[i - 1]]
    BY ONLY <1>1, LineIs DEF row
  <2> HIDE DEF line
  <2>2. n \in Nat
    BY <1>1, BufferSizes
  <2>3. line = [i \in 1..n |-> line[i]]
    BY ONLY <2>1
  <2> QED BY ONLY <2>1, <2>2, <2>3, AppendIs
<1>6. LogWindow!Written(S, ch)
        = [S EXCEPT ![Len(S)] = IF Len(S[Len(S)]) < kNumCharsWide THEN Append(S[Len(S)], ch)
                                ELSE S[Len(S)]]
  BY DEF LogWindow!Written, IsNewline
<1> HIDE DEF S, line
<1>7. LogWindow!Written(S, ch)
        = [S EXCEPT ![c + 1] = IF n < kNumCharsWide THEN Append(line, ch) ELSE line]
  BY ONLY <1>4, <1>5, <1>6
<1>8. CASE n > kMaxColIdx
  <2>1. d = b
    BY <1>8 DEF Store
  <2>2. ~(n < kNumCharsWide)
    BY <1>1, <1>8, BufferSizes
  <2> HIDE DEF d, c, n
  <2>3. LogWindow!Written(S, ch) = [S EXCEPT ![c + 1] = line]
    BY ONLY <1>7, <2>2
  <2>4. [S EXCEPT ![c + 1] = line] = S
    BY ONLY <1>4
  <2> QED BY ONLY <2>1, <2>3, <2>4, GridOK(b) DEF d, S
<1>9. CASE ~(n > kMaxColIdx)
  <2>0. n \in 0..kMaxColIdx /\ n + 1 \in 0..kNumCharsWide /\ n < kNumCharsWide /\ n \in Nat
    BY <1>1, <1>9, BufferSizes
  <2> DEFINE new == d.rows[c]
  <2>1. /\ d.cursor.x = n + 1 /\ d.cursor.y = c
        /\ DOMAIN d.rows = 0..kMaxRowIdx
        /\ \A y \in 0..kMaxRowIdx : y # c => d.rows[y] = b.rows[y]
        /\ new = [b.rows[c] EXCEPT ![n] = ch]
    <3>1. d = [cursor |-> [b.cursor EXCEPT !.x = n + 1],
               rows |-> [b.rows EXCEPT ![c][n] = ch]]
      BY <1>9 DEF Store
    <3>2. /\ d.cursor.x = n + 1 /\ d.cursor.y = c
          /\ d.rows = [b.rows EXCEPT ![c][n] = ch]
      BY <1>1, <3>1
    <3> HIDE DEF d, c, n
    <3>3. /\ d.rows[c] = [b.rows[c] EXCEPT ![n] = ch] /\ DOMAIN d.rows = 0..kMaxRowIdx
          /\ \A y \in 0..kMaxRowIdx : y # c => d.rows[y] = b.rows[y]
      BY ONLY <1>1, <3>2
    <3> QED BY ONLY <3>2, <3>3
  <2>2. new[n] = ch /\ \A x \in 0..kMaxColIdx : x # n => new[x] = row[x]
    <3> HIDE DEF d, c, n
    <3> QED BY ONLY <1>1, <2>0, <2>1 DEF row
  <2> HIDE DEF d, c, n, new, row
  <2>3. FilledTo(new, n + 1)
    <3>1. FilledTo(row, n)
      BY <1>1 DEF row
    <3>2. \A x \in 0..kMaxColIdx : x < n + 1 <=> (x = n \/ x < n)
      BY <2>0, BufferSizes
    <3>3. \A x \in 0..kMaxColIdx : new[x] # Cleared <=> (x = n \/ x < n)
      BY ONLY <2>2, <3>1, ch # Cleared DEF FilledTo
    <3> QED BY ONLY <3>2, <3>3 DEF FilledTo
  <2>4. GridOK(d)
    <3>1. c \in 0..kMaxRowIdx /\ ~(c > c)
      BY <1>1, BufferSizes
    <3>2. \A y \in 0..kMaxRowIdx : y > c => d.rows[y] = ClearedRow
      BY ONLY <1>1, <2>1, <3>1
    <3>3. \A y \in 0..kMaxRowIdx : \E k \in 0..kNumCharsWide : FilledTo(d.rows[y], k)
      BY ONLY <1>1, <2>0, <2>1, <2>3 DEF new
    <3> QED BY ONLY <1>2, <2>1, <2>3, <3>2, <3>3 DEF GridOK, new
  <2>5. LineOf(new) = Append(line, ch)
    <3>1. LineOf(new) = [i \in 1..n + 1 |-> new[i - 1]]
      BY ONLY <2>0, <2>3, LineIs
    <3>2. Append(line, ch) = [i \in 1..n + 1 |-> IF i = n + 1 THEN ch ELSE line[i]]
      BY ONLY <1>5, <2>0, AppendIs
    <3>3. ASSUME NEW i \in 1..n + 1 PROVE new[i - 1] = IF i = n + 1 THEN ch ELSE line[i]
      <4>1. CASE i = n + 1
        <5>1. i - 1 = n
          BY <2>0, <4>1
        <5> QED BY ONLY <2>2, <4>1, <5>1
      <4>2. CASE i # n + 1
        <5>1. i \in 1..n /\ i - 1 \in 0..kMaxColIdx /\ i - 1 # n
          BY <2>0, <4>2, BufferSizes
        <5>2. line[i] = row[i - 1]
          BY ONLY <1>5, <5>1
        <5> QED BY ONLY <2>2, <4>2, <5>1, <5>2
      <4> QED BY <4>1, <4>2
    <3> QED BY ONLY <3>1, <3>2, <3>3
  <2>6. ShownOf(d) = [i \in 1..c + 1 |-> LineOf(d.rows[i - 1])]
    BY ONLY <2>1, <2>4, ShownIs
  <2>7. ASSUME NEW i \in 1..c + 1
        PROVE  LineOf(d.rows[i - 1]) = IF i = c + 1 THEN Append(line, ch) ELSE S[i]
    <3>1. i - 1 \in 0..kMaxRowIdx /\ (i = c + 1 <=> i - 1 = c)
      BY <1>1, BufferSizes
    <3>2. S[i] = LineOf(b.rows[i - 1])
      BY ONLY <1>3, i \in 1..c + 1
    <3> QED BY ONLY <2>1, <2>5, <3>1, <3>2 DEF new
  <2>8. ShownOf(d) = [S EXCEPT ![c + 1] = Append(line, ch)]
    <3>1. [S EXCEPT ![c + 1] = Append(line, ch)]
            = [i \in 1..c + 1 |-> IF i = c + 1 THEN Append(line, ch) ELSE S[i]]
      BY ONLY <1>4
    <3> QED BY ONLY <2>6, <2>7, <3>1
  <2> QED BY ONLY <1>7, <2>0, <2>4, <2>8 DEF d, S
<1> QED BY <1>8, <1>9

LEMMA DrawnShown ==
  ASSUME ~character_wrap_enabled_, NEW b, GridOK(b), NEW ch, ch # Cleared
  PROVE  /\ GridOK(DrawCharacter(b, ch))
         /\ ShownOf(DrawCharacter(b, ch)) = LogWindow!Written(ShownOf(b), ch)
<1>1. CASE ch.ch = Newline
  BY <1>1, NewlineShown DEF DrawCharacter
<1>2. CASE ch.ch # Newline
  BY <1>2, StoreShown DEF DrawCharacter
<1> QED BY <1>1, <1>2

LEMMA DrawsShown ==
  ASSUME ~character_wrap_enabled_, NEW b, GridOK(b), NEW s,
         DOMAIN s = 1..Len(s), Len(s) \in Nat, \A i \in 1..Len(s) : s[i] # Cleared
  PROVE  /\ GridOK(FoldLeft(DrawCharacter, b, s))
         /\ ShownOf(FoldLeft(DrawCharacter, b, s))
              = LogWindow!FoldLeft(LogWindow!Written, ShownOf(b), s)
<1> DEFINE f == FoldOf("draw", b, s)
           g == FoldOf("write", ShownOf(b), s)
           n == Len(s)
           S == {k \in Nat : k <= n => GridOK(f[1..k]) /\ ShownOf(f[1..k]) = g[1..k]}
<1>1. f[1..0] = b /\ \A k \in 1..n : f[1..k] = Step("draw", f[1..k - 1], s[k])
  BY FoldStep
<1>2. g[1..0] = ShownOf(b) /\ \A k \in 1..n : g[1..k] = Step("write", g[1..k - 1], s[k])
  BY FoldStep
<1>3. FoldLeft(DrawCharacter, b, s) = f[1..n]
  BY DrawFolds
<1>4. LogWindow!FoldLeft(LogWindow!Written, ShownOf(b), s) = g[1..n]
  BY WriteFolds
<1> HIDE DEF f, g
<1>5. 0 \in S
  BY <1>1, <1>2
<1>6. ASSUME NEW k \in Nat, k \in S PROVE k + 1 \in S
  <2> SUFFICES ASSUME k + 1 <= n PROVE GridOK(f[1..k + 1]) /\ ShownOf(f[1..k + 1]) = g[1..k + 1]
    OBVIOUS
  <2>1. k + 1 \in 1..n /\ k <= n /\ k + 1 - 1 = k
    OBVIOUS
  <2>2. /\ f[1..k + 1] = DrawCharacter(f[1..k], s[k + 1])
        /\ g[1..k + 1] = LogWindow!Written(g[1..k], s[k + 1])
    BY <1>1, <1>2, <2>1 DEF Step
  <2>3. GridOK(f[1..k]) /\ ShownOf(f[1..k]) = g[1..k] /\ s[k + 1] # Cleared
    BY <1>6, <2>1
  <2> HIDE DEF n, S
  <2> QED BY ONLY <2>2, <2>3, ~character_wrap_enabled_, DrawnShown
<1> HIDE DEF S
<1>7. Nat \subseteq S
  BY <1>5, <1>6, SetInduction
<1>8. n \in S /\ n <= n
  BY <1>7
<1>9. GridOK(f[1..n]) /\ ShownOf(f[1..n]) = g[1..n]
  BY <1>8 DEF S
<1> HIDE DEF n
<1> QED BY ONLY <1>3, <1>4, <1>9, Zenon

(* The window between steps. *)
LEMMA EmptyGrid == GridOK(EmptyBuffer) /\ ShownOf(EmptyBuffer) = <<<<>>>>
<1>1. /\ EmptyBuffer.cursor = [x |-> 0, y |-> 0]
      /\ EmptyBuffer.cursor.x = 0 /\ EmptyBuffer.cursor.y = 0
      /\ DOMAIN EmptyBuffer.rows = 0..kMaxRowIdx
      /\ EmptyBuffer = [cursor |-> EmptyBuffer.cursor, rows |-> EmptyBuffer.rows]
      /\ \A y \in 0..kMaxRowIdx : EmptyBuffer.rows[y] = ClearedRow
  BY DEF EmptyBuffer
<1>2. 0 \in 0..kNumCharsWide /\ 0 \in 0..kMaxRowIdx
  BY BufferSizes
<1>3. BufferOK(EmptyBuffer)
  <2>1. DOMAIN ClearedRow = 0..kMaxColIdx
    BY DEF ClearedRow
  <2>2. EmptyBuffer.cursor \in [x : 0..kNumCharsWide, y : 0..kMaxRowIdx]
    BY ONLY <1>1, <1>2
  <2> QED BY ONLY <1>1, <2>1, <2>2 DEF BufferOK
<1>4. GridOK(EmptyBuffer)
  BY ONLY <1>1, <1>2, <1>3, NoLine DEF GridOK
<1>5. ShownOf(EmptyBuffer) = [i \in 1..1 |-> LineOf(EmptyBuffer.rows[i - 1])]
  <2>1. 0 + 1 = 1
    OBVIOUS
  <2>2. ShownOf(EmptyBuffer)
          = [i \in 1..EmptyBuffer.cursor.y + 1 |-> LineOf(EmptyBuffer.rows[i - 1])]
    BY ONLY <1>4, ShownIs, Zenon
  <2>3. EmptyBuffer.cursor.y + 1 = 1
    BY ONLY <1>1, <2>1
  <2> QED BY ONLY <2>2, <2>3, Zenon
<1>6. ASSUME NEW i \in 1..1 PROVE LineOf(EmptyBuffer.rows[i - 1]) = <<>>
  <2>1. i - 1 = 0
    OBVIOUS
  <2> QED BY ONLY <1>1, <1>2, <2>1, NoLine
<1>7. [i \in 1..1 |-> <<>>] = <<<<>>>>
  OBVIOUS
<1>8. ShownOf(EmptyBuffer) = [i \in 1..1 |-> <<>>]
  BY ONLY <1>5, <1>6
<1> QED BY ONLY <1>4, <1>7, <1>8, Zenon

LEMMA NothingWritten ==
  ASSUME NEW ls PROVE LogWindow!FoldLeft(LogWindow!Written, ls, <<>>) = ls
<1>1. DOMAIN <<>> = 1..Len(<<>>) /\ Len(<<>>) = 0 /\ 0 \in Nat
  OBVIOUS
<1>2. FoldOf("write", ls, <<>>)[1..0] = ls
  BY <1>1, FoldStep
<1> QED BY <1>1, <1>2, WriteFolds

LEMMA EmitsShown ==
  ASSUME ~character_wrap_enabled_, GridOK(log_text_buffer_), NEW chars \in Seq(Chars),
         EmitChars(chars)
  PROVE  /\ GridOK(log_text_buffer_')
         /\ ShownOf(log_text_buffer_') = LogWindow!FoldLeft(LogWindow!Written, ShownOf(log_text_buffer_), written')
<1> DEFINE styled == [i \in DOMAIN chars |->
                        [ch |-> chars[i], foreground_color |-> fg_color_,
                         background_color |-> bg_color_]]
<1>1. Len(chars) \in Nat /\ DOMAIN chars = 1..Len(chars) /\ \A i \in 1..Len(chars) : chars[i] \in Chars
  OBVIOUS
<1>2. DOMAIN styled = 1..Len(chars)
  BY <1>1
<1>3. /\ log_text_buffer_' = FoldLeft(DrawCharacter, log_text_buffer_, styled)
      /\ written' = styled
  BY DEF EmitChars
<1>4. \A i \in 1..Len(chars) : styled[i].ch = chars[i]
  BY <1>1
<1> HIDE DEF styled
<1>5. Len(styled) = Len(chars)
  BY <1>1, <1>2
<1>6. \A i \in 1..Len(styled) : styled[i] # Cleared
  BY <1>1, <1>4, <1>5, Names
<1>7. /\ GridOK(FoldLeft(DrawCharacter, log_text_buffer_, styled))
      /\ ShownOf(FoldLeft(DrawCharacter, log_text_buffer_, styled))
           = LogWindow!FoldLeft(LogWindow!Written, ShownOf(log_text_buffer_), styled)
  BY <1>1, <1>2, <1>5, <1>6, DrawsShown
<1> QED BY ONLY <1>3, <1>7, Zenon

LEMMA WindowStep ==
  ASSUME ~character_wrap_enabled_, GridOK(log_text_buffer_), DecoderIInv, [Next]_vars
  PROVE  /\ GridOK(log_text_buffer_')
         /\ \/ ShownOf(log_text_buffer_')
                 = LogWindow!FoldLeft(LogWindow!Written, ShownOf(log_text_buffer_), written')
            \/ UNCHANGED <<written, log_text_buffer_>>
<1>1. CASE UNCHANGED <<written, log_text_buffer_>>
  BY <1>1
<1>2. CASE UNCHANGED log_text_buffer_ /\ written' = <<>>
  BY <1>2, NothingWritten
<1>3. CASE \E chars \in Seq(Chars) : EmitChars(chars)
  BY <1>3, EmitsShown
<1>4. CASE ProcessChar /\ UNCHANGED halted
  <2> DEFINE c == Head(token)
  <2>1. InNormal(c) \/ InEscape(c) \/ InCsi(c) \/ UNCHANGED vars
    BY <1>4 DEF ProcessChar, vars, history
  <2>2. c \in Chars /\ Kept
    <3>1. token # <<>> /\ Kept /\ Where
      BY <1>4 DEF ProcessChar, DecoderIInv
    <3> QED BY <3>1, HeadIs
  <2> HIDE DEF c
  <2>3. <<c>> \in Seq(Chars) /\ Pushed(buffered_chars_, c) \in Seq(Chars)
    BY <2>2, PushedOK DEF Kept
  <2>4. CASE InNormal(c) \/ InEscape(c) \/ InCsi(c)
    <3>1. EmitNothing \/ EmitChars(<<c>>) \/ EmitChars(Pushed(buffered_chars_, c))
      BY <2>4, Zenon DEF InNormal, InEscape, InCsi, Error
    <3> QED BY <1>2, <1>3, <2>3, <3>1 DEF EmitNothing
  <2> QED BY <1>1, <2>1, <2>4 DEF vars, history
<1>5. CASE ProcessChar /\ halted' # halted
  BY <1>1, <1>5 DEF ProcessChar, history
<1>6. CASE LogCallback
  BY <1>2, <1>6 DEF LogCallback
<1>7. CASE UNCHANGED vars
  BY <1>1, <1>7 DEF vars, history
<1> QED BY <1>4, <1>5, <1>6, <1>7 DEF Next

(* With lines that are cut and not wrapped, as the application has them,    *)
(* the window shows at any moment the last rows of the text drawn, each     *)
(* line cut to the width.                                                   *)
THEOREM WindowIsTerminal ==
  ASSUME ~character_wrap_enabled_ PROVE Spec => ImplementsTerminal
<1> DEFINE WindowInv == DecoderIInv /\ GridOK(log_text_buffer_)
<1>1. Init => WindowInv
  BY DecoderInit, EmptyGrid DEF Init
<1>2. WindowInv /\ [Next]_vars => WindowInv'
  BY DecoderStep, WindowStep DEF GridOK, BufferOK
<1>3. Init => LogWindow!Init
  BY ShownIsOf, EmptyGrid DEF Init, LogWindow!Init
<1>4. WindowInv /\ [Next]_vars => [LogWindow!Next]_<<written, Shown>>
  <2> SUFFICES ASSUME WindowInv, [Next]_vars PROVE [LogWindow!Next]_<<written, Shown>>
    OBVIOUS
  <2>1. Shown = ShownOf(log_text_buffer_)
    BY ShownIsOf
  <2>2. Shown' = ShownOf(log_text_buffer_')
    BY DEF Shown, ShownOf, Line, LineOf, GetChar
  <2>3. CASE UNCHANGED <<written, log_text_buffer_>>
    BY <2>1, <2>2, <2>3
  <2>4. CASE Shown' = LogWindow!FoldLeft(LogWindow!Written, Shown, written')
    BY <2>4 DEF LogWindow!Next
  <2> QED BY <2>1, <2>2, <2>3, <2>4, WindowStep
<1> QED BY <1>1, <1>2, <1>3, <1>4, PTL DEF Spec, ImplementsTerminal, LogWindow!Spec
=============================================================================
