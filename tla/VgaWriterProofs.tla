-------------------------- MODULE VgaWriterProofs --------------------------
(***************************************************************************)
(* Proofs about VgaWriter.tla, for every size of the buffer and every text *)
(* that one writer prints.                                                 *)
(***************************************************************************)
EXTENDS VgaWriter, KernelLemmas, FiniteSetTheorems, TLAPS

Chars == Bytes \cup {Square, Blank, Old}
WriterType == [column : 0 .. BUFFER_WIDTH, chars : [Rows -> [Cols -> Chars]]]

(* The bytes of the line that text t ends in, so far *)
LastStart(t) == Max({0} \cup Newlines(t))
LineLength(t) == Len(t) - LastStart(t)

(* The next byte b starts a row. *)
StartsRow(t, b) == b = Newline \/ (LineLength(t) > 0 /\ LineLength(t) % BUFFER_WIDTH = 0)

(* A writer that has printed text t: its column follows from the length of *)
(* the last line, and what the last row shows is left of the column.       *)
ColumnFits(t, column) ==
  /\ LastStart(t) \in Nat
  /\ \E q \in Nat : LineLength(t) = q * BUFFER_WIDTH + column /\ (q > 0 => column > 0)
LeftOf(t, column) ==
  \A i \in DOMAIN t : t[i] # Newline /\ RowsBehind(t, i) = 0
                         => Offset(t, i) % BUFFER_WIDTH \in 0 .. column - 1
Printed(self, t) ==
  /\ self \in WriterType
  /\ ColumnFits(t, self.column) /\ LeftOf(t, self.column)
  /\ Screen(t, self.chars)

(* The inductive invariant, for the writer w *)
WriterInv(w) ==
  /\ text \in Seq(Bytes)
  /\ column_position = [v \in {w} |-> column_position[w]]
  /\ Printed(Writer(column_position[w], chars), text)

-----------------------------------------------------------------------------
(* One more byte b leaves the bytes of t where they are on their lines.    *)
LEMMA OneMore ==
  ASSUME NEW t \in Seq(Bytes), NEW b \in Bytes, NEW u, u = Append(t, b)
  PROVE  /\ u \in Seq(Bytes) /\ Len(u) = Len(t) + 1 /\ Len(t) \in Nat
         /\ DOMAIN t = 1 .. Len(t)
         /\ DOMAIN u = DOMAIN t \cup {Len(t) + 1} /\ Len(t) + 1 \notin DOMAIN t
         /\ u[Len(t) + 1] = b /\ \A i \in DOMAIN t : u[i] = t[i]
<1>1. /\ u \in Seq(Bytes) /\ Len(u) = Len(t) + 1 /\ Len(t) \in Nat
      /\ DOMAIN t = 1 .. Len(t) /\ DOMAIN u = 1 .. Len(t) + 1
  OBVIOUS
<1>2. u[Len(t) + 1] = b /\ \A i \in 1 .. Len(t) : u[i] = t[i]
  OBVIOUS
<1> QED BY <1>1, <1>2

LEMMA OneMoreOnLine ==
  ASSUME NEW t \in Seq(Bytes), NEW b \in Bytes, NEW u, u = Append(t, b)
  PROVE  /\ \A i \in DOMAIN t : Offset(u, i) = Offset(t, i)
         /\ Newlines(u) = Newlines(t) \cup (IF b = Newline THEN {Len(t) + 1} ELSE {})
         /\ Offset(u, Len(t) + 1) = LineLength(t)
<1> DEFINE n == Len(t)
<1>1. /\ n \in Nat /\ DOMAIN t = 1 .. n /\ DOMAIN u = DOMAIN t \cup {n + 1}
      /\ u[n + 1] = b /\ \A i \in DOMAIN t : u[i] = t[i]
  BY OneMore
<1> HIDE DEF n
<1>2. Newlines(u) = Newlines(t) \cup (IF b = Newline THEN {n + 1} ELSE {})
  BY <1>1 DEF Newlines
<1>3. Newlines(t) \subseteq 1 .. n
  BY <1>1 DEF Newlines
<1>4. ASSUME NEW i \in DOMAIN t PROVE Offset(u, i) = Offset(t, i)
  <2>1. {j \in Newlines(u) : j < i} = {j \in Newlines(t) : j < i}
    BY <1>1, <1>2, <1>3
  <2> QED BY <2>1, Zenon DEF Offset
<1>5. Offset(u, n + 1) = n - LastStart(t)
  <2>1. {j \in Newlines(u) : j < n + 1} = Newlines(t)
    BY <1>1, <1>2, <1>3
  <2>2. (n + 1) - 1 = n
    BY <1>1
  <2> QED BY <2>1, <2>2, Zenon DEF Offset, LastStart
<1> QED BY <1>2, <1>4, <1>5 DEF n, LineLength

(* The length of the last line with one more byte *)
LEMMA OneMoreLength ==
  ASSUME NEW t \in Seq(Bytes), NEW b \in Bytes, NEW u, u = Append(t, b), LastStart(t) \in Nat
  PROVE  /\ LastStart(u) \in Nat
         /\ LineLength(u) = IF b = Newline THEN 0 ELSE LineLength(t) + 1
<1>1. /\ Len(t) \in Nat /\ Len(u) = Len(t) + 1
      /\ Newlines(u) = Newlines(t) \cup (IF b = Newline THEN {Len(t) + 1} ELSE {})
      /\ Newlines(t) \subseteq 1 .. Len(t)
  BY OneMore, OneMoreOnLine DEF Newlines
<1>2. CASE b = Newline
  <2> DEFINE S == {0} \cup Newlines(u)
  <2>1. Len(t) + 1 \in S /\ \A y \in S : y \in Nat /\ y <= Len(t) + 1
    BY <1>1, <1>2
  <2>2. \A x \in S : (\A y \in S : x >= y) => x = Len(t) + 1
    BY <1>1, <2>1
  <2>3. Max(S) = Len(t) + 1
    <3> HIDE DEF S
    <3>1. \E x \in S : \A y \in S : x >= y
      BY <1>1, <2>1
    <3> QED BY <2>2, <3>1 DEF Max
  <2> QED BY <1>1, <1>2, <2>3 DEF LastStart, LineLength
<1>3. CASE b # Newline
  <2>1. LastStart(u) = LastStart(t)
    BY <1>1, <1>3 DEF LastStart
  <2> QED BY <1>1, <1>3, <2>1 DEF LineLength
<1> QED BY <1>2, <1>3

(* It may start a row, which is then behind all bytes of t. *)
LEMMA OneMoreRow ==
  ASSUME NEW t \in Seq(Bytes), NEW b \in Bytes, NEW u, u = Append(t, b)
  PROVE  /\ RowStarts(t) \subseteq DOMAIN t
         /\ RowStarts(u) = RowStarts(t) \cup (IF StartsRow(t, b) THEN {Len(t) + 1} ELSE {})
<1> DEFINE n == Len(t)
           Full(v, i) == Offset(v, i) > 0 /\ Offset(v, i) % BUFFER_WIDTH = 0
<1>1. /\ DOMAIN u = DOMAIN t \cup {n + 1} /\ n + 1 \notin DOMAIN t
      /\ Newlines(u) = Newlines(t) \cup (IF b = Newline THEN {n + 1} ELSE {})
  BY OneMore, OneMoreOnLine, Zenon
<1>2. /\ \A i \in DOMAIN t : Full(u, i) <=> Full(t, i)
      /\ StartsRow(t, b) <=> b = Newline \/ Full(u, n + 1)
  <2>1. /\ \A i \in DOMAIN t : Offset(u, i) = Offset(t, i)
        /\ Offset(u, n + 1) = LineLength(t)
    BY OneMoreOnLine, Zenon
  <2>2. \A i \in DOMAIN t : Full(u, i) <=> Full(t, i)
    BY <2>1
  <2> QED BY <2>1, <2>2, Zenon DEF StartsRow
<1>3. \A v : RowStarts(v) = Newlines(v) \cup {i \in DOMAIN v : Full(v, i)}
  BY DEF RowStarts
<1> HIDE DEF n, Full
<1>4. Newlines(t) \subseteq DOMAIN t
  BY DEF Newlines
<1>5. RowStarts(u) = RowStarts(t) \cup (IF StartsRow(t, b) THEN {n + 1} ELSE {})
  BY <1>1, <1>2, <1>3, Zenon
<1> QED BY <1>3, <1>4, <1>5 DEF n

LEMMA OneMoreBehind ==
  ASSUME NEW t \in Seq(Bytes), NEW b \in Bytes, NEW u, u = Append(t, b)
  PROVE  /\ \A i \in DOMAIN t : /\ RowsBehind(t, i) \in Nat
                                /\ RowsBehind(u, i) = RowsBehind(t, i)
                                                      + (IF StartsRow(t, b) THEN 1 ELSE 0)
         /\ RowsBehind(u, Len(t) + 1) = 0
         /\ Cardinality(RowStarts(t)) \in Nat
         /\ Cardinality(RowStarts(u)) = Cardinality(RowStarts(t))
                                        + (IF StartsRow(t, b) THEN 1 ELSE 0)
<1> DEFINE n == Len(t)
           new == IF StartsRow(t, b) THEN {n + 1} ELSE {}
<1>1. /\ n \in Nat /\ DOMAIN t = 1 .. n /\ RowStarts(t) \subseteq DOMAIN t
      /\ RowStarts(u) = RowStarts(t) \cup new
  BY OneMore, OneMoreRow, Zenon
<1>2. ASSUME NEW S, S \subseteq 1 .. n
      PROVE  /\ Cardinality(S) \in Nat
             /\ Cardinality(S \cup new) = Cardinality(S) + (IF StartsRow(t, b) THEN 1 ELSE 0)
  <2>1. IsFiniteSet(1 .. n)
    BY <1>1, FS_Interval
  <2>2. IsFiniteSet(S) /\ Cardinality(S) \in Nat
    BY <1>2, <2>1, FS_Subset, FS_CardinalityType, Zenon
  <2>3. n + 1 \notin S
    BY <1>1, <1>2
  <2>4. Cardinality(S \cup {n + 1}) = Cardinality(S) + 1
    BY <2>2, <2>3, FS_AddElement, Zenon
  <2>5. CASE StartsRow(t, b)
    BY <2>2, <2>4, <2>5
  <2>6. CASE ~StartsRow(t, b)
    BY <2>2, <2>6
  <2> QED BY <2>5, <2>6
<1>3. ASSUME NEW i \in DOMAIN t
      PROVE  /\ RowsBehind(t, i) \in Nat
             /\ RowsBehind(u, i) = RowsBehind(t, i) + (IF StartsRow(t, b) THEN 1 ELSE 0)
  <2> DEFINE S == {j \in RowStarts(t) : j > i}
  <2>1. S \subseteq 1 .. n
    BY <1>1
  <2>2. {j \in RowStarts(u) : j > i} = S \cup new
    BY <1>1, <1>3
  <2> HIDE DEF S, new
  <2>3. RowsBehind(t, i) = Cardinality(S) /\ RowsBehind(u, i) = Cardinality(S \cup new)
    BY <2>2, Zenon DEF RowsBehind, S
  <2> QED BY <1>2, <2>1, <2>3, Zenon
<1>4. RowsBehind(u, n + 1) = 0
  <2>1. {j \in RowStarts(u) : j > n + 1} = {}
    BY <1>1
  <2> QED BY <2>1, FS_EmptySet, Zenon DEF RowsBehind
<1> HIDE DEF new
<1>5. /\ Cardinality(RowStarts(t)) \in Nat
      /\ Cardinality(RowStarts(u)) = Cardinality(RowStarts(t))
                                     + (IF StartsRow(t, b) THEN 1 ELSE 0)
  BY <1>1, <1>2
<1> QED BY <1>3, <1>4, <1>5, Zenon DEF n

-----------------------------------------------------------------------------
(* The cells show the bytes at positions D of text u. *)
Placed(u, D, buffer) ==
  \A r \in Rows, c \in Cols :
    IF \E i \in D : Shows(u, r, c, i)
    THEN \A i \in D : Shows(u, r, c, i) => buffer[r][c] = shown(u[i])
    ELSE buffer[r][c] = IF r + Cardinality(RowStarts(u)) > LastLine THEN Blank ELSE Old

LEMMA Sizes ==
  /\ BUFFER_HEIGHT \in Nat \ {0} /\ BUFFER_WIDTH \in Nat \ {0}
  /\ LastLine \in Rows /\ LastLine \in Nat /\ Rows \subseteq Nat /\ Cols \subseteq Nat
  /\ \A r \in Rows : r # LastLine => r + 1 \in Rows
  /\ \A r \in Rows : r <= LastLine
BY BufferAssumption DEF LastLine, Rows, Cols

(* A byte that starts no row leaves the bytes before it where they are ... *)
LEMMA SameRow ==
  ASSUME NEW t \in Seq(Bytes), NEW b \in Bytes, NEW u, u = Append(t, b), NEW buffer,
         ~StartsRow(t, b), Screen(t, buffer)
  PROVE  Placed(u, DOMAIN t, buffer)
<1>1. \A i \in DOMAIN t, r \in Rows, c \in Cols :
        Shows(u, r, c, i) <=> Shows(t, r, c, i)
  <2>1. \A i \in DOMAIN t : /\ u[i] = t[i] /\ Offset(u, i) = Offset(t, i)
                            /\ RowsBehind(u, i) = RowsBehind(t, i)
    <3>1. \A i \in DOMAIN t : RowsBehind(t, i) \in Nat /\ RowsBehind(u, i) = RowsBehind(t, i) + 0
      BY OneMoreBehind, Zenon
    <3>2. \A i \in DOMAIN t : RowsBehind(u, i) = RowsBehind(t, i)
      BY <3>1
    <3>3. \A i \in DOMAIN t : u[i] = t[i]
      BY OneMore
    <3>4. \A i \in DOMAIN t : Offset(u, i) = Offset(t, i)
      BY OneMoreOnLine, Zenon
    <3> QED BY <3>2, <3>3, <3>4, Zenon
  <2> QED BY <2>1 DEF Shows
<1>2. Cardinality(RowStarts(u)) = Cardinality(RowStarts(t))
  <2>1. /\ Cardinality(RowStarts(t)) \in Nat
        /\ Cardinality(RowStarts(u)) = Cardinality(RowStarts(t)) + 0
    BY OneMoreBehind, Zenon
  <2> QED BY <2>1
<1>3. \A i \in DOMAIN t : u[i] = t[i]
  BY OneMore
<1>4. ASSUME NEW r \in Rows, NEW c \in Cols
      PROVE  IF \E i \in DOMAIN t : Shows(u, r, c, i)
             THEN \A i \in DOMAIN t : Shows(u, r, c, i) => buffer[r][c] = shown(u[i])
             ELSE buffer[r][c] = IF r + Cardinality(RowStarts(u)) > LastLine THEN Blank ELSE Old
  <2>1. IF \E i \in DOMAIN t : Shows(t, r, c, i)
        THEN \A i \in DOMAIN t : Shows(t, r, c, i) => buffer[r][c] = shown(t[i])
        ELSE buffer[r][c] = IF r + Cardinality(RowStarts(t)) > LastLine THEN Blank ELSE Old
    BY Zenon DEF Screen
  <2> QED BY <1>1, <1>2, <1>3, <2>1, Zenon
<1> QED BY <1>4, Zenon DEF Placed

(* ... and one that starts a row moves them up as new_line does. *)
LEMMA NewRow ==
  ASSUME NEW t \in Seq(Bytes), NEW b \in Bytes, NEW u, u = Append(t, b),
         NEW self \in WriterType, StartsRow(t, b), Screen(t, self.chars)
  PROVE  /\ Placed(u, DOMAIN t, new_line(self).chars)
         /\ \A i \in DOMAIN t, c \in Cols : ~Shows(u, LastLine, c, i)
         /\ \A i \in DOMAIN t : RowsBehind(u, i) # 0
<1> DEFINE up == new_line(self).chars
<1>1. \A i \in DOMAIN t : /\ u[i] = t[i] /\ Offset(u, i) = Offset(t, i)
                          /\ RowsBehind(t, i) \in Nat
                          /\ RowsBehind(u, i) = RowsBehind(t, i) + 1
  <2>1. \A i \in DOMAIN t : u[i] = t[i]
    BY OneMore
  <2>2. \A i \in DOMAIN t : Offset(u, i) = Offset(t, i)
    BY OneMoreOnLine, Zenon
  <2>3. \A i \in DOMAIN t : RowsBehind(t, i) \in Nat /\ RowsBehind(u, i) = RowsBehind(t, i) + 1
    BY OneMoreBehind, Zenon
  <2> QED BY <2>1, <2>2, <2>3, Zenon
<1>2. /\ Cardinality(RowStarts(t)) \in Nat
      /\ Cardinality(RowStarts(u)) = Cardinality(RowStarts(t)) + 1
  BY OneMoreBehind, Zenon
<1>3. up = [r \in Rows |-> IF r = LastLine THEN [c \in Cols |-> Blank] ELSE self.chars[r + 1]]
  BY DEF new_line, Writer
<1> HIDE DEF up
<1>4. \A i \in DOMAIN t : RowsBehind(u, i) # 0
  BY <1>1
<1>5. \A i \in DOMAIN t, c \in Cols : ~Shows(u, LastLine, c, i)
  BY <1>1, Sizes DEF Shows
<1>6. ASSUME NEW r \in Rows, NEW c \in Cols
      PROVE  IF \E i \in DOMAIN t : Shows(u, r, c, i)
             THEN \A i \in DOMAIN t : Shows(u, r, c, i) => up[r][c] = shown(u[i])
             ELSE up[r][c] = IF r + Cardinality(RowStarts(u)) > LastLine THEN Blank ELSE Old
  <2>1. CASE r = LastLine
    <3>1. up[r][c] = Blank
      BY <1>3, <2>1, Sizes
    <3>2. r + Cardinality(RowStarts(u)) > LastLine
      BY <1>2, <2>1, Sizes
    <3> QED BY <1>5, <2>1, <3>1, <3>2
  <2>2. CASE r # LastLine
    <3>1. r + 1 \in Rows /\ up[r][c] = self.chars[r + 1][c]
      BY <1>3, <2>2, Sizes
    <3>2. \A i \in DOMAIN t : Shows(u, r, c, i) <=> Shows(t, r + 1, c, i)
      <4>1. \A k \in Nat : r + (k + 1) = (r + 1) + k
        BY Sizes
      <4>2. \A i \in DOMAIN t : r + RowsBehind(u, i) = (r + 1) + RowsBehind(t, i)
        BY <1>1, <4>1
      <4> QED BY <1>1, <4>2, Zenon DEF Shows
    <3>3. r + Cardinality(RowStarts(u)) = (r + 1) + Cardinality(RowStarts(t))
      BY <1>2, Sizes
    <3>4. IF \E i \in DOMAIN t : Shows(t, r + 1, c, i)
          THEN \A i \in DOMAIN t : Shows(t, r + 1, c, i) => self.chars[r + 1][c] = shown(t[i])
          ELSE self.chars[r + 1][c] = IF (r + 1) + Cardinality(RowStarts(t)) > LastLine
                                      THEN Blank ELSE Old
      BY <3>1, Zenon DEF Screen
    <3> QED BY <1>1, <3>1, <3>2, <3>3, <3>4, Zenon
  <2> QED BY <2>1, <2>2
<1>7. Placed(u, DOMAIN t, up)
  BY <1>6, Zenon DEF Placed
<1> QED BY <1>4, <1>5, <1>7 DEF up

(* The byte itself takes its cell on the last row. *)
LEMMA LastByte ==
  ASSUME NEW t \in Seq(Bytes), NEW b \in Bytes, NEW u, u = Append(t, b), b # Newline,
         NEW buffer \in [Rows -> [Cols -> Chars]], Placed(u, DOMAIN t, buffer),
         NEW col \in Cols, Offset(u, Len(t) + 1) % BUFFER_WIDTH = col,
         \A i \in DOMAIN t : ~Shows(u, LastLine, col, i)
  PROVE  Screen(u, [buffer EXCEPT ![LastLine][col] = shown(b)])
<1> DEFINE n == Len(t)
           after == [buffer EXCEPT ![LastLine][col] = shown(b)]
<1>1. DOMAIN u = DOMAIN t \cup {n + 1} /\ u[n + 1] = b /\ RowsBehind(u, n + 1) = 0
  BY OneMore, OneMoreBehind, Zenon
<1>2. \A r \in Rows, c \in Cols :
        after[r][c] = IF r = LastLine /\ c = col THEN shown(b) ELSE buffer[r][c]
  BY Sizes
<1>3. \A r \in Rows, c \in Cols : Shows(u, r, c, n + 1) <=> r = LastLine /\ c = col
  <2>1. \A r \in Rows : r + RowsBehind(u, n + 1) = r
    BY <1>1, Sizes
  <2> QED BY <1>1, <2>1, Zenon DEF Shows
<1> HIDE DEF n, after
<1>4. ASSUME NEW r \in Rows, NEW c \in Cols
      PROVE  IF \E i \in DOMAIN u : Shows(u, r, c, i)
             THEN \A i \in DOMAIN u : Shows(u, r, c, i) => after[r][c] = shown(u[i])
             ELSE after[r][c] = IF r + Cardinality(RowStarts(u)) > LastLine THEN Blank ELSE Old
  <2>1. CASE r = LastLine /\ c = col
    <3>1. after[r][c] = shown(b)
      BY <1>2, <2>1
    <3>2. \A i \in DOMAIN u : Shows(u, r, c, i) <=> i = n + 1
      BY <1>1, <1>3, <2>1, Zenon
    <3> QED BY <1>1, <3>1, <3>2, Zenon
  <2>2. CASE ~(r = LastLine /\ c = col)
    <3>1. after[r][c] = buffer[r][c]
      BY <1>2, <2>2
    <3>2. \A i \in DOMAIN u : Shows(u, r, c, i) => i \in DOMAIN t
      BY <1>1, <1>3, <2>2, Zenon
    <3>3. DOMAIN t \subseteq DOMAIN u
      BY <1>1
    <3>4. IF \E i \in DOMAIN t : Shows(u, r, c, i)
          THEN \A i \in DOMAIN t : Shows(u, r, c, i) => buffer[r][c] = shown(u[i])
          ELSE buffer[r][c] = IF r + Cardinality(RowStarts(u)) > LastLine THEN Blank ELSE Old
      BY Zenon DEF Placed
    <3> QED BY <3>1, <3>2, <3>3, <3>4, Zenon
  <2> QED BY <2>1, <2>2
<1> QED BY <1>4, Zenon DEF Screen, after

-----------------------------------------------------------------------------
LEMMA RemainderOf ==
  ASSUME NEW q \in Nat, NEW n \in Nat \ {0}, NEW r \in 0 .. n - 1
  PROVE  (q * n + r) % n = r
<1> DEFINE a == q * n + r
           p == a \div n
           s == a % n
<1>1. a \in Nat
  OBVIOUS
<1> HIDE DEF a
<1>2. p \in Nat /\ s \in 0 .. n - 1 /\ a = n * p + s
  BY <1>1
<1> HIDE DEF p, s
<1>3. p * n + s = q * n + r
  BY <1>1, <1>2 DEF a
<1>4. r = s
  BY <1>2, <1>3, MultipleAndRemainder
<1> QED BY <1>4 DEF s, a

(* The column says whether the next byte starts a row, and where it goes.  *)
LEMMA ColumnStep ==
  ASSUME NEW t \in Seq(Bytes), NEW b \in Bytes, NEW u, u = Append(t, b), b # Newline,
         NEW column \in 0 .. BUFFER_WIDTH, ColumnFits(t, column)
  PROVE  /\ StartsRow(t, b) <=> column >= BUFFER_WIDTH
         /\ column < BUFFER_WIDTH => /\ LineLength(t) % BUFFER_WIDTH = column
                                     /\ ColumnFits(u, column + 1)
         /\ column >= BUFFER_WIDTH => /\ LineLength(t) % BUFFER_WIDTH = 0
                                      /\ ColumnFits(u, 1)
<1> DEFINE w == BUFFER_WIDTH
           len == LineLength(t)
<1>1. w \in Nat \ {0}
  BY Sizes
<1>2. PICK q \in Nat : len = q * w + column /\ (q > 0 => column > 0)
  BY Zenon DEF ColumnFits
<1>3. LastStart(u) \in Nat /\ LineLength(u) = len + 1
  BY OneMoreLength, Zenon DEF ColumnFits
<1>4. StartsRow(t, b) <=> len > 0 /\ len % w = 0
  BY Zenon DEF StartsRow
<1> HIDE DEF w, len
<1>5. q * w \in Nat /\ column \in Nat /\ column <= w
  BY <1>1 DEF w
<1>6. CASE column < w
  <2>1. len % w = column
    <3>1. column \in 0 .. w - 1
      BY <1>1, <1>5, <1>6
    <3> QED BY <1>1, <1>2, <3>1, RemainderOf
  <2>2. column = 0 => len = 0
    <3> SUFFICES ASSUME column = 0 PROVE len = 0
      OBVIOUS
    <3>1. q = 0
      BY <1>2
    <3> QED BY <1>1, <1>2, <3>1
  <2>3. LineLength(u) = q * w + (column + 1) /\ column + 1 > 0
    BY <1>2, <1>3, <1>5
  <2>4. ColumnFits(u, column + 1)
    BY <1>3, <2>3, Zenon DEF ColumnFits, w
  <2>5. ~(column >= w)
    BY <1>1, <1>5, <1>6
  <2>6. len = 0 => ~(len > 0)
    OBVIOUS
  <2> QED BY <1>4, <1>6, <2>1, <2>2, <2>4, <2>5, <2>6, Zenon DEF w, len
<1>7. CASE column >= w
  <2>1. len = (q + 1) * w /\ q + 1 \in Nat
    BY <1>1, <1>2, <1>5, <1>7
  <2>2. len % w = 0
    BY <1>1, <2>1, NoRemainder
  <2>3. len > 0
    BY <1>1, <1>2, <1>5, <1>7
  <2>4. LineLength(u) = (q + 1) * w + 1 /\ 1 > 0
    BY <1>3, <2>1
  <2>5. ColumnFits(u, 1)
    BY <1>3, <2>1, <2>4, Zenon DEF ColumnFits, w
  <2>6. ~(column < w)
    BY <1>1, <1>5, <1>7
  <2> QED BY <1>4, <1>7, <2>2, <2>3, <2>5, <2>6, Zenon DEF w, len
<1>8. column < w \/ column >= w
  BY <1>1, <1>5
<1> QED BY <1>6, <1>7, <1>8

(* write_string's replacement keeps newlines apart. *)
LEMMA ShownByte ==
  ASSUME NEW b \in Bytes
  PROVE  shown(b) \in Chars /\ (shown(b) = Newline <=> b = Newline)
BY DEF shown, Chars, Newline, Square, Unprintable

LEMMA NewLineType ==
  ASSUME NEW self \in WriterType
  PROVE  /\ new_line(self) \in WriterType /\ new_line(self).column = 0
<1>1. [r \in Rows |-> IF r = LastLine THEN [c \in Cols |-> Blank] ELSE self.chars[r + 1]]
        \in [Rows -> [Cols -> Chars]]
  BY Sizes DEF WriterType, Chars
<1>2. 0 \in 0 .. BUFFER_WIDTH
  BY Sizes
<1> QED BY <1>1, <1>2 DEF new_line, Writer, WriterType

LEMMA PutType ==
  ASSUME NEW self \in WriterType, self.column < BUFFER_WIDTH, NEW ch \in Chars
  PROVE  /\ put(self, ch) \in WriterType /\ put(self, ch).column = self.column + 1
         /\ put(self, ch).chars = [self.chars EXCEPT ![LastLine][self.column] = ch]
         /\ self.column \in Cols /\ self.column \in Nat
<1>1. self.column \in Cols /\ self.column + 1 \in 0 .. BUFFER_WIDTH /\ self.column \in Nat
  BY Sizes DEF WriterType, Cols
<1>2. [self.chars EXCEPT ![LastLine][self.column] = ch] \in [Rows -> [Cols -> Chars]]
  BY <1>1, Zenon DEF WriterType
<1> QED BY <1>1, <1>2 DEF put, Writer, WriterType

-----------------------------------------------------------------------------
(* write_byte on a newline: only the rows move. *)
LEMMA NewlineWritten ==
  ASSUME NEW t \in Seq(Bytes), Newline \in Bytes, NEW u, u = Append(t, Newline),
         NEW self, Printed(self, t)
  PROVE  Printed(new_line(self), u)
<1> DEFINE n == Len(t)
           up == new_line(self)
<1>1. self \in WriterType /\ ColumnFits(t, self.column) /\ Screen(t, self.chars)
  BY Zenon DEF Printed
<1>2. StartsRow(t, Newline)
  BY Zenon DEF StartsRow
<1>3. /\ Placed(u, DOMAIN t, up.chars)
      /\ \A i \in DOMAIN t : RowsBehind(u, i) # 0
  BY <1>1, <1>2, NewRow, Zenon
<1>4. up \in WriterType /\ up.column = 0
  BY <1>1, NewLineType, Zenon
<1>5. DOMAIN u = DOMAIN t \cup {n + 1} /\ u[n + 1] = Newline
  BY OneMore, Zenon
<1>6. ColumnFits(u, 0)
  <2>1. LastStart(u) \in Nat /\ LineLength(u) = 0
    BY <1>1, OneMoreLength, Zenon DEF ColumnFits
  <2>2. 0 \in Nat /\ 0 = 0 * BUFFER_WIDTH + 0 /\ ~(0 > 0)
    BY Sizes
  <2> QED BY <2>1, <2>2, Zenon DEF ColumnFits
<1> HIDE DEF n, up
<1>7. LeftOf(u, 0)
  BY <1>3, <1>5, Zenon DEF LeftOf
<1>8. Screen(u, up.chars)
  <2>1. \A r \in Rows, c \in Cols : ~Shows(u, r, c, n + 1)
    BY <1>5, Zenon DEF Shows
  <2>2. ASSUME NEW r \in Rows, NEW c \in Cols
        PROVE  IF \E i \in DOMAIN u : Shows(u, r, c, i)
               THEN \A i \in DOMAIN u : Shows(u, r, c, i) => up.chars[r][c] = shown(u[i])
               ELSE up.chars[r][c] = IF r + Cardinality(RowStarts(u)) > LastLine THEN Blank ELSE Old
    <3>1. IF \E i \in DOMAIN t : Shows(u, r, c, i)
          THEN \A i \in DOMAIN t : Shows(u, r, c, i) => up.chars[r][c] = shown(u[i])
          ELSE up.chars[r][c] = IF r + Cardinality(RowStarts(u)) > LastLine THEN Blank ELSE Old
      BY <1>3, Zenon DEF Placed
    <3>2. \A i : i \in DOMAIN u /\ Shows(u, r, c, i) <=> i \in DOMAIN t /\ Shows(u, r, c, i)
      BY <1>5, <2>1, Zenon
    <3> QED BY <3>1, <3>2, Zenon
  <2> QED BY <2>2, Zenon DEF Screen
<1> QED BY <1>4, <1>6, <1>7, <1>8, Zenon DEF Printed, up

(* ... on a byte that fits on the row ... *)
LEMMA ByteOnRow ==
  ASSUME NEW t \in Seq(Bytes), NEW b \in Bytes, NEW u, u = Append(t, b), b # Newline,
         NEW self, Printed(self, t), self.column < BUFFER_WIDTH
  PROVE  Printed(put(self, shown(b)), u)
<1> DEFINE n == Len(t)
           col == self.column
           after == put(self, shown(b))
<1>1. /\ self \in WriterType /\ ColumnFits(t, col) /\ LeftOf(t, col)
      /\ Screen(t, self.chars)
  BY Zenon DEF Printed
<1>2. /\ after \in WriterType /\ after.column = col + 1 /\ col \in Cols /\ col \in Nat
      /\ after.chars = [self.chars EXCEPT ![LastLine][col] = shown(b)]
  BY <1>1, ShownByte, PutType, Zenon
<1>3. col \in 0 .. BUFFER_WIDTH /\ self.chars \in [Rows -> [Cols -> Chars]]
  BY <1>1 DEF WriterType
<1>4. /\ StartsRow(t, b) <=> col >= BUFFER_WIDTH
      /\ LineLength(t) % BUFFER_WIDTH = col /\ ColumnFits(u, col + 1)
  BY <1>1, <1>3, ColumnStep, Zenon
<1>5. ~StartsRow(t, b)
  BY <1>2, <1>4, Sizes
<1>6. Placed(u, DOMAIN t, self.chars)
  BY <1>1, <1>5, SameRow, Zenon
<1>7. /\ \A i \in DOMAIN t : Offset(u, i) = Offset(t, i)
      /\ Offset(u, n + 1) % BUFFER_WIDTH = col
  BY <1>4, OneMoreOnLine, Zenon
<1>8. \A i \in DOMAIN t : u[i] = t[i]
  BY OneMore
<1>9. DOMAIN u = DOMAIN t \cup {n + 1}
  BY OneMore, Zenon
<1>10. \A i \in DOMAIN t : RowsBehind(u, i) = RowsBehind(t, i) /\ RowsBehind(t, i) \in Nat
  <2>1. \A i \in DOMAIN t : RowsBehind(t, i) \in Nat /\ RowsBehind(u, i) = RowsBehind(t, i) + 0
    BY <1>5, OneMoreBehind, Zenon
  <2> QED BY <2>1
<1> HIDE DEF n, col, after
<1>11. \A i \in DOMAIN t : u[i] # Newline /\ RowsBehind(u, i) = 0
                           => Offset(u, i) % BUFFER_WIDTH \in 0 .. col - 1
  BY <1>1, <1>7, <1>8, <1>10, Zenon DEF LeftOf
<1>12. LeftOf(u, col + 1)
  <2>1. \A x \in 0 .. col - 1 : x \in 0 .. (col + 1) - 1
    BY <1>2
  <2>2. col \in 0 .. (col + 1) - 1
    BY <1>2
  <2> QED BY <1>7, <1>9, <1>11, <2>1, <2>2, Zenon DEF LeftOf
<1>13. \A i \in DOMAIN t : ~Shows(u, LastLine, col, i)
  <2> SUFFICES ASSUME NEW i \in DOMAIN t, Shows(u, LastLine, col, i) PROVE FALSE
    OBVIOUS
  <2>1. /\ u[i] # Newline /\ LastLine + RowsBehind(u, i) = LastLine
        /\ Offset(u, i) % BUFFER_WIDTH = col
    BY Zenon DEF Shows
  <2>2. RowsBehind(u, i) = 0
    BY <1>10, <2>1, Sizes
  <2>3. col \in 0 .. col - 1
    BY <1>11, <2>1, <2>2, Zenon
  <2> QED BY <1>2, <2>3
<1>14. Screen(u, [self.chars EXCEPT ![LastLine][col] = shown(b)])
  BY <1>2, <1>3, <1>6, <1>7, <1>13, LastByte, Zenon DEF n
<1> QED BY <1>2, <1>4, <1>12, <1>14, Zenon DEF Printed, after, col

(* ... and on one that does not. *)
LEMMA ByteOnNewRow ==
  ASSUME NEW t \in Seq(Bytes), NEW b \in Bytes, NEW u, u = Append(t, b), b # Newline,
         NEW self, Printed(self, t), self.column >= BUFFER_WIDTH
  PROVE  Printed(put(new_line(self), shown(b)), u)
<1> DEFINE n == Len(t)
           up == new_line(self)
           after == put(up, shown(b))
<1>1. /\ self \in WriterType /\ ColumnFits(t, self.column) /\ Screen(t, self.chars)
  BY Zenon DEF Printed
<1>2. up \in WriterType /\ up.column = 0
  BY <1>1, NewLineType, Zenon
<1>3. 0 < BUFFER_WIDTH /\ 0 + 1 = 1 /\ self.column \in 0 .. BUFFER_WIDTH
  BY <1>1, Sizes DEF WriterType
<1>4. /\ after \in WriterType /\ after.column = 1 /\ 0 \in Cols
      /\ after.chars = [up.chars EXCEPT ![LastLine][0] = shown(b)]
  <2>1. up.column < BUFFER_WIDTH /\ up.column + 1 = 1
    BY <1>2, <1>3, Zenon
  <2> HIDE DEF up
  <2> QED BY <1>2, <2>1, ShownByte, PutType, Zenon
<1>5. StartsRow(t, b) /\ LineLength(t) % BUFFER_WIDTH = 0 /\ ColumnFits(u, 1)
  BY <1>1, <1>3, ColumnStep, Zenon
<1>6. /\ Placed(u, DOMAIN t, up.chars)
      /\ \A i \in DOMAIN t : ~Shows(u, LastLine, 0, i)
      /\ \A i \in DOMAIN t : RowsBehind(u, i) # 0
  BY <1>1, <1>4, <1>5, NewRow, Zenon
<1>7. Offset(u, n + 1) % BUFFER_WIDTH = 0
  BY <1>5, OneMoreOnLine, Zenon
<1>8. DOMAIN u = DOMAIN t \cup {n + 1}
  BY OneMore, Zenon
<1>9. up.chars \in [Rows -> [Cols -> Chars]]
  <2> HIDE DEF up
  <2> QED BY <1>2 DEF WriterType
<1> HIDE DEF n, up, after
<1>10. LeftOf(u, 1)
  <2>1. 0 \in 0 .. 1 - 1
    OBVIOUS
  <2> QED BY <1>6, <1>7, <1>8, <2>1, Zenon DEF LeftOf
<1>11. Screen(u, [up.chars EXCEPT ![LastLine][0] = shown(b)])
  BY <1>4, <1>6, <1>7, <1>9, LastByte, Zenon DEF n
<1> QED BY <1>4, <1>5, <1>10, <1>11, Zenon DEF Printed, after, up

LEMMA ByteWritten ==
  ASSUME NEW t \in Seq(Bytes), NEW b \in Bytes, NEW self, Printed(self, t)
  PROVE  Printed(write_byte(self, shown(b)), Append(t, b))
<1> DEFINE u == Append(t, b)
<1> HIDE DEF u
<1>1. CASE b = Newline
  <2>1. Printed(new_line(self), u)
    BY <1>1, NewlineWritten, Zenon DEF u
  <2>2. shown(b) = Newline
    BY <1>1, ShownByte, Zenon
  <2> QED BY <2>1, <2>2, Zenon DEF write_byte, u
<1>2. CASE b # Newline
  <2>1. shown(b) # Newline
    BY <1>2, ShownByte, Zenon
  <2>2. self.column \in 0 .. BUFFER_WIDTH
    BY DEF Printed, WriterType
  <2>3. self.column < BUFFER_WIDTH <=> ~(self.column >= BUFFER_WIDTH)
    BY <2>2, Sizes
  <2>4. CASE self.column < BUFFER_WIDTH
    BY <1>2, <2>1, <2>3, <2>4, ByteOnRow, Zenon DEF write_byte, u
  <2>5. CASE self.column >= BUFFER_WIDTH
    BY <1>2, <2>1, <2>5, ByteOnNewRow, Zenon DEF write_byte, u
  <2> QED BY <2>3, <2>4, <2>5, Zenon DEF u
<1> QED BY <1>1, <1>2, Zenon

-----------------------------------------------------------------------------
(* The loop of write_string: g is the writer after each byte of s. *)
IsLoop(g, self, s) ==
  /\ write_string(self, s) = g[Len(s)] /\ g[0] = self
  /\ \A n \in 1 .. Len(s) : g[n] = write_byte(g[n - 1], shown(s[n]))

LEMMA Written ==
  ASSUME NEW self, NEW s \in Seq(Bytes)
  PROVE  \E g : IsLoop(g, self, s)
<1> DEFINE len == Len(s)
           at(g, n) == IF n = 0 THEN self ELSE write_byte(g[n - 1], shown(s[n]))
           IsRun(g, m) == g = [n \in 0 .. m |-> at(g, n)]
           run == CHOOSE g : IsRun(g, len)
           T == {m \in 0 .. len : \E g : IsRun(g, m)}
<1>1. len \in Nat
  OBVIOUS
<1>2. write_string(self, s) = run[len]
  BY Zenon DEF write_string
<1> HIDE DEF len
<1>3. 0 \in T
  <2>1. IsRun([n \in 0 .. 0 |-> self], 0)
    OBVIOUS
  <2> HIDE DEF IsRun
  <2> QED BY <1>1, <2>1
<1>4. ASSUME NEW m \in 1 .. len, m - 1 \in T PROVE m \in T
  <2>1. PICK g : IsRun(g, m - 1)
    BY <1>4
  <2> DEFINE h == [n \in 0 .. m |-> IF n = m THEN at(g, m) ELSE g[n]]
  <2>2. \A n \in 0 .. m : at(h, n) = at(g, n)
    <3>1. \A n \in 1 .. m : h[n - 1] = g[n - 1]
      BY <1>1
    <3> QED BY <1>1, <3>1
  <2>3. \A n \in 0 .. m : h[n] = at(h, n)
    <3> HIDE DEF at
    <3>1. \A n \in 0 .. m : h[n] = at(g, n)
      BY <1>1, <2>1, SMTT(30)
    <3> QED BY <2>2, <3>1
  <2>4. IsRun(h, m)
    <3> HIDE DEF at
    <3> QED BY <2>3
  <2> HIDE DEF IsRun
  <2> QED BY <1>4, <2>4
<1>5. len \in T
  <2> HIDE DEF T
  <2>1. 0 .. len \subseteq T
    BY <1>1, <1>3, <1>4, UpTo
  <2> QED BY <1>1, <2>1
<1>6. IsRun(run, len)
  BY <1>5, Zenon
<1> HIDE DEF run
<1>7. \A n \in 0 .. len : run[n] = at(run, n)
  <2> HIDE DEF at
  <2> QED BY <1>6, Zenon
<1>8. run[0] = self
  BY <1>1, <1>7
<1>9. \A n \in 1 .. len : run[n] = write_byte(run[n - 1], shown(s[n]))
  BY <1>1, <1>7
<1>10. IsLoop(run, self, s)
  BY <1>2, <1>8, <1>9, Zenon DEF len, IsLoop
<1> QED BY <1>10, Zenon

(* A string is written byte by byte. *)
LEMMA StringWritten ==
  ASSUME NEW t \in Seq(Bytes), NEW s \in Seq(Bytes), NEW self, Printed(self, t)
  PROVE  Printed(write_string(self, s), t \o s)
<1>0. PICK g : IsLoop(g, self, s)
  BY Written, Zenon
<1> DEFINE len == Len(s)
           upto(n) == t \o SubSeq(s, 1, n)
<1>1. /\ write_string(self, s) = g[len] /\ g[0] = self
      /\ \A n \in 1 .. len : g[n] = write_byte(g[n - 1], shown(s[n]))
  BY <1>0, Zenon DEF IsLoop
<1> DEFINE S == {n \in 0 .. len : Printed(g[n], upto(n))}
<1>2. len \in Nat
  OBVIOUS
<1>3. upto(0) = t
  OBVIOUS
<1>4. upto(len) = t \o s
  OBVIOUS
<1>5. \A n \in 1 .. len : /\ upto(n - 1) \in Seq(Bytes) /\ s[n] \in Bytes
                          /\ upto(n) = Append(upto(n - 1), s[n])
  OBVIOUS
<1> HIDE DEF len, upto
<1>6. 0 \in S
  BY <1>1, <1>2, <1>3
<1>7. ASSUME NEW n \in 1 .. len, n - 1 \in S PROVE n \in S
  <2>1. Printed(g[n - 1], upto(n - 1))
    BY <1>7, Zenon
  <2>2. Printed(write_byte(g[n - 1], shown(s[n])), Append(upto(n - 1), s[n]))
    BY <1>5, <2>1, ByteWritten, Zenon
  <2>3. Printed(g[n], upto(n))
    BY <1>1, <1>5, <2>2, Zenon
  <2> QED BY <1>2, <2>3
<1> HIDE DEF S
<1>8. 0 .. len \subseteq S
  BY <1>2, <1>6, <1>7, UpTo, Zenon
<1>9. len \in S
  BY <1>2, <1>8
<1> QED BY <1>1, <1>4, <1>9, Zenon DEF S

-----------------------------------------------------------------------------
(* With one writer, in every reachable state: its column and the buffer    *)
(* are those of a writer that has printed the text so far.  This is the    *)
(* inductive invariant; that the column follows from the text is what lets *)
(* write_byte wrap a row exactly where the reference definition does.      *)
THEOREM WriterInvariant ==
  ASSUME NEW w, Writers = {w}
  PROVE  Spec => []WriterInv(w)
<1>1. Init => WriterInv(w)
  <2> SUFFICES ASSUME Init PROVE WriterInv(w)
    OBVIOUS
  <2> DEFINE self == Writer(column_position[w], chars)
  <2>1. /\ text = <<>> /\ text \in Seq(Bytes) /\ Len(text) = 0 /\ DOMAIN text = {}
        /\ column_position = [v \in {w} |-> column_position[w]] /\ column_position[w] = 0
        /\ chars = [r \in Rows |-> [c \in Cols |-> Old]]
    BY DEF Init
  <2>2. self.column = 0 /\ self.chars = chars /\ self \in WriterType
    BY <2>1, Sizes DEF Writer, WriterType, Chars
  <2>3. Newlines(text) = {} /\ RowStarts(text) = {}
    BY <2>1 DEF Newlines, RowStarts
  <2>4. LastStart(text) = 0
    <3>1. \A x, y \in {0} : x >= y
      OBVIOUS
    <3>2. LastStart(text) = CHOOSE x \in {0} : \A y \in {0} : x >= y
      BY <2>3 DEF LastStart, Max
    <3> QED BY <3>1, <3>2
  <2>5. ColumnFits(text, 0)
    <3>1. LineLength(text) = 0 * BUFFER_WIDTH + 0 /\ ~(0 > 0) /\ 0 \in Nat
      BY <2>1, <2>4, Sizes DEF LineLength
    <3> QED BY <2>4, <3>1, Zenon DEF ColumnFits
  <2>6. LeftOf(text, 0)
    BY <2>1, Zenon DEF LeftOf
  <2>7. Screen(text, chars)
    <3>1. Cardinality(RowStarts(text)) = 0
      BY <2>3, FS_EmptySet, Zenon
    <3>2. \A r \in Rows : ~(r + Cardinality(RowStarts(text)) > LastLine)
      BY <3>1, Sizes
    <3>3. \A r \in Rows, c \in Cols : chars[r][c] = Old
      BY <2>1
    <3> QED BY <2>1, <3>2, <3>3, Zenon DEF Screen
  <2> HIDE DEF self
  <2>8. Printed(self, text)
    BY <2>2, <2>5, <2>6, <2>7, Zenon DEF Printed
  <2> QED BY <2>1, <2>8, Zenon DEF WriterInv, self
<1>2. WriterInv(w) /\ [Next]_vars => WriterInv(w)'
  <2> SUFFICES ASSUME WriterInv(w), [Next]_vars PROVE WriterInv(w)'
    OBVIOUS
  <2>1. ASSUME NEW s \in Strings[w], _print(w, s) PROVE WriterInv(w)'
    <3> DEFINE self == Writer(column_position[w], chars)
               after == write_string(self, s)
    <3>1. /\ column_position' = [column_position EXCEPT ![w] = after.column]
          /\ chars' = after.chars /\ text' = text \o s
      BY <2>1, Zenon DEF _print
    <3>2. s \in Seq(Bytes)
      BY StringsAssumption
    <3>3. /\ text \in Seq(Bytes) /\ Printed(self, text)
          /\ column_position = [v \in {w} |-> column_position[w]]
      BY Zenon DEF WriterInv
    <3> HIDE DEF self
    <3>4. Printed(after, text \o s) /\ text \o s \in Seq(Bytes)
      <4>1. text \o s \in Seq(Bytes)
        BY <3>2, <3>3
      <4> QED BY <3>2, <3>3, <4>1, StringWritten, Zenon
    <3> HIDE DEF after
    <3>5. after \in WriterType
      BY <3>4, Zenon DEF Printed
    <3>6. after = Writer(after.column, after.chars)
      BY <3>5 DEF WriterType, Writer
    <3>7. column_position' = [v \in {w} |-> after.column]
      BY <3>1, <3>3, Zenon
    <3>8. column_position'[w] = after.column
      BY <3>7
    <3>9. column_position' = [v \in {w} |-> column_position'[w]]
      BY <3>7, <3>8, Zenon
    <3>10. Printed(Writer(column_position'[w], chars'), text')
      BY <3>1, <3>4, <3>6, <3>8, Zenon
    <3> QED BY <3>1, <3>4, <3>9, <3>10, Zenon DEF WriterInv, Printed, Screen, ColumnFits, LeftOf
  <2>2. CASE UNCHANGED vars
    BY <2>2, Zenon DEF vars, WriterInv, Printed, Screen
  <2> QED BY <2>1, <2>2, Zenon DEF Next
<1> QED BY <1>1, <1>2, PTL DEF Spec

(* With one writer the screen always shows the text that was printed, for  *)
(* every buffer size and all strings: write_string, write_byte, new_line   *)
(* and clear_row place every byte where the reference definition has it.   *)
THEOREM ScreenAlwaysShowsText ==
  ASSUME NEW w, Writers = {w}
  PROVE  Spec => []ScreenShowsText
<1>1. WriterInv(w) => ScreenShowsText
  BY Zenon DEF WriterInv, Printed, ScreenShowsText, Writer
<1> QED BY <1>1, WriterInvariant, PTL

(* What vga_buffer.rs:65 says of column_position is true of one writer:    *)
(* nothing is written in the last row at the column or behind it.  Two     *)
(* instances of WRITER are what breaks it.                                 *)
THEOREM OneWriterColumn ==
  ASSUME NEW w, Writers = {w}
  PROVE  Spec => []ColumnIsPosition
<1>1. ASSUME WriterInv(w) PROVE ColumnIsPosition
  <2> DEFINE column == column_position[w]
  <2>1. text \in Seq(Bytes) /\ column \in Nat /\ LeftOf(text, column) /\ Screen(text, chars)
    BY <1>1 DEF WriterInv, Printed, Writer, WriterType
  <2> HIDE DEF column
  <2> SUFFICES ASSUME NEW c \in Cols, c >= column PROVE chars[LastLine][c] \in {Blank, Old}
    BY Zenon DEF ColumnIsPosition, column
  <2>2. \A i \in DOMAIN text : ~Shows(text, LastLine, c, i)
    <3> SUFFICES ASSUME NEW i \in DOMAIN text, Shows(text, LastLine, c, i) PROVE FALSE
      OBVIOUS
    <3>1. /\ text[i] # Newline /\ LastLine + RowsBehind(text, i) = LastLine
          /\ Offset(text, i) % BUFFER_WIDTH = c
      BY Zenon DEF Shows
    <3>2. text[i] \in Bytes
      BY <2>1
    <3>3. RowsBehind(text, i) \in Nat
      BY <2>1, <3>2, OneMoreBehind, Zenon
    <3>4. RowsBehind(text, i) = 0
      BY <3>1, <3>3, Sizes
    <3>5. c \in 0 .. column - 1
      BY <2>1, <3>1, <3>4, Zenon DEF LeftOf
    <3> QED BY <2>1, <3>5
  <2>3. LastLine \in Rows
    BY Sizes, Zenon
  <2> QED BY <2>1, <2>2, <2>3, Zenon DEF Screen
<1> QED BY <1>1, WriterInvariant, PTL
=============================================================================
