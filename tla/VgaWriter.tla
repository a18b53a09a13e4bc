----------------------------- MODULE VgaWriter -----------------------------
(***************************************************************************)
(* vga_buffer.rs: writers that print text on the last row of the VGA       *)
(* buffer and scroll it up, compared with a definition of where each byte  *)
(* of the printed text belongs on the screen.                              *)
(*                                                                         *)
(* The library's WRITER and the one that main.rs gets by compiling the     *)
(* file a second time share the buffer and nothing else.  _print writes a  *)
(* whole string with interrupts off and the lock held, so it is one step.  *)
(***************************************************************************)
EXTENDS Naturals, Sequences, FiniteSets, FiniteSetsExt

CONSTANTS BUFFER_HEIGHT, BUFFER_WIDTH,
          Writers,  \* the instances of WRITER
          Bytes,
          Strings,  \* what each of them prints: sequences of bytes
          MaxText   \* bound: bytes printed in one boot

ASSUME BufferAssumption ==
  BUFFER_HEIGHT \in Nat \ {0} /\ BUFFER_WIDTH \in Nat \ {0}

ASSUME StringsAssumption == \A w \in Writers : Strings[w] \subseteq Seq(Bytes)

Newline == "\n"
Unprintable == "unprintable"   \* a byte outside 0x20..0x7e
Square == "0xfe"
Blank == "blank"
Old == "old"                   \* what was on the screen before the kernel

VARIABLES column_position, \* of each writer
          chars,           \* Buffer.chars
          text             \* history: the bytes printed, by any writer

vars == <<column_position, chars, text>>

Rows == 0 .. BUFFER_HEIGHT - 1
Cols == 0 .. BUFFER_WIDTH - 1
LastLine == BUFFER_HEIGHT - 1

(* WRITER of each crate *)
Init ==
  /\ column_position = [w \in Writers |-> 0]
  /\ chars = [r \in Rows |-> [c \in Cols |-> Old]]
  /\ text = <<>>

-----------------------------------------------------------------------------
(* A writer at work is a record of its column and of the buffer. *)
Writer(column, buffer) == [column |-> column, chars |-> buffer]

(* new_line copies each row to the one above; clear_row blanks the last. *)
new_line(self) ==
  Writer(0, [r \in Rows |-> IF r = LastLine THEN [c \in Cols |-> Blank]
                            ELSE self.chars[r + 1]])

(* A byte other than a newline, at the column of the last row *)
put(self, byte) ==
  Writer(self.column + 1, [self.chars EXCEPT ![LastLine][self.column] = byte])

(* Mutation: the row is full one byte too late. *)
write_byte_late(self, byte) ==
  IF byte = Newline THEN new_line(self)
  ELSE put(IF self.column > BUFFER_WIDTH THEN new_line(self) ELSE self, byte)

write_byte(self, byte) ==
  IF byte = Newline THEN new_line(self)
  ELSE put(IF self.column >= BUFFER_WIDTH THEN new_line(self) ELSE self, byte)

(* write_string replaces what is not printable ASCII by a square. *)
shown(byte) == IF byte = Unprintable THEN Square ELSE byte

write_string(self, s) ==
  LET written[n \in 0 .. Len(s)] ==
        IF n = 0 THEN self ELSE write_byte(written[n - 1], shown(s[n]))
  IN written[Len(s)]

_print(w, s) ==
  LET after == write_string(Writer(column_position[w], chars), s)
  IN /\ Len(text) + Len(s) <= MaxText
     /\ column_position' = [column_position EXCEPT ![w] = after.column]
     /\ chars' = after.chars
     /\ text' = text \o s

Next == \E w \in Writers : \E s \in Strings[w] : _print(w, s)

Spec == Init /\ [][Next]_vars

-----------------------------------------------------------------------------
(* Where the bytes of a text t belong.  A line starts behind a newline, or *)
(* at the first byte, and byte i is Offset bytes behind its start.  A row  *)
(* of the screen starts with each newline and with each byte for which the *)
(* row before is full.                                                     *)
Newlines(t) == {i \in DOMAIN t : t[i] = Newline}
Offset(t, i) == i - 1 - Max({0} \cup {j \in Newlines(t) : j < i})
RowStarts(t) ==
  Newlines(t) \cup {i \in DOMAIN t : Offset(t, i) > 0 /\ Offset(t, i) % BUFFER_WIDTH = 0}

(* The last row shows the row of the text that started last, so a byte is  *)
(* as many rows further up as have started behind it.                      *)
RowsBehind(t, i) == Cardinality({j \in RowStarts(t) : j > i})
Shows(t, r, c, i) ==
  /\ t[i] # Newline
  /\ r + RowsBehind(t, i) = LastLine
  /\ Offset(t, i) % BUFFER_WIDTH = c

(* The cells of a buffer show the end of text t, each line wrapped at the  *)
(* width, below what was there before; unwritten cells are blank except on *)
(* the row where the kernel began.                                         *)
Screen(t, buffer) ==
  \A r \in Rows, c \in Cols :
    IF \E i \in DOMAIN t : Shows(t, r, c, i)
    THEN \A i \in DOMAIN t : Shows(t, r, c, i) => buffer[r][c] = shown(t[i])
    ELSE buffer[r][c] = IF r + Cardinality(RowStarts(t)) > LastLine THEN Blank ELSE Old

(* With one writer the screen shows the text: write_byte, new_line and     *)
(* clear_row keep this up whatever is printed.                             *)
ScreenShowsText == Screen(text, chars)

(* vga_buffer.rs:65 says of the column that it "keeps track of the current *)
(* position in the last row": nothing is written there or behind it.       *)
ColumnIsPosition ==
  \A w \in Writers, c \in Cols :
    c >= column_position[w] => chars[LastLine][c] \in {Blank, Old}
=============================================================================
