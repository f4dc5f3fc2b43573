------------------------------- MODULE Format -------------------------------
(***************************************************************************)
(* The conversions of the C library (user/libc) and of the kernel          *)
(* (kernel/graph/lib/string.c, kernel/communication/serial.c): numbers to  *)
(* texts and back, the printf family, words, sorting.                      *)
(*                                                                         *)
(* A text is a sequence of characters.  An argument of printf is a text    *)
(* for s, a number for d, u and x, a character for c; a format takes the   *)
(* arguments it expects.                                                   *)
(***************************************************************************)
EXTENDS Integers, Sequences, SequencesExt, FiniteSets

Figures == <<"0", "1", "2", "3", "4", "5", "6", "7", "8", "9", "a", "b", "c", "d", "e", "f">>
Decimal == {Figures[i] : i \in 1 .. 10}
Figure(c) == CHOOSE i \in 0 .. 15 : Figures[i + 1] = c

-----------------------------------------------------------------------------
(* Numbers                                                                 *)

\* Digits are found from the last; the text has them the other way round.
uitoa(v, base) ==
    LET d[n \in Nat] == IF n = 0 THEN <<>>
                        ELSE Append(d[n \div base], Figures[(n % base) + 1])
    IN IF v = 0 THEN <<"0">> ELSE d[v]

str_append_uint(dest, v) == dest \o uitoa(v, 10)

\* The kernel's has its letters in upper case.
Capital == [c \in Range(Figures) |-> IF c \in Decimal THEN c ELSE
                <<"A", "B", "C", "D", "E", "F">>[Figure(c) - 9]]
str_from_hex(v) == [i \in DOMAIN uitoa(v, 16) |-> Capital[uitoa(v, 16)[i]]]

\* bug: the digits are left as they were found
FaultStrFromInt(v, min) ==
    IF v < 0 THEN <<"-">> \o Reverse(uitoa(-v, 10)) ELSE Reverse(uitoa(v, 10))

\* -INT_MIN is INT_MIN: no digit is written.
str_from_int(v, min) ==
    CASE v = min             -> <<"-">>
      [] v < 0 /\ v # min    -> <<"-">> \o uitoa(-v, 10)
      [] OTHER               -> uitoa(v, 10)

\* Characters are read as long as they are digits of the base.
Value(digits, base) == FoldLeft(LAMBDA n, c : n * base + Figure(c), 0, digits)
Until(s, stop) ==
    LET stops == {i \in DOMAIN s : s[i] \in stop}
    IN IF stops = {} THEN s
       ELSE SubSeq(s, 1, (CHOOSE i \in stops : \A j \in stops : i <= j) - 1)
Leading(s, set) == Until(s, Range(s) \ set)
Rest(s, n) == SubSeq(s, n + 1, Len(s))
Skip(s, set) == Rest(s, Len(Leading(s, set)))

SignOf(s) == IF s # <<>> /\ s[1] = "-" THEN -1 ELSE 1
Unsigned(s) == IF s # <<>> /\ s[1] \in {"-", "+"} THEN Tail(s) ELSE s

str_to_int(s) ==
    LET d == Skip(s, {" ", "tab"})
    IN SignOf(d) * Value(Leading(Unsigned(d), Decimal), 10)

\* Base 0 takes the base from the text: 0x is 16, 0 is 8.
strtol(s, base) ==
    LET spaced == Skip(s, {" "})
        d == Unsigned(spaced)
        hex == Len(d) >= 2 /\ d[1] = "0" /\ d[2] = "x"
        b == CASE base # 0           -> base
               [] base = 0 /\ hex    -> 16
               [] base = 0 /\ ~hex /\ d # <<>> /\ d[1] = "0" -> 8
               [] OTHER              -> 10
        e == IF b = 16 /\ hex THEN Rest(d, 2) ELSE d
    IN SignOf(spaced) * Value(Leading(e, {Figures[i] : i \in 1 .. b}), b)

-----------------------------------------------------------------------------
(* printf of the C library                                                 *)

Padded(text, width, pad) ==
    [i \in 1 .. (IF width > Len(text) THEN width - Len(text) ELSE 0) |-> pad] \o text

\* One conversion: what is written, and whether it took an argument.
Conversion(c, s) ==
    LET v == Head(s.args)
    IN CASE c = "s" -> [text |-> v, takes |-> TRUE]
         [] c = "d" -> [text |-> IF v < 0 THEN <<"-">> \o Padded(uitoa(-v, 10), s.width, s.pad)
                                 ELSE Padded(uitoa(v, 10), s.width, s.pad), takes |-> TRUE]
         [] c = "u" -> [text |-> Padded(uitoa(v, 10), s.width, s.pad), takes |-> TRUE]
         [] c = "x" -> [text |-> Padded(uitoa(v, 16), s.width, s.pad), takes |-> TRUE]
         [] c = "p" -> [text |-> <<"0", "x">> \o uitoa(v, 16), takes |-> TRUE]
         [] c = "c" -> [text |-> <<v>>, takes |-> TRUE]
         [] c = "%" -> [text |-> <<"%">>, takes |-> FALSE]
         [] OTHER   -> [text |-> IF s.long THEN <<"%", "l", c>> ELSE <<"%", c>>, takes |-> FALSE]

Converted(s, c, conv) ==
    [s EXCEPT !.at = "text", !.out = @ \o conv.text,
              !.args = IF conv.takes THEN Tail(@) ELSE @]

Plain == [at |-> "text", pad |-> " ", width |-> 0, long |-> FALSE, out |-> <<>>, args |-> <<>>]

\* One character of the format.  A zero is read as a flag before the width
\* only: a width with a zero in it ends there.
Scan(s, c) ==
    CASE s.at = "text" /\ c # "%" -> [s EXCEPT !.out = Append(@, c)]
      [] s.at = "text" /\ c = "%" -> [s EXCEPT !.at = "flag", !.pad = " ", !.width = 0, !.long = FALSE]
      [] s.at = "flag" /\ c = "0" -> [s EXCEPT !.at = "width", !.pad = "0"]
      [] s.at \in {"flag", "width"} /\ c \in Decimal \ {"0"} ->
            [s EXCEPT !.at = "width", !.width = @ * 10 + Figure(c)]
      [] s.at \in {"flag", "width"} /\ c = "l" -> [s EXCEPT !.at = "long", !.long = TRUE]
      [] OTHER -> Converted(s, c, Conversion(c, s))

\* bug: the width and the padding stay from one conversion to the next
FaultVsnprintf(fmt, args) ==
    FoldLeft(LAMBDA s, c : IF s.at = "text" /\ c = "%" THEN [s EXCEPT !.at = "flag"] ELSE Scan(s, c),
             [Plain EXCEPT !.args = args], fmt).out

vsnprintf(fmt, args) == FoldLeft(Scan, [Plain EXCEPT !.args = args], fmt).out

\* What fits in the buffer; printf's has 512 characters.
Fits(text, size) == SubSeq(text, 1, IF Len(text) < size THEN Len(text) ELSE size - 1)

-----------------------------------------------------------------------------
(* printf of the serial line                                               *)

Nibbles(v, digits) == Padded(uitoa(v, 16), digits, "0")

SerialConversion(c, s) ==
    LET v == Head(s.args)
    IN CASE c \in {"d", "i"} -> [text |-> IF v < 0 THEN <<"-">> \o uitoa(-v, 10) ELSE uitoa(v, 10),
                                 takes |-> TRUE]
         [] c = "u"          -> [text |-> uitoa(v, 10), takes |-> TRUE]
         [] c \in {"x", "X"} -> [text |-> <<"0", "x">> \o Nibbles(v, IF s.long THEN 16 ELSE 8),
                                 takes |-> TRUE]
         [] c = "p"          -> [text |-> <<"0", "x">> \o Nibbles(v, 16), takes |-> TRUE]
         [] c = "s"          -> [text |-> v, takes |-> TRUE]
         [] c = "c"          -> [text |-> <<v>>, takes |-> TRUE]
         [] c = "%"          -> [text |-> <<"%">>, takes |-> FALSE]
         [] OTHER            -> [text |-> IF s.long THEN <<"%", "l", c>> ELSE <<"%", c>>, takes |-> FALSE]

\* Flags, width and precision are read over.
SerialScan(s, c) ==
    CASE s.at = "text" /\ c # "%" -> [s EXCEPT !.out = Append(@, c)]
      [] s.at = "text" /\ c = "%" -> [s EXCEPT !.at = "flag", !.long = FALSE]
      [] s.at = "flag" /\ c \in {"0", "-", "+", " ", "#"} -> s
      [] s.at \in {"flag", "width"} /\ c \in Decimal -> [s EXCEPT !.at = "width"]
      [] s.at \in {"flag", "width"} /\ c = "." -> [s EXCEPT !.at = "digits"]
      [] s.at = "digits" /\ c \in Decimal -> s
      [] s.at # "text" /\ c = "l" -> [s EXCEPT !.at = "long", !.long = TRUE]
      [] OTHER -> Converted(s, c, SerialConversion(c, s))

\* bug: a flag or a width makes the conversion an unknown one
FaultSerial(fmt, args) ==
    FoldLeft(LAMBDA s, c : IF s.at = "flag" /\ c \in {"0", "-"}
                           THEN [s EXCEPT !.at = "text", !.out = @ \o <<"%", c>>]
                           ELSE SerialScan(s, c),
             [Plain EXCEPT !.args = args], fmt).out

serial_printf(fmt, args) == FoldLeft(SerialScan, [Plain EXCEPT !.args = args], fmt).out

-----------------------------------------------------------------------------
(* Words and sorting                                                       *)

\* strtok for a text, or for what the last call has left (none, or <<text>>):
\* the word, none at the end, and what is left.
strtok(left, delim) ==
    LET from == IF left = <<>> THEN <<>> ELSE Skip(left[1], delim)
        word == Until(from, delim)
    IN IF from = <<>> THEN [word |-> <<>>, left |-> <<>>]
       ELSE [word |-> <<word>>,
             left |-> IF Len(word) = Len(from) THEN <<>> ELSE <<Rest(from, Len(word) + 1)>>]

str_trim(s) ==
    LET space == {" ", "tab", "nl"}
    IN Reverse(Skip(Reverse(Skip(s, space)), space))

\* Insertion: an element, here a pair of a key and what comes with it, goes
\* before those with a greater key.
Inserted(sorted, x) ==
    LET n == Len(sorted)
        stay == {i \in 0 .. n : \A j \in (i + 1) .. n : sorted[j][1] > x[1]}
        at == CHOOSE i \in stay : \A j \in stay : i <= j
    IN SubSeq(sorted, 1, at) \o <<x>> \o SubSeq(sorted, at + 1, n)

qsort(s) == FoldLeft(Inserted, <<>>, s)
=============================================================================
