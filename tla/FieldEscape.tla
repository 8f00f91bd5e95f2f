------------------------------ MODULE FieldEscape ------------------------------
(***************************************************************************)
(* csv_escape_quoted and json_escape_quoted of auth.c, which write a guest's *)
(* field into a buffer of dst_len bytes, and the row of                     *)
(* registered_clients.csv the first one is written for.  Bytes are named    *)
(* after what the two loops, or a reader of the row, make of them; a        *)
(* character of two bytes is "lead" followed by "tail".                     *)
(***************************************************************************)
EXTENDS Integers, Sequences, SequencesExt

CONSTANTS
    SrcLen,    \* bound on the length of a field
    DstLens    \* the sizes of the buffers

ASSUME EscapeAssumption ==
    /\ SrcLen \in Nat
    /\ DstLens \subseteq {n \in Nat : n >= 3}

Bytes == {"plain", "space", "comma", "quote", "backslash", "cr", "nl", "tab", "ctl",
          "lead", "tail"}
Written == {"n", "r", "t", "u", "0", "x", "nul"}   \* bytes only the loops write

VARIABLES
    format,    \* which of the two runs
    dst_len,   \* the size of the buffer
    src,       \* the field as the guest typed it
    i,         \* the bytes of src that were dealt with
    dst,       \* what has been written; its length is j
    pc

vars == <<format, dst_len, src, i, dst, pc>>

-----------------------------------------------------------------------------
(* The two loops                                                           *)

\* Mutant of CsvBytes: a quote stays single.
CsvBytesSingle(c) == IF c \in {"nl", "cr"} THEN <<"space">> ELSE <<c>>

CsvBytes(c) == CASE c \in {"nl", "cr"} -> <<"space">>
                 [] c = "quote" -> <<"quote", "quote">>
                 [] OTHER -> <<c>>

\* Mutant of JsonBytes: the backslash stays single.
JsonBytesSingle(c) == CASE c = "quote" -> <<"backslash", "quote">>
                        [] c = "nl" -> <<"backslash", "n">>
                        [] c = "cr" -> <<"backslash", "r">>
                        [] c = "tab" -> <<"backslash", "t">>
                        [] c = "ctl" -> <<"backslash", "u", "0", "0", "x", "x">>
                        [] OTHER -> <<c>>

JsonBytes(c) == CASE c \in {"quote", "backslash"} -> <<"backslash", c>>
                  [] c = "nl" -> <<"backslash", "n">>
                  [] c = "cr" -> <<"backslash", "r">>
                  [] c = "tab" -> <<"backslash", "t">>
                  [] c = "ctl" -> <<"backslash", "u", "0", "0", "x", "x">>
                  [] OTHER -> <<c>>

\* Mutant of CsvRoom: the room for one quote is forgotten.
CsvRoomShort == Len(dst) + 2 < dst_len
CsvRoom == Len(dst) + 3 < dst_len

\* Mutant of JsonRoom: the room of an earlier, shorter escape.
JsonRoomWide == Len(dst) + 16 < dst_len
JsonRoom == Len(dst) + 8 < dst_len

\* Mutant of Copy: a byte after an escape is skipped.
CopyTwo(room, bytes) ==
    /\ pc = "copy" /\ i < Len(src) /\ room
    /\ dst' = dst \o bytes
    /\ i' = i + Len(bytes)
    /\ UNCHANGED <<format, dst_len, src, pc>>

Copy(room, bytes) ==
    /\ pc = "copy" /\ i < Len(src) /\ room
    /\ dst' = dst \o bytes
    /\ i' = i + 1
    /\ UNCHANGED <<format, dst_len, src, pc>>

csv_escape_quoted == format = "csv" /\ Copy(CsvRoom, CsvBytes(src[i + 1]))
json_escape_quoted == format = "json" /\ Copy(JsonRoom, JsonBytes(src[i + 1]))

\* The loop is over: the closing quote and the end of the string.
Close ==
    /\ pc = "copy"
    /\ i = Len(src) \/ ~(IF format = "csv" THEN CsvRoom ELSE JsonRoom)
    /\ dst' = dst \o <<"quote", "nul">>
    /\ pc' = "done"
    /\ UNCHANGED <<format, dst_len, src, i>>

Init ==
    /\ format \in {"csv", "json"}
    /\ dst_len \in DstLens
    /\ src \in BoundedSeq(Bytes, SrcLen)
    /\ i = 0
    /\ dst = <<"quote">>
    /\ pc = "copy"

Next == csv_escape_quoted \/ json_escape_quoted \/ Close

Spec == Init /\ [][Next]_vars /\ WF_vars(Next)

-----------------------------------------------------------------------------
(* The row of auth_client_auth_nolock, here a time, the field and another   *)
(* field, and the readers of what was written.                             *)

Field == Front(dst)   \* the string, without its terminator

CsvRow == <<"plain", "comma", "space">> \o Field
              \o <<"comma", "space", "quote", "plain", "quote", "nl">>

\* How far a reader is: where in the text, what it has of the field, the fields of
\* the row before it and the rows before that.
At(at, text, row, rows) == [at |-> at, text |-> text, row |-> row, rows |-> rows]
Go(s, at) == At(at, s.text, s.row, s.rows)
Keep(s, at, c) == At(at, Append(s.text, c), s.row, s.rows)

\* A quote counts as one only at the start of a field; the blank after a comma is
\* skipped, which RFC 4180 does not.
EndField(s) == At("start", <<>>, Append(s.row, s.text), s.rows)
EndRow(s) == At("start", <<>>, <<>>, Append(s.rows, Append(s.row, s.text)))
CsvReader(s, c) ==
    CASE s.at = "quoted" /\ c = "quote" -> Go(s, "closing")
      [] s.at = "quoted" /\ c # "quote" -> Keep(s, "quoted", c)
      [] s.at = "closing" /\ c = "quote" -> Keep(s, "quoted", c)
      [] s.at # "quoted" /\ c = "comma" -> EndField(s)
      [] s.at # "quoted" /\ c = "nl" -> EndRow(s)
      [] s.at = "start" /\ c = "quote" -> Go(s, "quoted")
      [] s.at = "start" /\ c = "space" -> s
      [] OTHER -> Keep(s, "in", c)

\* What guest_forwarder.py:129 can decode: each "lead" has its "tail", and each "tail"
\* its "lead".
Byte(bytes, n) == IF n \in DOMAIN bytes THEN bytes[n] ELSE "nul"
Decodes(bytes) ==
    \A n \in 0 .. Len(bytes) : Byte(bytes, n) = "lead" <=> Byte(bytes, n + 1) = "tail"

\* A JSON reader of the decoded bytes of a string, after its opening quote.
JsonMeaning(c) == CASE c = "n" -> "nl" [] c = "r" -> "cr" [] c = "t" -> "tab" [] OTHER -> c
JsonReader(s, c) ==
    CASE s.at = "end" -> Go(s, "bad")
      [] s.at = "in" /\ c = "quote" -> Go(s, "end")
      [] s.at = "in" /\ c = "backslash" -> Go(s, "escape")
      [] s.at = "in" /\ c \in {"nl", "cr", "tab", "ctl"} -> Go(s, "bad")
      [] s.at = "in" /\ c \notin {"quote", "backslash", "nl", "cr", "tab", "ctl"} -> Keep(s, "in", c)
      [] s.at = "escape" /\ c = "u" -> Go(s, "hex1")
      [] s.at = "escape" /\ c \in {"quote", "backslash", "n", "r", "t"} ->
             Keep(s, "in", JsonMeaning(c))
      [] s.at = "hex1" /\ c = "0" -> Go(s, "hex2")
      [] s.at = "hex2" /\ c = "0" -> Go(s, "hex3")
      [] s.at = "hex3" /\ c = "x" -> Go(s, "hex4")
      [] s.at = "hex4" /\ c = "x" -> Keep(s, "in", "ctl")
      [] OTHER -> Go(s, "bad")

\* Where a reader that is at s gets with one byte after the other.
Reader(form, s, c) == IF form = "csv" THEN CsvReader(s, c) ELSE JsonReader(s, c)
Reading(form, s, bytes) ==
    LET state[n \in 0 .. Len(bytes)] ==
            IF n = 0 THEN s ELSE Reader(form, state[n - 1], bytes[n])
    IN  state
Read(form, s, bytes) == Reading(form, s, bytes)[Len(bytes)]

Rows == Read("csv", At("start", <<>>, <<>>, <<>>), CsvRow).rows
JsonRead ==
    IF Decodes(Tail(Field)) THEN Read("json", At("in", <<>>, <<>>, <<>>), Tail(Field))
                            ELSE At("bad", <<>>, <<>>, <<>>)

\* How many bytes the first n bytes of the field escape to.
Escaped[n \in 0 .. Len(src)] ==
    IF n = 0 THEN 0
    ELSE Escaped[n - 1] + Len(IF format = "csv" THEN CsvBytes(src[n]) ELSE JsonBytes(src[n]))

Blanked(s) == [n \in DOMAIN s |-> IF s[n] \in {"nl", "cr"} THEN "space" ELSE s[n]]

-----------------------------------------------------------------------------
\* The variables have their types; i stays within the field.
TypeOK ==
    /\ format \in {"csv", "json"}
    /\ dst_len \in DstLens
    /\ src \in Seq(Bytes)
    /\ i \in 0 .. Len(src)
    /\ dst \in Seq(Bytes \cup Written)
    /\ pc \in {"copy", "done"}

\* "Always NUL-terminates and never overruns dst" (auth.c:270, 290), for buffers
\* of three bytes and more; those of auth_client_auth_nolock have 64 to 512.
NeverOverruns ==
    /\ Len(dst) <= dst_len
    /\ \A n \in 1 .. Len(dst) : dst[n] = "nul" <=> pc = "done" /\ n = Len(dst)

\* Whatever a guest types, the CSV line is one row of three columns to a reader
\* that skips the blank after a comma, and the column is the front of the field.
CsvReadBack ==
    pc = "done" /\ format = "csv" =>
        Rows = << <<<<"plain">>, SubSeq(Blanked(src), 1, i), <<"plain">>>> >>

\* What auth.c:290 promises of the JSON line, and where it ends.  If the front of the
\* field that was copied decodes, the string ends where the escaped field ends and
\* means that front, whatever else a guest types; if it does not, because the loop
\* stopped inside a character or the field came with half of one, the line cannot be
\* read at all: escaping neither breaks a character nor mends one.
JsonReadBack ==
    pc = "done" /\ format = "json" =>
        IF Decodes(SubSeq(src, 1, i))
        THEN JsonRead.at = "end" /\ JsonRead.text = SubSeq(src, 1, i)
        ELSE JsonRead.at = "bad"

\* A field whose escaped form leaves eight bytes of the buffer is kept whole.
KeptWhole == pc = "done" /\ Escaped[Len(src)] + 8 < dst_len => i = Len(src)

=============================================================================
