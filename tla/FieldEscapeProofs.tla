--------------------------- MODULE FieldEscapeProofs ---------------------------
(***************************************************************************)
(* Theorems about the escaping loops, for fields of every length and       *)
(* buffers of every size from three bytes on: nothing is written past the  *)
(* buffer, and a reader of the CSV row or of the JSON string gets the      *)
(* front of the field and nothing else, all of it if its escapes fit.      *)
(***************************************************************************)
EXTENDS FieldEscape, SequenceTheorems, NaturalsFacts

\* The string is open until the loop is left, without a terminator and with room
\* for the closing quote; a JSON escape leaves the byte snprintf ends it with.
Open ==
    pc = "copy" => /\ Len(dst) + 2 <= dst_len
                   /\ \A n \in 1 .. Len(dst) : dst[n] # "nul"

Inductive == TypeOK /\ Open /\ NeverOverruns

Strung == (Bytes \cup Written) \ {"nul"}

\* A CSV escape is one or two bytes, a JSON escape at most six, none the terminator.
LEMMA EscapeLength ==
    ASSUME NEW c \in Bytes
    PROVE  /\ CsvBytes(c) \in Seq(Strung) /\ Len(CsvBytes(c)) <= 2
           /\ JsonBytes(c) \in Seq(Strung) /\ Len(JsonBytes(c)) <= 6
<1>1. c \in Strung /\ {"space", "quote", "backslash", "n", "r", "t", "u", "0", "x"} \subseteq Strung
    BY DEF Strung, Bytes, Written
<1>2. \A a \in Strung : <<a>> \in Seq(Strung) /\ Len(<<a>>) = 1
    OBVIOUS
<1>3. \A a, b \in Strung : <<a, b>> \in Seq(Strung) /\ Len(<<a, b>>) = 2
    OBVIOUS
<1>4. /\ <<"backslash", "u", "0", "0", "x", "x">> \in Seq(Strung)
      /\ Len(<<"backslash", "u", "0", "0", "x", "x">>) = 6
    BY <1>1
<1>5. CsvBytes(c) \in {<<"space">>, <<"quote", "quote">>, <<c>>}
    BY DEF CsvBytes
<1>6. JsonBytes(c) \in {<<"backslash", c>>, <<"backslash", "n">>, <<"backslash", "r">>,
          <<"backslash", "t">>, <<"backslash", "u", "0", "0", "x", "x">>, <<c>>}
    BY DEF JsonBytes
<1>7. CsvBytes(c) \in Seq(Strung) /\ Len(CsvBytes(c)) <= 2
    <2>1. /\ <<"space">> \in Seq(Strung) /\ Len(<<"space">>) <= 2
          /\ <<c>> \in Seq(Strung) /\ Len(<<c>>) <= 2
        BY <1>1, <1>2
    <2>2. <<"quote", "quote">> \in Seq(Strung) /\ Len(<<"quote", "quote">>) <= 2
        BY <1>1, <1>3
    <2> QED
        BY <1>5, <2>1, <2>2, Zenon
<1>8. JsonBytes(c) \in Seq(Strung) /\ Len(JsonBytes(c)) <= 6
    <2>1. \A a \in {c, "n", "r", "t"} :
              <<"backslash", a>> \in Seq(Strung) /\ Len(<<"backslash", a>>) <= 6
        BY <1>1, <1>3
    <2>2. <<c>> \in Seq(Strung) /\ Len(<<c>>) <= 6
        BY <1>1, <1>2
    <2>3. Len(<<"backslash", "u", "0", "0", "x", "x">>) <= 6
        BY <1>4
    <2> QED
        BY <1>4, <1>6, <2>1, <2>2, <2>3, Zenon
<1> QED
    BY <1>7, <1>8

\* The strings a run starts from are sequences of bytes.
LEMMA FieldsAreSequences == BoundedSeq(Bytes, SrcLen) \subseteq Seq(Bytes)
BY EscapeAssumption DEF BoundedSeq, SeqOf

\* Both functions begin with the opening quote in a buffer that has room for it.
LEMMA EscapeInit == Init => Inductive
BY EscapeAssumption, FieldsAreSequences
   DEF Init, Inductive, TypeOK, Open, NeverOverruns, Bytes, Written

\* Appending an escape that fits with two bytes to spare keeps the string open.
LEMMA CopyStep ==
    ASSUME Inductive, NEW bytes \in Seq(Strung), NEW room,
           Len(dst) + Len(bytes) + 2 <= dst_len, Copy(room, bytes)
    PROVE  Inductive'
<1> USE DEF Inductive, Copy, TypeOK, Strung
<1>1. dst' \in Seq(Bytes \cup Written) /\ Len(dst') = Len(dst) + Len(bytes)
    OBVIOUS
<1>2. \A n \in 1 .. Len(dst') : dst'[n] # "nul"
    <2> TAKE n \in 1 .. Len(dst')
    <2>1. CASE n \in 1 .. Len(dst)
        BY <2>1 DEF Open
    <2>2. CASE n \notin 1 .. Len(dst)
        <3>1. n - Len(dst) \in 1 .. Len(bytes) /\ dst'[n] = bytes[n - Len(dst)]
            BY <1>1, <2>2
        <3> QED
            BY <3>1
    <2> QED
        BY <2>1, <2>2
<1>3. TypeOK'
    BY <1>1
<1>4. Open'
    BY <1>1, <1>2, EscapeAssumption DEF Open
<1>5. NeverOverruns'
    BY <1>1, <1>2, EscapeAssumption DEF NeverOverruns
<1> QED
    BY <1>3, <1>4, <1>5

\* The closing quote and the terminator take the two bytes that were kept free.
LEMMA CloseStep == ASSUME Inductive, Close PROVE Inductive'
<1> USE DEF Inductive, Close, TypeOK
<1>1. /\ dst' \in Seq(Bytes \cup Written) /\ Len(dst') = Len(dst) + 2
      /\ \A n \in 1 .. Len(dst) : dst'[n] = dst[n]
      /\ dst'[Len(dst) + 1] = "quote" /\ dst'[Len(dst) + 2] = "nul"
    BY DEF Bytes, Written
<1>2. \A n \in 1 .. Len(dst') : dst'[n] = "nul" <=> n = Len(dst')
    BY <1>1 DEF Open
<1>3. NeverOverruns'
    BY <1>1, <1>2, EscapeAssumption DEF NeverOverruns, Open
<1> QED
    BY <1>1, <1>3 DEF Open

\* Each turn of a loop, and the end of it, keeps the bound.
LEMMA EscapeNext == Inductive /\ [Next]_vars => Inductive'
<1> SUFFICES ASSUME Inductive, [Next]_vars PROVE Inductive'
    OBVIOUS
<1>1. CASE csv_escape_quoted
    <2>1. src[i + 1] \in Bytes
        BY <1>1 DEF csv_escape_quoted, Copy, Inductive, TypeOK
    <2>2. Len(dst) + Len(CsvBytes(src[i + 1])) + 2 <= dst_len
        BY <1>1, <2>1, EscapeLength, EscapeAssumption
           DEF csv_escape_quoted, Copy, CsvRoom, Inductive, TypeOK
    <2> QED
        BY <1>1, <2>1, <2>2, EscapeLength, CopyStep DEF csv_escape_quoted
<1>2. CASE json_escape_quoted
    <2>1. src[i + 1] \in Bytes
        BY <1>2 DEF json_escape_quoted, Copy, Inductive, TypeOK
    <2>2. Len(dst) + Len(JsonBytes(src[i + 1])) + 2 <= dst_len
        BY <1>2, <2>1, EscapeLength, EscapeAssumption
           DEF json_escape_quoted, Copy, JsonRoom, Inductive, TypeOK
    <2> QED
        BY <1>2, <2>1, <2>2, EscapeLength, CopyStep DEF json_escape_quoted
<1>3. CASE Close
    BY <1>3, CloseStep
<1>4. CASE UNCHANGED vars
    BY <1>4 DEF vars, Inductive, TypeOK, Open, NeverOverruns
<1> QED
    BY <1>1, <1>2, <1>3, <1>4 DEF Next

\* However long a field is and whatever it holds, neither function writes past a
\* buffer of three or more bytes, and the string it leaves ends at its terminator.
THEOREM EscapesFit == Spec => []NeverOverruns
<1>1. Inductive => NeverOverruns
    BY DEF Inductive
<1> QED
    BY EscapeInit, EscapeNext, <1>1, PTL DEF Spec

-----------------------------------------------------------------------------
(* What a reader makes of a string.                                        *)

AllBytes == Bytes \cup Written
Texts == Seq(AllBytes)
RowsOf == Seq(Texts)
Files == Seq(RowsOf)
Places == {"start", "in", "quoted", "closing", "end", "bad", "escape", "hex1", "hex2", "hex3", "hex4"}
States == [at : Places, text : Texts, row : RowsOf, rows : Files]

\* A state of a reader is what its constructor was given.
LEMMA StateParts ==
    /\ \A at \in Places, t \in Texts, r \in RowsOf, rs \in Files : At(at, t, r, rs) \in States
    /\ \A s \in States : s.at \in Places /\ s.text \in Texts /\ s.row \in RowsOf /\ s.rows \in Files
    /\ <<>> \in Texts /\ <<>> \in RowsOf
    /\ \A t \in Texts, c \in AllBytes : Append(t, c) \in Texts
    /\ \A r \in RowsOf, t \in Texts : Append(r, t) \in RowsOf
    /\ \A rs \in Files, r \in RowsOf : Append(rs, r) \in Files
<1>1. \A at \in Places, t \in Texts, r \in RowsOf, rs \in Files : At(at, t, r, rs) \in States
    BY DEF At, States
<1>2. \A s \in States : s.at \in Places /\ s.text \in Texts /\ s.row \in RowsOf /\ s.rows \in Files
    BY DEF States
<1>3. <<>> \in Texts /\ \A t \in Texts, c \in AllBytes : Append(t, c) \in Texts
    BY DEF Texts
<1>4. <<>> \in RowsOf /\ \A r \in RowsOf, t \in Texts : Append(r, t) \in RowsOf
    BY DEF RowsOf
<1>5. \A rs \in Files, r \in RowsOf : Append(rs, r) \in Files
    BY DEF Files
<1> QED
    BY <1>1, <1>2, <1>3, <1>4, <1>5

\* A reader's state stays one.
LEMMA ReaderTypes ==
    ASSUME NEW form, NEW s \in States, NEW c \in AllBytes
    PROVE  Reader(form, s, c) \in States
<1>1. \A at \in Places : Go(s, at) \in States
    BY StateParts DEF Go
<1>2. \A at \in Places, d \in AllBytes : Keep(s, at, d) \in States
    BY StateParts DEF Keep
<1>3. "start" \in Places /\ "in" \in Places /\ "quoted" \in Places /\ "closing" \in Places
    BY DEF Places
<1>4. EndField(s) \in States
    <2>1. Append(s.row, s.text) \in RowsOf /\ s.rows \in Files
        BY StateParts
    <2> QED
        BY <1>3, <2>1, StateParts, Zenon DEF EndField
<1>5. EndRow(s) \in States
    <2>1. Append(s.row, s.text) \in RowsOf
        BY StateParts
    <2>2. Append(s.rows, Append(s.row, s.text)) \in Files
        BY <2>1, StateParts
    <2> QED
        BY <1>3, <2>2, StateParts, Zenon DEF EndRow
<1>6. CsvReader(s, c) \in States
    <2>1. \/ CsvReader(s, c) \in {Go(s, "closing"), Go(s, "quoted")}
          \/ CsvReader(s, c) \in {Keep(s, "quoted", c), Keep(s, "in", c)}
          \/ CsvReader(s, c) \in {EndField(s), EndRow(s), s}
        BY Zenon DEF CsvReader
    <2> QED
        BY <1>1, <1>2, <1>3, <1>4, <1>5, <2>1, Zenon
<1>7. JsonReader(s, c) \in States
    <2>1. \/ JsonReader(s, c) \in {Go(s, "bad"), Go(s, "end"), Go(s, "escape"), Go(s, "hex1")}
          \/ JsonReader(s, c) \in {Go(s, "hex2"), Go(s, "hex3"), Go(s, "hex4")}
          \/ JsonReader(s, c) \in {Keep(s, "in", c), Keep(s, "in", JsonMeaning(c)), Keep(s, "in", "ctl")}
        <3>1. CASE s.at = "in"
            BY <3>1 DEF JsonReader
        <3>2. CASE s.at = "escape"
            BY <3>2 DEF JsonReader
        <3>3. CASE s.at \notin {"in", "escape"}
            BY <3>3 DEF JsonReader
        <3> QED
            BY <3>1, <3>2, <3>3
    <2>3. /\ "bad" \in Places /\ "end" \in Places /\ "escape" \in Places /\ "hex1" \in Places
          /\ "hex2" \in Places /\ "hex3" \in Places /\ "hex4" \in Places
        BY DEF Places
    <2>2. JsonMeaning(c) \in AllBytes /\ "ctl" \in AllBytes
        BY DEF JsonMeaning, AllBytes, Bytes, Written
    <2> QED
        BY <1>1, <1>2, <1>3, <2>1, <2>2, <2>3, Zenon
<1> QED
    BY <1>6, <1>7, Zenon DEF Reader

\* The states f[0], f[1], ... of a reader that starts in s.
StepsFrom(form, s, bytes, f) ==
    /\ f \in [0 .. Len(bytes) -> States]
    /\ f[0] = s
    /\ \A n \in 1 .. Len(bytes) : f[n] = Reader(form, f[n - 1], bytes[n])

\* Reading is one step of the reader per byte.
LEMMA ReadStepwise ==
    ASSUME NEW form, NEW s \in States, NEW bytes \in Seq(AllBytes)
    PROVE  StepsFrom(form, s, bytes, Reading(form, s, bytes))
<1> DEFINE N == Len(bytes)
           step == [n \in 1 .. N |-> [t \in States |-> Reader(form, t, bytes[n])]]
           f == Stepwise(s, N, step)
           IsRun(g) == g = [n \in 0 .. N |-> IF n = 0 THEN s ELSE Reader(form, g[n - 1], bytes[n])]
           run == Reading(form, s, bytes)
<1>1. N \in Nat /\ \A n \in 1 .. N : bytes[n] \in AllBytes
    OBVIOUS
<1>2. step \in [1 .. N -> [States -> States]]
    <2>1. \A n \in 1 .. N, t \in States : Reader(form, t, bytes[n]) \in States
        BY <1>1, ReaderTypes
    <2> QED
        BY <2>1
<1>3. f \in [0 .. N -> States] /\ f[0] = s /\ \A n \in 1 .. N : f[n] = step[n][f[n - 1]]
    <2> HIDE DEF step, N
    <2> QED
        BY <1>1, <1>2, StepwiseFunction
<1> HIDE DEF f
<1>4. \A n \in 1 .. N : f[n] = Reader(form, f[n - 1], bytes[n])
    <2> TAKE n \in 1 .. N
    <2>1. n - 1 \in 0 .. N
        BY <1>1
    <2>2. f[n - 1] \in States
        BY <1>3, <2>1
    <2>3. step[n][f[n - 1]] = Reader(form, f[n - 1], bytes[n])
        BY <2>2
    <2> QED
        BY <1>3, <2>3
<1> HIDE DEF step
<1>5. IsRun(f)
    BY <1>1, <1>3, <1>4
<1>6. IsRun(run)
    <2> HIDE DEF IsRun
    <2>1. run = CHOOSE g : IsRun(g)
        BY DEF Reading, IsRun
    <2> QED
        BY <1>5, <2>1
<1> HIDE DEF run, N
<1>7. /\ DOMAIN run = 0 .. N /\ run = [n \in 0 .. N |-> run[n]] /\ run[0] = s
      /\ \A n \in 1 .. N : run[n] = Reader(form, run[n - 1], bytes[n])
    BY <1>1, <1>6
<1>8. \A n \in 0 .. N : run[n] \in States
    <2> DEFINE P == {n \in Nat : n <= N => run[n] \in States}
    <2>1. 0 \in P
        BY <1>7
    <2>2. ASSUME NEW n \in Nat, n \in P PROVE n + 1 \in P
        <3> SUFFICES ASSUME n + 1 <= N PROVE run[n + 1] \in States
            OBVIOUS
        <3>1. n + 1 \in 1 .. N /\ (n + 1) - 1 = n /\ run[n] \in States
            BY <1>1, <2>2
        <3>2. run[n + 1] = Reader(form, run[n], bytes[n + 1]) /\ bytes[n + 1] \in AllBytes
            BY <1>1, <1>7, <3>1
        <3> QED
            BY <3>1, <3>2, ReaderTypes
    <2> HIDE DEF P
    <2>3. Nat \subseteq P
        BY <2>1, <2>2, SetInduction
    <2> QED
        BY <1>1, <2>3 DEF P
<1>9. run \in [0 .. N -> States]
    BY <1>7, <1>8
<1> QED
    BY <1>7, <1>9 DEF run, N, StepsFrom

\* A string is read into a state.
LEMMA ReadTypes ==
    ASSUME NEW form, NEW s \in States, NEW bytes \in Seq(AllBytes)
    PROVE  Read(form, s, bytes) \in States
<1>1. StepsFrom(form, s, bytes, Reading(form, s, bytes)) /\ Len(bytes) \in 0 .. Len(bytes)
    BY ReadStepwise
<1> QED
    BY <1>1 DEF StepsFrom, Read

\* A string is read piece by piece.
LEMMA ReadConcat ==
    ASSUME NEW form, NEW s \in States, NEW a \in Seq(AllBytes), NEW b \in Seq(AllBytes)
    PROVE  /\ Read(form, s, a) \in States
           /\ Read(form, s, a \o b) = Read(form, Read(form, s, a), b)
<1> DEFINE m == Read(form, s, a)
           f == Reading(form, s, a)
           g == Reading(form, m, b)
           h == Reading(form, s, a \o b)
<1>1. StepsFrom(form, s, a, f) /\ m = f[Len(a)]
    BY ReadStepwise DEF Read
<1>2. Len(a) \in Nat /\ Len(b) \in Nat /\ m \in States
    BY <1>1 DEF StepsFrom
<1> HIDE DEF m
<1>3. StepsFrom(form, m, b, g)
    BY <1>2, ReadStepwise
<1>4. a \o b \in Seq(AllBytes) /\ Len(a \o b) = Len(a) + Len(b)
    OBVIOUS
<1>5. StepsFrom(form, s, a \o b, h)
    BY <1>4, ReadStepwise
<1> HIDE DEF f, g, h
<1> USE DEF StepsFrom
<1>6. \A n \in 1 .. Len(a) : h[n] = Reader(form, h[n - 1], a[n])
    <2> TAKE n \in 1 .. Len(a)
    <2>1. n \in 1 .. Len(a \o b) /\ (a \o b)[n] = a[n]
        BY <1>2, <1>4
    <2> QED
        BY <1>5, <2>1
<1>7. \A n \in 1 .. Len(b) : h[Len(a) + n] = Reader(form, h[Len(a) + (n - 1)], b[n])
    <2> TAKE n \in 1 .. Len(b)
    <2>1. Len(a) + n \in 1 .. Len(a \o b) /\ (a \o b)[Len(a) + n] = b[n]
        BY <1>2, <1>4
    <2>2. (Len(a) + n) - 1 = Len(a) + (n - 1)
        BY <1>2
    <2> QED
        BY <1>5, <2>1, <2>2
<1>8. h[Len(a)] = f[Len(a)]
    <2> DEFINE P == {n \in Nat : n <= Len(a) => h[n] = f[n]}
    <2>1. 0 \in P
        BY <1>1, <1>5
    <2>2. ASSUME NEW n \in Nat, n \in P PROVE n + 1 \in P
        <3> SUFFICES ASSUME n + 1 <= Len(a) PROVE h[n + 1] = f[n + 1]
            OBVIOUS
        <3>1. n + 1 \in 1 .. Len(a) /\ (n + 1) - 1 = n /\ h[n] = f[n]
            BY <1>2, <2>2
        <3> QED
            BY <1>1, <1>6, <3>1
    <2> HIDE DEF P
    <2>3. Nat \subseteq P
        BY <2>1, <2>2, SetInduction
    <2> QED
        BY <1>2, <2>3 DEF P
<1>9. h[Len(a) + Len(b)] = g[Len(b)]
    <2> DEFINE P == {n \in Nat : n <= Len(b) => h[Len(a) + n] = g[n]}
    <2>1. 0 \in P
        BY <1>1, <1>2, <1>3, <1>8
    <2>2. ASSUME NEW n \in Nat, n \in P PROVE n + 1 \in P
        <3> SUFFICES ASSUME n + 1 <= Len(b) PROVE h[Len(a) + (n + 1)] = g[n + 1]
            OBVIOUS
        <3>1. n + 1 \in 1 .. Len(b) /\ (n + 1) - 1 = n /\ h[Len(a) + n] = g[n]
            BY <1>2, <2>2
        <3> QED
            BY <1>3, <1>7, <3>1
    <2> HIDE DEF P
    <2>3. Nat \subseteq P
        BY <2>1, <2>2, SetInduction
    <2> QED
        BY <1>2, <2>3 DEF P
<1> HIDE DEF StepsFrom
<1>10. Read(form, s, a \o b) = h[Len(a \o b)] /\ Read(form, m, b) = g[Len(b)]
    BY DEF Read, g, h
<1> QED
    BY <1>2, <1>4, <1>9, <1>10 DEF m

\* Nothing to read is no step, one byte is one step, two bytes are two.
LEMMA ReadShort ==
    ASSUME NEW form, NEW s \in States, NEW c \in AllBytes, NEW d \in AllBytes
    PROVE  /\ Read(form, s, <<>>) = s
           /\ Read(form, s, <<c>>) = Reader(form, s, c)
           /\ Read(form, s, <<c, d>>) = Reader(form, Reader(form, s, c), d)
<1>1. Read(form, s, <<>>) = s
    <2>1. <<>> \in Seq(AllBytes) /\ Len(<<>>) = 0
        OBVIOUS
    <2>2. StepsFrom(form, s, <<>>, Reading(form, s, <<>>))
        BY <2>1, ReadStepwise
    <2> QED
        BY <2>1, <2>2 DEF Read, StepsFrom
<1>2. \A x \in AllBytes, t \in States : Read(form, t, <<x>>) = Reader(form, t, x)
    <2> TAKE x \in AllBytes, t \in States
    <2>1. <<x>> \in Seq(AllBytes) /\ Len(<<x>>) = 1 /\ <<x>>[1] = x
        OBVIOUS
    <2>2. StepsFrom(form, t, <<x>>, Reading(form, t, <<x>>))
        BY <2>1, ReadStepwise
    <2>3. Reading(form, t, <<x>>)[1] = Reader(form, t, x)
        BY <2>1, <2>2 DEF StepsFrom
    <2> QED
        BY <2>1, <2>3 DEF Read
<1>3. /\ <<c>> \in Seq(AllBytes) /\ <<d>> \in Seq(AllBytes)
      /\ <<c, d>> = <<c>> \o <<d>>
    <2>1. <<c, d>> \in Seq(AllBytes) /\ Len(<<c, d>>) = 2 /\ <<c, d>>[1] = c /\ <<c, d>>[2] = d
        OBVIOUS
    <2> DEFINE e == <<c>> \o <<d>>
    <2>2. e \in Seq(AllBytes) /\ Len(e) = 2 /\ e[1] = c /\ e[2] = d
        OBVIOUS
    <2> HIDE DEF e
    <2>3. <<c, d>> = e
        BY <2>1, <2>2, SeqEqual
    <2> QED
        BY <2>3 DEF e
<1>4. Reader(form, s, c) \in States
    BY ReaderTypes
<1>5. Read(form, s, <<c>> \o <<d>>) = Read(form, Read(form, s, <<c>>), <<d>>)
    BY <1>3, ReadConcat
<1> QED
    BY <1>1, <1>2, <1>3, <1>4, <1>5

\* A string of six bytes is six steps.
LEMMA ReadSix ==
    ASSUME NEW form, NEW s \in States, NEW b \in Seq(AllBytes), Len(b) = 6
    PROVE  /\ \A n \in 1 .. 6 : b[n] \in AllBytes
           /\ Read(form, s, b) =
                  Reader(form, Reader(form, Reader(form, Reader(form, Reader(form,
                      Reader(form, s, b[1]), b[2]), b[3]), b[4]), b[5]), b[6])
<1> DEFINE f == Reading(form, s, b)
<1>1. StepsFrom(form, s, b, f)
    BY ReadStepwise
<1> HIDE DEF f
<1>2. /\ f[0] = s /\ f[1] = Reader(form, f[0], b[1]) /\ f[2] = Reader(form, f[1], b[2])
      /\ f[3] = Reader(form, f[2], b[3]) /\ f[4] = Reader(form, f[3], b[4])
      /\ f[5] = Reader(form, f[4], b[5]) /\ f[6] = Reader(form, f[5], b[6])
    BY <1>1 DEF StepsFrom
<1>3. Read(form, s, b) = f[6]
    BY DEF Read, f
<1>4. \A n \in 1 .. 6 : b[n] \in AllBytes
    OBVIOUS
<1> QED
    BY <1>2, <1>3, <1>4, Zenon

\* What the CSV reader does with a byte, by its place.
LEMMA CsvMoves ==
    ASSUME NEW s, NEW c
    PROVE  /\ s.at = "quoted" /\ c # "quote" => Reader("csv", s, c) = Keep(s, "quoted", c)
           /\ s.at = "quoted" /\ c = "quote" => Reader("csv", s, c) = Go(s, "closing")
           /\ s.at = "closing" /\ c = "quote" => Reader("csv", s, c) = Keep(s, "quoted", c)
           /\ s.at \in {"closing", "in"} /\ c = "comma" => Reader("csv", s, c) = EndField(s)
           /\ s.at = "closing" /\ c = "nl" => Reader("csv", s, c) = EndRow(s)
           /\ s.at = "start" /\ c = "quote" => Reader("csv", s, c) = Go(s, "quoted")
           /\ s.at = "start" /\ c = "space" => Reader("csv", s, c) = s
           /\ s.at = "start" /\ c = "plain" => Reader("csv", s, c) = Keep(s, "in", c)
<1>1. Reader("csv", s, c) = CsvReader(s, c)
    BY DEF Reader
<1> QED
    BY <1>1 DEF CsvReader

\* What the JSON reader does with a byte, by its place.
LEMMA JsonMoves ==
    ASSUME NEW s, NEW c
    PROVE  /\ s.at = "in" /\ c = "quote" => Reader("json", s, c) = Go(s, "end")
           /\ s.at = "in" /\ c = "backslash" => Reader("json", s, c) = Go(s, "escape")
           /\ s.at = "in" /\ c \notin {"quote", "backslash", "nl", "cr", "tab", "ctl"} =>
                  Reader("json", s, c) = Keep(s, "in", c)
           /\ s.at = "escape" /\ c = "u" => Reader("json", s, c) = Go(s, "hex1")
           /\ s.at = "escape" /\ c \in {"quote", "backslash", "n", "r", "t"} =>
                  Reader("json", s, c) = Keep(s, "in", JsonMeaning(c))
           /\ s.at = "hex1" /\ c = "0" => Reader("json", s, c) = Go(s, "hex2")
           /\ s.at = "hex2" /\ c = "0" => Reader("json", s, c) = Go(s, "hex3")
           /\ s.at = "hex3" /\ c = "x" => Reader("json", s, c) = Go(s, "hex4")
           /\ s.at = "hex4" /\ c = "x" => Reader("json", s, c) = Keep(s, "in", "ctl")
<1>1. Reader("json", s, c) = JsonReader(s, c)
    <2>1. "json" # "csv"
        OBVIOUS
    <2> QED
        BY <2>1, Zenon DEF Reader
<1>2. CASE s.at = "in"
    BY <1>1, <1>2 DEF JsonReader
<1>3. CASE s.at = "escape"
    BY <1>1, <1>3 DEF JsonReader
<1>4. CASE s.at \notin {"in", "escape"}
    BY <1>1, <1>4 DEF JsonReader
<1> QED
    BY <1>2, <1>3, <1>4

\* The parts of a state that was built.
LEMMA AtParts ==
    ASSUME NEW p, NEW t, NEW r, NEW rs
    PROVE  /\ At(p, t, r, rs).at = p /\ At(p, t, r, rs).text = t
           /\ At(p, t, r, rs).row = r /\ At(p, t, r, rs).rows = rs
BY DEF At

\* Each way to go on from a state that was built.
LEMMA GoAt ==
    ASSUME NEW p, NEW t, NEW r, NEW rs, NEW q
    PROVE  Go(At(p, t, r, rs), q) = At(q, t, r, rs)
<1> DEFINE s == At(p, t, r, rs)
<1>1. s.at = p /\ s.text = t /\ s.row = r /\ s.rows = rs
    BY AtParts
<1> HIDE DEF s
<1>2. Go(s, q) = At(q, t, r, rs)
    BY <1>1, Zenon DEF Go
<1> QED
    BY <1>2 DEF s

LEMMA KeepAt ==
    ASSUME NEW p, NEW t, NEW r, NEW rs, NEW q, NEW c
    PROVE  Keep(At(p, t, r, rs), q, c) = At(q, Append(t, c), r, rs)
<1> DEFINE s == At(p, t, r, rs)
<1>1. s.at = p /\ s.text = t /\ s.row = r /\ s.rows = rs
    BY AtParts
<1> HIDE DEF s
<1>2. Keep(s, q, c) = At(q, Append(t, c), r, rs)
    BY <1>1, Zenon DEF Keep
<1> QED
    BY <1>2 DEF s

Nothing == <<>>

LEMMA EndAt ==
    ASSUME NEW p, NEW t, NEW r, NEW rs
    PROVE  /\ EndField(At(p, t, r, rs)) = At("start", Nothing, Append(r, t), rs)
           /\ EndRow(At(p, t, r, rs)) = At("start", Nothing, Nothing, Append(rs, Append(r, t)))
<1> DEFINE s == At(p, t, r, rs)
<1>1. s.at = p /\ s.text = t /\ s.row = r /\ s.rows = rs
    BY AtParts
<1> HIDE DEF s
<1>2. /\ EndField(s) = At("start", Nothing, Append(r, t), rs)
      /\ EndRow(s) = At("start", Nothing, Nothing, Append(rs, Append(r, t)))
    BY <1>1, Zenon DEF EndField, EndRow, Nothing
<1> QED
    BY <1>2 DEF s

-----------------------------------------------------------------------------
(* What the readers of the row and of the string make of it.               *)

\* Inside the quotes a reader has the front of the field; the text escaped so far
\* is all there is after the opening quote.
CsvStart == At("start", <<>>, <<<<"plain">>>>, <<>>)
JsonStart == At("in", <<>>, <<>>, <<>>)

CsvFront == format = "csv" =>
    Read("csv", CsvStart, dst) = At("quoted", SubSeq(Blanked(src), 1, i), <<<<"plain">>>>, <<>>)
JsonFront == format = "json" =>
    Read("json", JsonStart, Tail(dst)) = At("in", SubSeq(src, 1, i), <<>>, <<>>)
Measured == Len(dst) = 1 + Escaped[i]

\* The characters of the text are whole where those of the front of the field are; both
\* may still miss the end of the last one.
Joined(b) == \A n \in 0 .. Len(b) - 1 : Byte(b, n) = "lead" <=> Byte(b, n + 1) = "tail"
Unended(b) == Byte(b, Len(b)) = "lead"
SameEnds(b, c) == (Joined(b) <=> Joined(c)) /\ (Unended(b) <=> Unended(c))
Characters == format = "json" => SameEnds(Tail(dst), SubSeq(src, 1, i))

Reads ==
    /\ pc = "copy" => dst # <<>> /\ CsvFront /\ JsonFront /\ Measured /\ Characters
    /\ CsvReadBack /\ JsonReadBack /\ KeptWhole

Blank(c) == IF c \in {"nl", "cr"} THEN "space" ELSE c

\* The starts of the two readers are states.
LEMMA StartsAreStates ==
    /\ CsvStart \in States /\ JsonStart \in States
    /\ \A p \in Places, t \in Texts : At(p, t, <<<<"plain">>>>, <<>>) \in States
    /\ \A p \in Places, t \in Texts : At(p, t, <<>>, <<>>) \in States
<1>1. <<"plain">> \in Texts
    BY DEF Texts, AllBytes, Bytes
<1>2. <<<<"plain">>>> \in RowsOf
    BY <1>1 DEF RowsOf
<1>3. <<>> \in Texts /\ <<>> \in RowsOf /\ <<>> \in Files
    BY DEF Texts, RowsOf, Files
<1>4. "start" \in Places /\ "in" \in Places
    BY DEF Places
<1>5. \A p \in Places, t \in Texts : At(p, t, <<<<"plain">>>>, <<>>) \in States
    BY <1>2, <1>3, StateParts, Zenon
<1>6. \A p \in Places, t \in Texts : At(p, t, <<>>, <<>>) \in States
    BY <1>3, StateParts, Zenon
<1> QED
    BY <1>3, <1>4, <1>5, <1>6, Zenon DEF CsvStart, JsonStart

\* One more byte of a sequence.
LEMMA FrontNext ==
    ASSUME NEW S, NEW s \in Seq(S), NEW n \in 0 .. Len(s) - 1
    PROVE  Append(SubSeq(s, 1, n), s[n + 1]) = SubSeq(s, 1, n + 1)
<1>1. 1 \in 1 .. Len(s) /\ n + 1 \in 1 .. Len(s) /\ (n + 1) - 1 = n
    OBVIOUS
<1>2. SubSeq(s, 1, n + 1) = SubSeq(s, 1, n) \o <<s[n + 1]>>
    BY <1>1, SubSeqRecursiveSecond
<1>3. SubSeq(s, 1, n) \in Seq(S) /\ s[n + 1] \in S
    BY <1>1
<1> QED
    BY <1>2, <1>3, AppendIsConcat

\* Inside a quoted field the reader takes an escape for the byte it stands for.
LEMMA CsvReads ==
    ASSUME NEW t \in Texts, NEW r, NEW rs, At("quoted", t, r, rs) \in States, NEW c \in Bytes
    PROVE  Read("csv", At("quoted", t, r, rs), CsvBytes(c)) = At("quoted", Append(t, Blank(c)), r, rs)
<1> DEFINE s == At("quoted", t, r, rs)
<1>1. s \in States /\ s.at = "quoted" /\ \A d : Keep(s, "quoted", d) = At("quoted", Append(t, d), r, rs)
    <2>1. \A d : Keep(s, "quoted", d) = At("quoted", Append(t, d), r, rs)
        BY KeepAt
    <2>2. s.at = "quoted"
        BY AtParts
    <2> QED
        BY <2>1, <2>2
<1>2. Go(s, "closing") = At("closing", t, r, rs)
    BY GoAt
<1> HIDE DEF s
<1>3. c \in AllBytes /\ "space" \in AllBytes /\ "quote" \in AllBytes
    BY DEF AllBytes, Bytes
<1>s. s \in States
    BY <1>1
<1>4. CASE c \in {"nl", "cr"}
    <2>1. CsvBytes(c) = <<"space">> /\ Blank(c) = "space"
        BY <1>4 DEF CsvBytes, Blank
    <2>2. Read("csv", s, <<"space">>) = Reader("csv", s, "space")
        BY <1>s, <1>3, ReadShort, Zenon
    <2>3. Reader("csv", s, "space") = Keep(s, "quoted", "space")
        BY <1>1, CsvMoves
    <2> QED
        BY <1>1, <2>1, <2>2, <2>3, Zenon DEF s
<1>5. CASE c = "quote"
    <2>1. CsvBytes(c) = <<"quote", "quote">> /\ Blank(c) = "quote"
        BY <1>5 DEF CsvBytes, Blank
    <2>2. Read("csv", s, <<"quote", "quote">>) = Reader("csv", Reader("csv", s, "quote"), "quote")
        BY <1>s, <1>3, ReadShort, Zenon
    <2>3. Reader("csv", s, "quote") = At("closing", t, r, rs)
        BY <1>1, <1>2, CsvMoves
    <2>4. Reader("csv", At("closing", t, r, rs), "quote") = Keep(At("closing", t, r, rs), "quoted", "quote")
        BY AtParts, CsvMoves
    <2>5. Keep(At("closing", t, r, rs), "quoted", "quote") = At("quoted", Append(t, "quote"), r, rs)
        BY KeepAt
    <2> QED
        BY <2>1, <2>2, <2>3, <2>4, <2>5, Zenon DEF s
<1>6. CASE c \notin {"nl", "cr", "quote"}
    <2>1. CsvBytes(c) = <<c>> /\ Blank(c) = c
        BY <1>6 DEF CsvBytes, Blank
    <2>2. Read("csv", s, <<c>>) = Reader("csv", s, c)
        BY <1>s, <1>3, ReadShort, Zenon
    <2>3. Reader("csv", s, c) = Keep(s, "quoted", c)
        BY <1>1, <1>6, CsvMoves
    <2> QED
        BY <1>1, <2>1, <2>2, <2>3, Zenon DEF s
<1> QED
    BY <1>4, <1>5, <1>6

\* Inside a JSON string the reader takes an escape for the byte it stands for.
LEMMA JsonReads ==
    ASSUME NEW t \in Texts, NEW r, NEW rs, At("in", t, r, rs) \in States, NEW c \in Bytes
    PROVE  Read("json", At("in", t, r, rs), JsonBytes(c)) = At("in", Append(t, c), r, rs)
<1> DEFINE s == At("in", t, r, rs)
           e == At("escape", t, r, rs)
<1>1. s \in States /\ s.at = "in" /\ \A d : Keep(s, "in", d) = At("in", Append(t, d), r, rs)
    <2>1. \A d : Keep(s, "in", d) = At("in", Append(t, d), r, rs)
        BY KeepAt
    <2>2. s.at = "in"
        BY AtParts
    <2> QED
        BY <2>1, <2>2
<1>2. Go(s, "escape") = e /\ e.at = "escape" /\ \A d : Keep(e, "in", d) = At("in", Append(t, d), r, rs)
    <2>1. \A d : Keep(e, "in", d) = At("in", Append(t, d), r, rs)
        BY KeepAt
    <2>2. e.at = "escape"
        BY AtParts
    <2>3. Go(s, "escape") = e
        BY GoAt
    <2> QED
        BY <2>1, <2>2, <2>3, Zenon
<1> HIDE DEF s, e
<1>3. c \in AllBytes /\ {"backslash", "n", "r", "t", "u", "0", "x"} \subseteq AllBytes
    BY DEF AllBytes, Bytes, Written
<1>4. ASSUME NEW d \in {"quote", "backslash", "n", "r", "t"}
      PROVE  Read("json", s, <<"backslash", d>>) = At("in", Append(t, JsonMeaning(d)), r, rs)
    <2>1. d \in AllBytes /\ "backslash" \in AllBytes
        BY DEF AllBytes, Bytes, Written
    <2>2. Read("json", s, <<"backslash", d>>) = Reader("json", Reader("json", s, "backslash"), d)
        BY <1>1, <2>1, ReadShort, Zenon
    <2>3. Reader("json", s, "backslash") = e
        BY <1>1, <1>2, JsonMoves
    <2>4. Reader("json", e, d) = Keep(e, "in", JsonMeaning(d))
        BY <1>2, <1>4, JsonMoves
    <2> QED
        BY <1>2, <2>2, <2>3, <2>4, Zenon
<1>5. CASE c \in {"quote", "backslash"}
    <2>1. JsonBytes(c) = <<"backslash", c>> /\ JsonMeaning(c) = c
        BY <1>5 DEF JsonBytes, JsonMeaning
    <2>2. c \in {"quote", "backslash", "n", "r", "t"}
        BY <1>5
    <2>3. Read("json", s, <<"backslash", c>>) = At("in", Append(t, JsonMeaning(c)), r, rs)
        BY <1>4, <2>2, Zenon
    <2> QED
        BY <2>1, <2>3, Zenon DEF s
<1>6. CASE c \in {"nl", "cr", "tab"}
    <2>1. PICK d \in {"n", "r", "t"} : JsonBytes(c) = <<"backslash", d>> /\ JsonMeaning(d) = c
        <3>1. /\ JsonMeaning("n") = "nl" /\ JsonMeaning("r") = "cr" /\ JsonMeaning("t") = "tab"
            BY DEF JsonMeaning
        <3>2. /\ c = "nl" => JsonBytes(c) = <<"backslash", "n">>
              /\ c = "cr" => JsonBytes(c) = <<"backslash", "r">>
              /\ c = "tab" => JsonBytes(c) = <<"backslash", "t">>
            BY DEF JsonBytes
        <3> QED
            BY <1>6, <3>1, <3>2, Zenon
    <2>2. d \in {"quote", "backslash", "n", "r", "t"}
        OBVIOUS
    <2>3. Read("json", s, <<"backslash", d>>) = At("in", Append(t, JsonMeaning(d)), r, rs)
        BY <1>4, <2>2, Zenon
    <2> QED
        BY <2>1, <2>3, Zenon DEF s
<1>7. CASE c = "ctl"
    <2> DEFINE b == <<"backslash", "u", "0", "0", "x", "x">>
               h1 == At("hex1", t, r, rs)
               h2 == At("hex2", t, r, rs)
               h3 == At("hex3", t, r, rs)
               h4 == At("hex4", t, r, rs)
    <2>1. JsonBytes(c) = b
        BY <1>7 DEF JsonBytes
    <2>2. /\ b \in Seq(AllBytes) /\ Len(b) = 6
          /\ b[1] = "backslash" /\ b[2] = "u" /\ b[3] = "0" /\ b[4] = "0" /\ b[5] = "x" /\ b[6] = "x"
        BY <1>3
    <2> HIDE DEF b
    <2>3. Read("json", s, b) =
              Reader("json", Reader("json", Reader("json", Reader("json", Reader("json",
                  Reader("json", s, b[1]), b[2]), b[3]), b[4]), b[5]), b[6])
        BY <1>1, <2>2, ReadSix
    <2>4. Reader("json", s, "backslash") = e
        BY <1>1, <1>2, JsonMoves
    <2>5. Reader("json", e, "u") = h1
        <3>1. Reader("json", e, "u") = Go(e, "hex1")
            BY <1>2, JsonMoves
        <3>2. Go(e, "hex1") = h1
            BY GoAt DEF e
        <3> QED
            BY <3>1, <3>2
    <2>6. Reader("json", h1, "0") = h2
        <3>1. Reader("json", h1, "0") = Go(h1, "hex2")
            BY AtParts, JsonMoves
        <3>2. Go(h1, "hex2") = At("hex2", t, r, rs)
            BY GoAt
        <3> QED
            BY <3>1, <3>2
    <2>7. Reader("json", h2, "0") = h3
        <3>1. Reader("json", h2, "0") = Go(h2, "hex3")
            BY AtParts, JsonMoves
        <3>2. Go(h2, "hex3") = At("hex3", t, r, rs)
            BY GoAt
        <3> QED
            BY <3>1, <3>2
    <2>8. Reader("json", h3, "x") = h4
        <3>1. Reader("json", h3, "x") = Go(h3, "hex4")
            BY AtParts, JsonMoves
        <3>2. Go(h3, "hex4") = At("hex4", t, r, rs)
            BY GoAt
        <3> QED
            BY <3>1, <3>2
    <2>9. Reader("json", h4, "x") = At("in", Append(t, "ctl"), r, rs)
        <3>1. Reader("json", h4, "x") = Keep(h4, "in", "ctl")
            BY AtParts, JsonMoves
        <3> QED
            BY <3>1, KeepAt
    <2> HIDE DEF h1, h2, h3, h4
    <2> QED
        BY <1>7, <2>1, <2>2, <2>3, <2>4, <2>5, <2>6, <2>7, <2>8, <2>9, Zenon DEF s
<1>8. CASE c \notin {"quote", "backslash", "nl", "cr", "tab", "ctl"}
    <2>1. JsonBytes(c) = <<c>>
        BY <1>8 DEF JsonBytes
    <2>2. Read("json", s, <<c>>) = Reader("json", s, c)
        <3>1. s \in States /\ c \in AllBytes
            BY <1>1, <1>3
        <3> QED
            BY <3>1, ReadShort, Zenon
    <2>3. Reader("json", s, c) = Keep(s, "in", c)
        BY <1>1, <1>8, JsonMoves
    <2> QED
        BY <1>1, <2>1, <2>2, <2>3, Zenon DEF s
<1> QED
    BY <1>5, <1>6, <1>7, <1>8

\* How many bytes the n-th byte of the field escapes to.
Width(n) == Len(IF format = "csv" THEN CsvBytes(src[n]) ELSE JsonBytes(src[n]))

LEMMA WidthIsPositive ==
    ASSUME src \in Seq(Bytes), NEW n \in 1 .. Len(src)
    PROVE  Width(n) \in Nat /\ Width(n) >= 1
<1> DEFINE c == src[n]
<1>1. c \in Bytes
    OBVIOUS
<1> HIDE DEF c
<1>2. CsvBytes(c) \in {<<"space">>, <<"quote", "quote">>, <<c>>}
    BY DEF CsvBytes
<1>3. JsonBytes(c) \in {<<"backslash", c>>, <<"backslash", "n">>, <<"backslash", "r">>,
          <<"backslash", "t">>, <<"backslash", "u", "0", "0", "x", "x">>, <<c>>}
    BY DEF JsonBytes
<1>4. Len(CsvBytes(c)) \in {1, 2}
    BY <1>2
<1>5. Len(JsonBytes(c)) \in {1, 2, 6}
    BY <1>3
<1> QED
    BY <1>4, <1>5 DEF Width, c

\* The lengths of the escaped fronts add up.
LEMMA EscapedStepwise ==
    ASSUME src \in Seq(Bytes)
    PROVE  /\ \A n \in 0 .. Len(src) : Escaped[n] \in Nat
           /\ Escaped[0] = 0
           /\ \A n \in 1 .. Len(src) : Escaped[n] = Escaped[n - 1] + Width(n)
<1> DEFINE N == Len(src)
           step == [n \in 1 .. N |-> [e \in Nat |-> e + Width(n)]]
           f == Stepwise(0, N, step)
           Is(g) == g = [n \in 0 .. N |-> IF n = 0 THEN 0 ELSE g[n - 1] + Width(n)]
           e == Escaped
<1>1. N \in Nat /\ 0 \in Nat
    OBVIOUS
<1>2. step \in [1 .. N -> [Nat -> Nat]]
    <2>1. \A n \in 1 .. N : Width(n) \in Nat
        BY WidthIsPositive
    <2> QED
        BY <2>1
<1>3. f \in [0 .. N -> Nat] /\ f[0] = 0 /\ \A n \in 1 .. N : f[n] = step[n][f[n - 1]]
    <2> DEFINE V == Nat
               v == 0
               s == Stepwise(v, N, step)
    <2>1. v \in V /\ N \in Nat /\ step \in [1 .. N -> [V -> V]]
        BY <1>1, <1>2
    <2> HIDE DEF step, N, V, v
    <2>2. s \in [0 .. N -> V] /\ s[0] = v /\ \A n \in 1 .. N : s[n] = step[n][s[n - 1]]
        BY <2>1, StepwiseFunction
    <2> QED
        BY <2>2 DEF V, v
<1> HIDE DEF f
<1>4. \A n \in 1 .. N : f[n] = f[n - 1] + Width(n)
    <2> TAKE n \in 1 .. N
    <2>1. n - 1 \in 0 .. N
        BY <1>1
    <2>2. f[n - 1] \in Nat
        BY <1>3, <2>1
    <2>3. step[n][f[n - 1]] = f[n - 1] + Width(n)
        BY <2>2
    <2> QED
        BY <1>3, <2>3
<1> HIDE DEF step
<1>5. Is(f)
    BY <1>1, <1>3, <1>4
<1>6. Is(e)
    <2> HIDE DEF Is
    <2>1. e = CHOOSE g : Is(g)
        BY DEF Escaped, Is, Width
    <2> QED
        BY <1>5, <2>1
<1> HIDE DEF e, N
<1>7. e[0] = 0 /\ \A n \in 1 .. N : e[n] = e[n - 1] + Width(n)
    BY <1>1, <1>6
<1>8. \A n \in 0 .. N : e[n] \in Nat
    <2> DEFINE P == {n \in Nat : n <= N => e[n] \in Nat}
    <2>1. 0 \in P
        BY <1>7
    <2>2. ASSUME NEW n \in Nat, n \in P PROVE n + 1 \in P
        <3> SUFFICES ASSUME n + 1 <= N PROVE e[n + 1] \in Nat
            OBVIOUS
        <3>1. n + 1 \in 1 .. N /\ (n + 1) - 1 = n /\ e[n] \in Nat
            BY <1>1, <2>2
        <3>2. Width(n + 1) \in Nat /\ e[n + 1] = e[n] + Width(n + 1)
            BY <1>7, <3>1, WidthIsPositive DEF N
        <3> QED
            BY <3>1, <3>2
    <2> HIDE DEF P
    <2>3. Nat \subseteq P
        BY <2>1, <2>2, SetInduction
    <2> QED
        BY <1>1, <2>3 DEF P
<1> QED
    BY <1>7, <1>8 DEF e, N

\* A longer front escapes to more bytes.
LEMMA EscapedGrows ==
    ASSUME src \in Seq(Bytes), NEW m \in 0 .. Len(src)
    PROVE  Escaped[m] + (Len(src) - m) <= Escaped[Len(src)]
<1> DEFINE N == Len(src)
           e == Escaped
           P == {k \in Nat : k <= N - m => e[m] + k <= e[m + k]}
<1>1. N \in Nat /\ m \in Nat /\ m <= N
    OBVIOUS
<1>2. /\ \A n \in 0 .. N : e[n] \in Nat
      /\ \A n \in 1 .. N : e[n] = e[n - 1] + Width(n) /\ Width(n) \in Nat /\ Width(n) >= 1
    BY EscapedStepwise, WidthIsPositive
<1> HIDE DEF e, N
<1>3. 0 \in P
    BY <1>1, <1>2
<1>4. ASSUME NEW k \in Nat, k \in P PROVE k + 1 \in P
    <2> SUFFICES ASSUME k + 1 <= N - m PROVE e[m] + (k + 1) <= e[m + (k + 1)]
        OBVIOUS
    <2>1. e[m] + k <= e[m + k]
        BY <1>1, <1>4
    <2>2. m + (k + 1) \in 1 .. N /\ (m + (k + 1)) - 1 = m + k /\ m + k \in 0 .. N /\ m \in 0 .. N
        BY <1>1
    <2>3. /\ e[m] \in Nat /\ e[m + k] \in Nat
          /\ e[m + (k + 1)] = e[m + k] + Width(m + (k + 1))
          /\ Width(m + (k + 1)) \in Nat /\ Width(m + (k + 1)) >= 1
        BY <1>2, <2>2
    <2> QED
        BY <2>1, <2>3
<1> HIDE DEF P
<1>5. Nat \subseteq P
    BY <1>3, <1>4, SetInduction
<1>6. N - m \in Nat /\ m + (N - m) = N
    BY <1>1
<1>7. e[m] + (N - m) <= e[m + (N - m)]
    BY <1>5, <1>6 DEF P
<1> QED
    BY <1>6, <1>7 DEF e, N

\* The bytes of an escape are bytes of a text.
LEMMA EscapeTexts ==
    ASSUME NEW c \in Bytes
    PROVE  CsvBytes(c) \in Seq(AllBytes) /\ JsonBytes(c) \in Seq(AllBytes)
<1>1. \A s \in Seq(Strung) : s \in Seq(AllBytes)
    BY DEF Strung, AllBytes
<1> QED
    BY <1>1, EscapeLength

\* A text decodes if its characters are whole up to the last, and the last is ended.
LEMMA DecodesParts ==
    ASSUME NEW b \in Seq(AllBytes)
    PROVE  Decodes(b) <=> Joined(b) /\ ~Unended(b)
<1>1. Byte(b, Len(b) + 1) = "nul"
    BY DEF Byte
<1>2. 0 .. Len(b) = (0 .. Len(b) - 1) \cup {Len(b)} /\ Len(b) \in Nat
    OBVIOUS
<1> QED
    BY <1>1, <1>2 DEF Decodes, Joined, Unended

\* More bytes leave the junctions of the bytes before them as they were.
LEMMA JoinedMore ==
    ASSUME NEW b \in Seq(AllBytes), NEW e \in Seq(AllBytes), e # <<>>
    PROVE  /\ \A n \in 0 .. Len(b) : Byte(b \o e, n) = Byte(b, n)
           /\ \A n \in 1 .. Len(e) : Byte(b \o e, Len(b) + n) = e[n]
           /\ Len(b \o e) = Len(b) + Len(e)
<1>1. b \o e \in Seq(AllBytes) /\ Len(b \o e) = Len(b) + Len(e) /\ Len(b) \in Nat /\ Len(e) \in Nat
    OBVIOUS
<1>2. ASSUME NEW n \in 0 .. Len(b) PROVE Byte(b \o e, n) = Byte(b, n)
    <2>1. CASE n = 0
        BY <1>1, <2>1 DEF Byte
    <2>2. CASE n \in 1 .. Len(b)
        <3>1. n \in DOMAIN b /\ n \in DOMAIN (b \o e) /\ (b \o e)[n] = b[n]
            BY <1>1, <2>2
        <3> QED
            BY <3>1, Zenon DEF Byte
    <2> QED
        BY <1>2, <2>1, <2>2
<1>3. ASSUME NEW n \in 1 .. Len(e) PROVE Byte(b \o e, Len(b) + n) = e[n]
    <2>1. Len(b) + n \in DOMAIN (b \o e) /\ (b \o e)[Len(b) + n] = e[n]
        BY <1>1, <1>3
    <2> QED
        BY <2>1, Zenon DEF Byte
<1> QED
    BY <1>1, <1>2, <1>3

\* Bytes that are no part of a longer character: what is before them must be ended.
LEMMA JoinedPlain ==
    ASSUME NEW b \in Seq(AllBytes), NEW e \in Seq(AllBytes), e # <<>>,
           \A n \in 1 .. Len(e) : e[n] \notin {"lead", "tail"}
    PROVE  (Joined(b \o e) <=> Joined(b) /\ ~Unended(b)) /\ ~Unended(b \o e)
<1> DEFINE be == b \o e
<1>1. Len(b) \in Nat /\ Len(e) \in Nat /\ Len(e) >= 1
    OBVIOUS
<1>2. /\ \A n \in 0 .. Len(b) : Byte(be, n) = Byte(b, n)
      /\ \A n \in 1 .. Len(e) : Byte(be, Len(b) + n) \notin {"lead", "tail"}
      /\ Len(be) = Len(b) + Len(e)
    BY JoinedMore
<1> HIDE DEF be
<1>3. \A n \in Len(b) + 1 .. Len(b) + Len(e) : Byte(be, n) \notin {"lead", "tail"}
    <2> TAKE n \in Len(b) + 1 .. Len(b) + Len(e)
    <2>1. n - Len(b) \in 1 .. Len(e) /\ Len(b) + (n - Len(b)) = n
        BY <1>1
    <2> QED
        BY <1>2, <2>1
<1>4. ~Unended(be)
    BY <1>1, <1>2, <1>3 DEF Unended
<1>5. ASSUME Joined(be) PROVE Joined(b) /\ ~Unended(b)
    <2>1. Joined(b)
        BY <1>1, <1>2, <1>5 DEF Joined
    <2>2. Len(b) \in 0 .. Len(be) - 1 /\ Byte(be, Len(b) + 1) # "tail"
        BY <1>1, <1>2, <1>3
    <2> QED
        BY <1>1, <1>2, <1>5, <2>1, <2>2 DEF Joined, Unended
<1>6. ASSUME Joined(b), ~Unended(b) PROVE Joined(be)
    <2> SUFFICES ASSUME NEW n \in 0 .. Len(be) - 1 PROVE Byte(be, n) = "lead" <=> Byte(be, n + 1) = "tail"
        BY DEF Joined
    <2>1. CASE n < Len(b)
        BY <1>1, <1>2, <1>6, <2>1 DEF Joined
    <2>2. CASE n >= Len(b)
        <3>1. Byte(be, n + 1) # "tail"
            BY <1>1, <1>2, <1>3, <2>2
        <3>2. Byte(be, n) # "lead"
            BY <1>1, <1>2, <1>3, <1>6, <2>2 DEF Unended
        <3> QED
            BY <3>1, <3>2
    <2> QED
        BY <1>1, <1>2, <2>1, <2>2
<1> QED
    BY <1>4, <1>5, <1>6 DEF be

\* A byte of a longer character.
LEMMA JoinedPart ==
    ASSUME NEW b \in Seq(AllBytes), NEW c \in AllBytes
    PROVE  /\ Joined(b \o <<c>>) <=> Joined(b) /\ (Unended(b) <=> c = "tail")
           /\ Unended(b \o <<c>>) <=> c = "lead"
<1> DEFINE e == <<c>>
           be == b \o e
<1>1. Len(b) \in Nat /\ Len(e) = 1 /\ e[1] = c /\ e \in Seq(AllBytes) /\ e # <<>>
    OBVIOUS
<1> HIDE DEF e
<1>2. /\ \A n \in 0 .. Len(b) : Byte(be, n) = Byte(b, n)
      /\ Byte(be, Len(b) + 1) = c
      /\ Len(be) = Len(b) + 1
    BY <1>1, JoinedMore
<1> HIDE DEF be
<1>3. 0 .. Len(be) - 1 = (0 .. Len(b) - 1) \cup {Len(b)}
    BY <1>1, <1>2
<1>4. Unended(be) <=> c = "lead"
    BY <1>2 DEF Unended
<1>5. Joined(be) <=> Joined(b) /\ (Unended(b) <=> c = "tail")
    <2>1. \A n \in 0 .. Len(b) - 1 : Byte(be, n) = Byte(b, n) /\ Byte(be, n + 1) = Byte(b, n + 1)
        BY <1>1, <1>2
    <2>2. Byte(be, Len(b)) = Byte(b, Len(b))
        BY <1>1, <1>2
    <2> QED
        BY <1>1, <1>2, <1>3, <2>1, <2>2 DEF Joined, Unended
<1> QED
    BY <1>4, <1>5 DEF be, e

\* An escape begins and ends the same character as the byte it stands for.
LEMMA EscapeJoins ==
    ASSUME NEW b \in Seq(AllBytes), NEW t \in Seq(AllBytes), NEW c \in Bytes, SameEnds(b, t)
    PROVE  SameEnds(b \o JsonBytes(c), t \o <<c>>)
<1> DEFINE e == JsonBytes(c)
<1>1. c \in AllBytes /\ e \in Seq(AllBytes)
    BY EscapeTexts DEF AllBytes
<1>2. CASE c \in {"lead", "tail"}
    <2>1. e = <<c>>
        BY <1>2 DEF JsonBytes
    <2> HIDE DEF e
    <2> QED
        BY <1>1, <2>1, JoinedPart DEF SameEnds, e
<1>3. CASE c \notin {"lead", "tail"}
    <2>1. e # <<>> /\ \A n \in 1 .. Len(e) : e[n] \notin {"lead", "tail"}
        <3>1. e \in {<<"backslash", c>>, <<"backslash", "n">>, <<"backslash", "r">>,
                 <<"backslash", "t">>, <<"backslash", "u", "0", "0", "x", "x">>, <<c>>}
            BY DEF JsonBytes
        <3> HIDE DEF e
        <3>2. ASSUME NEW a, a \notin {"lead", "tail"}
              PROVE  /\ <<"backslash", a>> # <<>>
                     /\ \A n \in 1 .. Len(<<"backslash", a>>) : <<"backslash", a>>[n] \notin {"lead", "tail"}
            BY <3>2
        <3>3. /\ <<c>> # <<>>
              /\ \A n \in 1 .. Len(<<c>>) : <<c>>[n] \notin {"lead", "tail"}
            BY <1>3
        <3>4. /\ <<"backslash", "u", "0", "0", "x", "x">> # <<>>
              /\ \A n \in 1 .. Len(<<"backslash", "u", "0", "0", "x", "x">>) :
                     <<"backslash", "u", "0", "0", "x", "x">>[n] \notin {"lead", "tail"}
            OBVIOUS
        <3>5. {c, "n", "r", "t"} \cap {"lead", "tail"} = {}
            BY <1>3
        <3> QED
            BY <3>1, <3>2, <3>3, <3>4, <3>5
    <2> HIDE DEF e
    <2>2. (Joined(b \o e) <=> Joined(b) /\ ~Unended(b)) /\ ~Unended(b \o e)
        BY <1>1, <2>1, JoinedPlain
    <2>3. (Joined(t \o <<c>>) <=> Joined(t) /\ ~Unended(t)) /\ ~Unended(t \o <<c>>)
        BY <1>1, <1>3, JoinedPart
    <2> QED
        BY <2>2, <2>3 DEF SameEnds, e
<1> QED
    BY <1>2, <1>3

\* Both strings begin with the opening quote.
LEMMA ReadsInit == Init => Reads
<1> SUFFICES ASSUME Init PROVE Reads
    OBVIOUS
<1>1. src \in Seq(Bytes)
    BY FieldsAreSequences DEF Init
<1>2. dst = <<"quote">> /\ i = 0 /\ pc = "copy" /\ dst # <<>> /\ Len(dst) = 1
    BY DEF Init
<1>3. SubSeq(Blanked(src), 1, 0) = <<>> /\ SubSeq(src, 1, 0) = <<>>
    BY SubSeqEmpty
<1>4. Read("csv", CsvStart, dst) = At("quoted", <<>>, <<<<"plain">>>>, <<>>)
    <2>1. "quote" \in AllBytes
        BY DEF AllBytes, Bytes
    <2>2. Read("csv", CsvStart, <<"quote">>) = Reader("csv", CsvStart, "quote")
        BY <2>1, StartsAreStates, ReadShort, Zenon
    <2>3. Reader("csv", CsvStart, "quote") = Go(CsvStart, "quoted")
        BY AtParts, CsvMoves DEF CsvStart
    <2>4. Go(CsvStart, "quoted") = At("quoted", <<>>, <<<<"plain">>>>, <<>>)
        BY GoAt DEF CsvStart
    <2> QED
        BY <1>2, <2>2, <2>3, <2>4
<1>5. Read("json", JsonStart, Tail(dst)) = At("in", <<>>, <<>>, <<>>)
    <2>1. "quote" \in AllBytes
        BY DEF AllBytes, Bytes
    <2>2. Read("json", JsonStart, <<>>) = JsonStart
        BY <2>1, StartsAreStates, ReadShort, Zenon
    <2>3. Tail(dst) = <<>>
        BY <1>2
    <2> QED
        BY <2>2, <2>3 DEF JsonStart
<1>6. Escaped[0] = 0
    BY <1>1, EscapedStepwise
<1>10. Characters
    <2>1. Tail(dst) = <<>>
        BY <1>2
    <2> QED
        BY <1>2, <1>3, <2>1, Zenon DEF Characters, SameEnds
<1>7. CsvFront /\ JsonFront /\ Characters
    BY <1>2, <1>3, <1>4, <1>5, <1>10, Zenon DEF CsvFront, JsonFront
<1>8. Measured
    BY <1>2, <1>6 DEF Measured
<1>9. pc # "done"
    BY <1>2
<1> QED
    BY <1>2, <1>7, <1>8, <1>9, Zenon DEF Reads, CsvReadBack, JsonReadBack, KeptWhole

\* The field with its line ends blanked is a field of the same length.
LEMMA BlankedBytes ==
    ASSUME src \in Seq(Bytes)
    PROVE  /\ Blanked(src) \in Seq(Bytes) /\ Len(Blanked(src)) = Len(src)
           /\ \A n \in 1 .. Len(src) : Blanked(src)[n] = Blank(src[n])
           /\ \A n \in 0 .. Len(src) : SubSeq(Blanked(src), 1, n) \in Texts
           /\ \A n \in 0 .. Len(src) : SubSeq(src, 1, n) \in Texts
<1> DEFINE b == Blanked(src)
<1>1. /\ DOMAIN b = 1 .. Len(src) /\ b = [n \in 1 .. Len(src) |-> b[n]]
      /\ \A n \in 1 .. Len(src) : b[n] = Blank(src[n])
    BY DEF Blanked, Blank
<1>2. \A n \in 1 .. Len(src) : b[n] \in Bytes
    BY <1>1 DEF Blank, Bytes
<1> HIDE DEF b
<1>3. b \in Seq(Bytes) /\ Len(b) = Len(src)
    BY <1>1, <1>2
<1>4. \A s \in Seq(Bytes) : \A n \in 0 .. Len(s) : SubSeq(s, 1, n) \in Texts
    <2> TAKE s \in Seq(Bytes)
    <2> TAKE n \in 0 .. Len(s)
    <2>1. s \in Seq(AllBytes)
        BY DEF AllBytes
    <2> QED
        BY <2>1 DEF Texts
<1> QED
    BY <1>1, <1>3, <1>4 DEF b

\* A turn of the CSV loop gives the reader one more byte of the field.
LEMMA CsvCopyReads ==
    ASSUME TypeOK, Reads, csv_escape_quoted
    PROVE  Reads'
<1> DEFINE c == src[i + 1]
           bytes == CsvBytes(c)
           t == SubSeq(Blanked(src), 1, i)
           r == <<<<"plain">>>>
<1>1. /\ format = "csv" /\ pc = "copy" /\ i < Len(src) /\ dst' = dst \o bytes /\ i' = i + 1
      /\ pc' = pc /\ src' = src /\ format' = format
    BY DEF csv_escape_quoted, Copy
<1>2. /\ src \in Seq(Bytes) /\ i \in 0 .. Len(src) - 1 /\ i + 1 \in 1 .. Len(src) /\ c \in Bytes
      /\ dst \in Seq(AllBytes)
    BY <1>1 DEF TypeOK, AllBytes
<1>3. dst # <<>> /\ CsvFront /\ Measured
    BY <1>1 DEF Reads
<1>4. bytes \in Seq(AllBytes) /\ t \in Texts
    BY <1>2, EscapeTexts, BlankedBytes
<1>5. Len(bytes) = Width(i + 1)
    BY <1>1 DEF Width
<1> HIDE DEF bytes, t, r
<1>6. Read("csv", CsvStart, dst \o bytes) = Read("csv", Read("csv", CsvStart, dst), bytes)
      /\ Read("csv", CsvStart, dst) \in States
    BY <1>2, <1>4, StartsAreStates, ReadConcat
<1>7. Read("csv", CsvStart, dst) = At("quoted", t, r, <<>>)
    BY <1>1, <1>3 DEF CsvFront, t, r
<1>8. Read("csv", At("quoted", t, r, <<>>), bytes) = At("quoted", Append(t, Blank(c)), r, <<>>)
    <2>1. At("quoted", t, r, <<>>) \in States
        BY <1>6, <1>7
    <2> QED
        BY <1>2, <1>4, <2>1, CsvReads DEF bytes
<1>9. Append(t, Blank(c)) = SubSeq(Blanked(src), 1, i + 1)
    <2>1. Blanked(src) \in Seq(Bytes) /\ i \in 0 .. Len(Blanked(src)) - 1 /\ Blanked(src)[i + 1] = Blank(c)
        BY <1>2, BlankedBytes
    <2> QED
        BY <2>1, FrontNext DEF t
<1>10. CsvFront'
    BY <1>1, <1>6, <1>7, <1>8, <1>9, Zenon DEF CsvFront, CsvStart, r, Blanked
<1>11. JsonFront' /\ Characters'
    BY <1>1 DEF JsonFront, Characters
<1>12. Measured' /\ dst' # <<>>
    <2>1. Escaped' = Escaped
        BY <1>1 DEF Escaped
    <2>2. Escaped[i + 1] = Escaped[i] + Width(i + 1) /\ Escaped[i] \in Nat
        BY <1>2, EscapedStepwise
    <2>3. Len(dst') = Len(dst) + Len(bytes) /\ Len(dst) \in Nat /\ Len(bytes) \in Nat
        BY <1>1, <1>2, <1>4
    <2>4. Len(dst') = 1 + Escaped[i + 1]
        BY <1>3, <1>5, <2>2, <2>3 DEF Measured
    <2>5. dst' # <<>>
        BY <1>1, <1>2, <1>3, <1>4
    <2> QED
        BY <1>1, <2>1, <2>4, <2>5 DEF Measured
<1>13. pc' # "done"
    BY <1>1
<1> QED
    BY <1>10, <1>11, <1>12, <1>13 DEF Reads, CsvReadBack, JsonReadBack, KeptWhole

\* A turn of the JSON loop gives the reader one more byte of the field.
LEMMA JsonCopyReads ==
    ASSUME TypeOK, Reads, json_escape_quoted
    PROVE  Reads'
<1> DEFINE c == src[i + 1]
           bytes == JsonBytes(c)
           t == SubSeq(src, 1, i)
<1>1. /\ format = "json" /\ pc = "copy" /\ i < Len(src) /\ dst' = dst \o bytes /\ i' = i + 1
      /\ pc' = pc /\ src' = src /\ format' = format
    BY DEF json_escape_quoted, Copy
<1>2. /\ src \in Seq(Bytes) /\ i \in 0 .. Len(src) - 1 /\ i + 1 \in 1 .. Len(src) /\ c \in Bytes
      /\ dst \in Seq(AllBytes)
    BY <1>1 DEF TypeOK, AllBytes
<1>3. dst # <<>> /\ JsonFront /\ Measured /\ Characters
    BY <1>1 DEF Reads
<1>4. bytes \in Seq(AllBytes) /\ t \in Texts
    BY <1>2, EscapeTexts, BlankedBytes
<1>5. Len(bytes) = Width(i + 1)
    BY <1>1 DEF Width
<1> HIDE DEF bytes, t
<1>6. Tail(dst) \in Seq(AllBytes) /\ Tail(dst \o bytes) = Tail(dst) \o bytes
    BY <1>2, <1>3, <1>4
<1>7. Read("json", JsonStart, Tail(dst) \o bytes) = Read("json", Read("json", JsonStart, Tail(dst)), bytes)
      /\ Read("json", JsonStart, Tail(dst)) \in States
    BY <1>4, <1>6, StartsAreStates, ReadConcat
<1>8. Read("json", JsonStart, Tail(dst)) = At("in", t, <<>>, <<>>)
    BY <1>1, <1>3 DEF JsonFront, t
<1>9. Read("json", At("in", t, <<>>, <<>>), bytes) = At("in", Append(t, c), <<>>, <<>>)
    <2>1. At("in", t, <<>>, <<>>) \in States
        BY <1>7, <1>8
    <2> QED
        BY <1>2, <1>4, <2>1, JsonReads DEF bytes
<1>10. Append(t, c) = SubSeq(src, 1, i + 1)
    BY <1>2, FrontNext DEF t
<1>11. JsonFront'
    BY <1>1, <1>6, <1>7, <1>8, <1>9, <1>10, Zenon DEF JsonFront, JsonStart
<1>15. Characters'
    <2>1. t \in Seq(AllBytes) /\ SameEnds(Tail(dst), t)
        BY <1>1, <1>3, <1>4 DEF Characters, t, Texts
    <2>2. SameEnds(Tail(dst) \o bytes, t \o <<c>>)
        BY <1>2, <1>6, <2>1, EscapeJoins DEF bytes
    <2>3. Append(t, c) = t \o <<c>>
        BY <1>2, <2>1, AppendIsConcat DEF AllBytes
    <2> QED
        BY <1>1, <1>6, <1>10, <2>2, <2>3, Zenon DEF Characters
<1>12. CsvFront' /\ Characters'
    BY <1>1, <1>15 DEF CsvFront
<1>13. Measured' /\ dst' # <<>>
    <2>1. Escaped' = Escaped
        BY <1>1 DEF Escaped
    <2>2. Escaped[i + 1] = Escaped[i] + Width(i + 1) /\ Escaped[i] \in Nat
        BY <1>2, EscapedStepwise
    <2>3. Len(dst') = Len(dst) + Len(bytes) /\ Len(dst) \in Nat /\ Len(bytes) \in Nat
        BY <1>1, <1>2, <1>4
    <2>4. Len(dst') = 1 + Escaped[i + 1]
        BY <1>3, <1>5, <2>2, <2>3 DEF Measured
    <2>5. dst' # <<>>
        BY <1>1, <1>2, <1>3, <1>4
    <2> QED
        BY <1>1, <2>1, <2>4, <2>5 DEF Measured
<1>14. pc' # "done"
    BY <1>1
<1> QED
    BY <1>11, <1>12, <1>13, <1>14 DEF Reads, CsvReadBack, JsonReadBack, KeptWhole

\* What Close leaves for the readers: the text of the loop and the closing quote.
LEMMA ClosedField ==
    ASSUME TypeOK, Reads, Close
    PROVE  /\ dst \in Seq(AllBytes) /\ dst # <<>> /\ "quote" \in AllBytes
           /\ Field' = dst \o <<"quote">>
<1>1. dst \in Seq(AllBytes) /\ dst # <<>> /\ dst' = dst \o <<"quote", "nul">>
    BY DEF TypeOK, Reads, Close, AllBytes
<1>2. "quote" \in AllBytes /\ "nul" \in AllBytes
    BY DEF AllBytes, Bytes, Written
<1> DEFINE f == SubSeq(dst', 1, Len(dst') - 1)
           g == dst \o <<"quote">>
<1>3. dst' \in Seq(AllBytes) /\ Len(dst') = Len(dst) + 2
    BY <1>1, <1>2
<1>4. \A n \in 1 .. Len(dst) + 2 : dst'[n] = IF n <= Len(dst) THEN dst[n] ELSE <<"quote", "nul">>[n - Len(dst)]
    BY <1>1, <1>2
<1>5. f \in Seq(AllBytes) /\ Len(f) = Len(dst) + 1 /\ \A n \in 1 .. Len(dst) + 1 : f[n] = dst'[n]
    BY <1>1, <1>3
<1>6. g \in Seq(AllBytes) /\ Len(g) = Len(dst) + 1
      /\ \A n \in 1 .. Len(dst) + 1 : g[n] = IF n <= Len(dst) THEN dst[n] ELSE "quote"
    BY <1>1, <1>2
<1>7. Len(dst) \in Nat
    BY <1>1
<1> HIDE DEF f, g
<1>8. \A n \in 1 .. Len(f) : f[n] = g[n]
    BY <1>4, <1>5, <1>6, <1>7
<1>9. f = g
    BY <1>5, <1>6, <1>8, SeqEqual
<1> QED
    BY <1>1, <1>2, <1>9 DEF Field, Front, f, g

\* Rows of up to three fields.
LEMMA ShortRows ==
    ASSUME NEW a, NEW b, NEW c
    PROVE  /\ Append(<<>>, a) = <<a>> /\ Append(<<a>>, b) = <<a, b>>
           /\ Append(<<a, b>>, c) = <<a, b, c>>
<1> DEFINE S == {a, b, c}
           u == Append(<<a, b>>, c)
           v == <<a, b, c>>
           w == Append(<<a>>, b)
           x == <<a, b>>
<1>1. u \in Seq(S) /\ Len(u) = 3 /\ u[1] = a /\ u[2] = b /\ u[3] = c
    OBVIOUS
<1>2. v \in Seq(S) /\ Len(v) = 3 /\ v[1] = a /\ v[2] = b /\ v[3] = c
    OBVIOUS
<1>3. w \in Seq(S) /\ Len(w) = 2 /\ w[1] = a /\ w[2] = b
    OBVIOUS
<1>4. x \in Seq(S) /\ Len(x) = 2 /\ x[1] = a /\ x[2] = b
    OBVIOUS
<1>5. Append(<<>>, a) = <<a>>
    OBVIOUS
<1> HIDE DEF S, u, v, w, x
<1>6. u = v
    BY <1>1, <1>2, SeqEqual
<1>7. w = x
    BY <1>3, <1>4, SeqEqual
<1> QED
    BY <1>5, <1>6, <1>7 DEF u, v, w, x

\* The row before the field, and after its closing quote.
LEMMA RowAround ==
    ASSUME NEW t \in Texts
    PROVE  /\ <<"plain", "comma", "space">> \in Seq(AllBytes)
           /\ At("start", <<>>, <<>>, <<>>) \in States
           /\ Read("csv", At("start", <<>>, <<>>, <<>>), <<"plain", "comma", "space">>) = CsvStart
           /\ <<"comma", "space", "quote", "plain", "quote", "nl">> \in Seq(AllBytes)
           /\ Read("csv", At("closing", t, <<<<"plain">>>>, <<>>),
                   <<"comma", "space", "quote", "plain", "quote", "nl">>).rows
                  = << <<<<"plain">>, t, <<"plain">>>> >>
<1>1. /\ "plain" \in AllBytes /\ "comma" \in AllBytes /\ "space" \in AllBytes /\ "quote" \in AllBytes
      /\ "nl" \in AllBytes
    BY DEF AllBytes, Bytes
<1>2. At("start", <<>>, <<>>, <<>>) \in States /\ At("closing", t, <<<<"plain">>>>, <<>>) \in States
    <2>1. "start" \in Places /\ "closing" \in Places /\ <<>> \in Texts
        BY DEF Places, Texts
    <2> QED
        BY <2>1, StartsAreStates
<1>3. <<"plain", "comma", "space">> \in Seq(AllBytes)
      /\ Read("csv", At("start", <<>>, <<>>, <<>>), <<"plain", "comma", "space">>) = CsvStart
    <2> DEFINE b == <<"plain", "comma", "space">>
               o == Nothing
               p == <<"plain">>
               r == <<p>>
               s == At("start", o, o, o)
               s1 == At("in", p, o, o)
               s2 == At("start", o, r, o)
    <2>1. b \in Seq(AllBytes) /\ Len(b) = 3 /\ b[1] = "plain" /\ b[2] = "comma" /\ b[3] = "space"
        BY <1>1
    <2>0. Append(o, "plain") = p /\ Append(o, p) = r
        BY ShortRows DEF Nothing
    <2>9. s \in States
        BY <1>2 DEF Nothing
    <2> HIDE DEF r, p
    <2>10. EndField(s1) = At("start", o, Append(o, p), o)
        BY EndAt
    <2> HIDE DEF o
    <2>2. Reader("csv", s, "plain") = s1
        <3>1. Reader("csv", s, "plain") = Keep(s, "in", "plain")
            BY AtParts, CsvMoves
        <3>2. Keep(s, "in", "plain") = At("in", Append(o, "plain"), o, o)
            BY KeepAt
        <3> QED
            BY <2>0, <3>1, <3>2
    <2>3. Reader("csv", s1, "comma") = s2
        <3>1. Reader("csv", s1, "comma") = EndField(s1)
            BY AtParts, CsvMoves
        <3> QED
            BY <2>0, <2>10, <3>1
    <2>4. Reader("csv", s2, "space") = s2
        BY AtParts, CsvMoves
    <2> DEFINE f == Reading("csv", s, b)
    <2> HIDE DEF b, s, s1, s2
    <2>5. StepsFrom("csv", s, b, f)
        BY <2>1, <2>9, ReadStepwise
    <2> HIDE DEF f
    <2>6. /\ f[0] = s /\ f[1] = Reader("csv", f[0], b[1]) /\ f[2] = Reader("csv", f[1], b[2])
          /\ f[3] = Reader("csv", f[2], b[3])
        BY <2>1, <2>5 DEF StepsFrom
    <2>7. Read("csv", s, b) = f[3]
        BY <2>1 DEF Read, f
    <2>8. Read("csv", s, b) = s2
        BY <2>1, <2>2, <2>3, <2>4, <2>6, <2>7
    <2> QED
        BY <2>1, <2>8 DEF b, s, s2, o, p, r, CsvStart, Nothing
<1>4. /\ <<"comma", "space", "quote", "plain", "quote", "nl">> \in Seq(AllBytes)
      /\ Read("csv", At("closing", t, <<<<"plain">>>>, <<>>),
              <<"comma", "space", "quote", "plain", "quote", "nl">>).rows
             = << <<<<"plain">>, t, <<"plain">>>> >>
    <2> DEFINE b == <<"comma", "space", "quote", "plain", "quote", "nl">>
               o == Nothing
               p == <<"plain">>
               r == <<p>>
               r2 == <<p, t>>
               r3 == <<p, t, p>>
               rs == <<r3>>
               s == At("closing", t, r, o)
               s1 == At("start", o, r2, o)
               s2 == At("quoted", o, r2, o)
               s3 == At("quoted", p, r2, o)
               s4 == At("closing", p, r2, o)
               s5 == At("start", o, o, rs)
    <2>1. /\ b \in Seq(AllBytes) /\ Len(b) = 6 /\ b[1] = "comma" /\ b[2] = "space"
          /\ b[3] = "quote" /\ b[4] = "plain" /\ b[5] = "quote" /\ b[6] = "nl"
        BY <1>1
    <2>2. Append(o, "plain") = p
        BY ShortRows DEF Nothing
    <2>12. s \in States
        BY <1>2 DEF Nothing
    <2> HIDE DEF p
    <2>13. Append(r, t) = r2 /\ Append(r2, p) = r3
        BY ShortRows
    <2> HIDE DEF r, r2, r3
    <2>14. Append(o, r3) = rs
        BY ShortRows DEF Nothing
    <2> HIDE DEF rs
    <2>15. /\ EndField(s) = At("start", o, Append(r, t), o)
           /\ EndRow(s4) = At("start", o, o, Append(o, Append(r2, p)))
        <3>1. EndRow(s4) = At("start", o, o, Append(o, Append(r2, p)))
            BY EndAt
        <3>2. EndField(s) = At("start", o, Append(r, t), o)
            BY EndAt
        <3> QED
            BY <3>1, <3>2
    <2> HIDE DEF o
    <2>3. Reader("csv", s, "comma") = s1
        <3>1. Reader("csv", s, "comma") = EndField(s)
            BY AtParts, CsvMoves
        <3> QED
            BY <2>13, <2>15, <3>1
    <2>4. Reader("csv", s1, "space") = s1
        BY AtParts, CsvMoves
    <2>5. Reader("csv", s1, "quote") = s2
        <3>1. Reader("csv", s1, "quote") = Go(s1, "quoted")
            BY AtParts, CsvMoves
        <3>2. Go(s1, "quoted") = At("quoted", o, r2, o)
            BY GoAt
        <3> QED
            BY <3>1, <3>2
    <2>6. Reader("csv", s2, "plain") = s3
        <3>1. Reader("csv", s2, "plain") = Keep(s2, "quoted", "plain")
            BY AtParts, CsvMoves
        <3>2. Keep(s2, "quoted", "plain") = At("quoted", Append(o, "plain"), r2, o)
            BY KeepAt
        <3> QED
            BY <2>2, <3>1, <3>2
    <2>7. Reader("csv", s3, "quote") = s4
        <3>1. Reader("csv", s3, "quote") = Go(s3, "closing")
            BY AtParts, CsvMoves
        <3>2. Go(s3, "closing") = At("closing", p, r2, o)
            BY GoAt
        <3> QED
            BY <3>1, <3>2
    <2>8. Reader("csv", s4, "nl") = s5
        <3>1. Reader("csv", s4, "nl") = EndRow(s4)
            BY AtParts, CsvMoves
        <3> QED
            BY <2>13, <2>14, <2>15, <3>1
    <2>9. s5.rows = rs
        BY AtParts
    <2> HIDE DEF b, s, s1, s2, s3, s4, s5
    <2>10. Read("csv", s, b) =
              Reader("csv", Reader("csv", Reader("csv", Reader("csv", Reader("csv",
                  Reader("csv", s, b[1]), b[2]), b[3]), b[4]), b[5]), b[6])
        BY <2>1, <2>12, ReadSix
    <2>11. Read("csv", s, b) = s5
        BY <2>1, <2>3, <2>4, <2>5, <2>6, <2>7, <2>8, <2>10, Zenon
    <2> QED
        BY <2>1, <2>9, <2>11 DEF b, o, p, r, r3, rs, s, Nothing
<1> QED
    BY <1>2, <1>3, <1>4

\* What the loop leaves off at the end of the buffer does not fit.
LEMMA CloseKeeps ==
    ASSUME TypeOK, Reads, Close
    PROVE  KeptWhole'
<1>1. /\ pc = "copy" /\ i' = i /\ src' = src /\ format' = format /\ dst_len' = dst_len
      /\ i = Len(src) \/ ~(IF format = "csv" THEN CsvRoom ELSE JsonRoom)
    BY DEF Close
<1>2. Escaped' = Escaped
    BY <1>1 DEF Escaped
<1>3. CASE i = Len(src)
    BY <1>1, <1>3 DEF KeptWhole
<1>4. CASE i # Len(src)
    <2>1. src \in Seq(Bytes) /\ i \in 0 .. Len(src) /\ dst_len \in Nat /\ Len(src) \in Nat
        BY EscapeAssumption DEF TypeOK
    <2>2. Len(dst) = 1 + Escaped[i]
        BY <1>1 DEF Reads, Measured
    <2>3. Escaped[i] \in Nat /\ Escaped[Len(src)] \in Nat
        BY <2>1, EscapedStepwise
    <2>4. ~(Len(dst) + 3 < dst_len) \/ ~(Len(dst) + 8 < dst_len)
        BY <1>1, <1>4 DEF CsvRoom, JsonRoom
    <2>5. Escaped[i] + (Len(src) - i) <= Escaped[Len(src)]
        BY <2>1, EscapedGrows
    <2>6. ~(Escaped[Len(src)] + 8 < dst_len)
        BY <1>4, <2>1, <2>2, <2>3, <2>4, <2>5
    <2> QED
        BY <1>1, <1>2, <2>6 DEF KeptWhole
<1> QED
    BY <1>3, <1>4

\* The closing quote ends the field for its reader.
LEMMA CloseReads ==
    ASSUME TypeOK, Reads, Close
    PROVE  Reads'
<1>1. pc = "copy" /\ pc' = "done" /\ i' = i /\ src' = src /\ format' = format
    BY DEF Close
<1>2. dst # <<>> /\ CsvFront /\ JsonFront /\ Characters
    BY <1>1 DEF Reads
<1>3. src \in Seq(Bytes) /\ i \in 0 .. Len(src)
    BY DEF TypeOK
<1>4. SubSeq(Blanked(src), 1, i) \in Texts /\ SubSeq(src, 1, i) \in Texts
    BY <1>3, BlankedBytes
<1>5. ASSUME format = "csv" PROVE Rows' = << <<<<"plain">>, SubSeq(Blanked(src), 1, i), <<"plain">>>> >>
    <2> DEFINE t == SubSeq(Blanked(src), 1, i)
               r == <<<<"plain">>>>
               s == At("start", <<>>, <<>>, <<>>)
               pre == <<"plain", "comma", "space">>
               q == <<"quote">>
               post == <<"comma", "space", "quote", "plain", "quote", "nl">>
    <2>1. t \in Texts
        BY <1>4
    <2>2. CsvRow' = (pre \o (dst \o q)) \o post
        BY ClosedField DEF CsvRow
    <2>3. Read("csv", CsvStart, dst) = At("quoted", t, r, <<>>)
        BY <1>2, <1>5 DEF CsvFront
    <2>4. q \in Seq(AllBytes) /\ dst \in Seq(AllBytes) /\ pre \in Seq(AllBytes) /\ post \in Seq(AllBytes)
          /\ s \in States /\ "quote" \in AllBytes
        BY <2>1, ClosedField, RowAround
    <2>5. /\ Read("csv", s, pre) = CsvStart
          /\ Read("csv", At("closing", t, r, <<>>), post).rows = << <<<<"plain">>, t, <<"plain">>>> >>
        BY <2>1, RowAround
    <2> HIDE DEF t, r, s, pre, post
    <2>6. Read("csv", At("quoted", t, r, <<>>), q) = At("closing", t, r, <<>>)
        <3>1. At("quoted", t, r, <<>>) \in States
            BY <2>3, <2>4, StartsAreStates, ReadTypes
        <3>2. Read("csv", At("quoted", t, r, <<>>), <<"quote">>) = Reader("csv", At("quoted", t, r, <<>>), "quote")
            BY <2>4, <3>1, ReadShort, Zenon
        <3>3. Reader("csv", At("quoted", t, r, <<>>), "quote") = Go(At("quoted", t, r, <<>>), "closing")
            BY AtParts, CsvMoves
        <3>4. Go(At("quoted", t, r, <<>>), "closing") = At("closing", t, r, <<>>)
            BY GoAt
        <3> QED
            BY <3>2, <3>3, <3>4
    <2> HIDE DEF q
    <2>7. Read("csv", CsvStart, dst \o q) = At("closing", t, r, <<>>) /\ dst \o q \in Seq(AllBytes)
        BY <2>3, <2>4, <2>6, StartsAreStates, ReadConcat
    <2> DEFINE mid == dst \o q
               front == pre \o mid
    <2>11. mid \in Seq(AllBytes) /\ Read("csv", CsvStart, mid) = At("closing", t, r, <<>>)
        BY <2>7
    <2> HIDE DEF mid
    <2>12. front \in Seq(AllBytes) /\ Read("csv", s, front) = Read("csv", Read("csv", s, pre), mid)
        BY <2>4, <2>11, ReadConcat
    <2>8. front \in Seq(AllBytes) /\ Read("csv", s, front) = At("closing", t, r, <<>>)
        BY <2>5, <2>11, <2>12
    <2> HIDE DEF front
    <2>9. Read("csv", s, front \o post) = Read("csv", At("closing", t, r, <<>>), post)
        BY <2>4, <2>8, ReadConcat
    <2>10. Rows' = Read("csv", s, CsvRow').rows
        BY DEF Rows, s
    <2> QED
        BY <2>2, <2>5, <2>9, <2>10 DEF t, front, mid
<1>6. ASSUME format = "json"
      PROVE  JsonRead' = IF Decodes(SubSeq(src, 1, i)) THEN At("end", SubSeq(src, 1, i), <<>>, <<>>)
                                                       ELSE At("bad", <<>>, <<>>, <<>>)
    <2> DEFINE t == SubSeq(src, 1, i)
               q == <<"quote">>
    <2>1. dst \in Seq(AllBytes) /\ "quote" \in AllBytes /\ q \in Seq(AllBytes) /\ Field' = dst \o q
        BY ClosedField
    <2>2. Tail(dst \o q) = Tail(dst) \o q /\ Tail(dst) \in Seq(AllBytes)
        BY <1>2, <2>1
    <2>3. Read("json", JsonStart, Tail(dst)) = At("in", t, <<>>, <<>>)
        BY <1>2, <1>6 DEF JsonFront
    <2> HIDE DEF t
    <2>4. Read("json", At("in", t, <<>>, <<>>), q) = At("end", t, <<>>, <<>>)
        <3>1. At("in", t, <<>>, <<>>) \in States
            BY <2>2, <2>3, StartsAreStates, ReadTypes
        <3>2. Read("json", At("in", t, <<>>, <<>>), <<"quote">>) = Reader("json", At("in", t, <<>>, <<>>), "quote")
            BY <2>1, <3>1, ReadShort, Zenon
        <3>3. Reader("json", At("in", t, <<>>, <<>>), "quote") = Go(At("in", t, <<>>, <<>>), "end")
            BY AtParts, JsonMoves
        <3>4. Go(At("in", t, <<>>, <<>>), "end") = At("end", t, <<>>, <<>>)
            BY GoAt
        <3> QED
            BY <3>2, <3>3, <3>4
    <2> HIDE DEF q
    <2> DEFINE rest == Tail(dst)
    <2> HIDE DEF rest
    <2>7. Read("json", JsonStart, rest \o q) = Read("json", Read("json", JsonStart, rest), q)
        BY <2>1, <2>2, StartsAreStates, ReadConcat DEF rest
    <2>5. Read("json", JsonStart, Tail(dst) \o q) = At("end", t, <<>>, <<>>)
        BY <2>3, <2>4, <2>7 DEF rest
    <2>6. JsonRead' = IF Decodes(Tail(Field')) THEN Read("json", JsonStart, Tail(Field'))
                                               ELSE At("bad", <<>>, <<>>, <<>>)
        BY DEF JsonRead, JsonStart
    <2>8. t \in Seq(AllBytes) /\ SameEnds(rest, t)
        BY <1>2, <1>4, <1>6 DEF Characters, t, rest, Texts
    <2>9. Decodes(t) <=> Joined(t) /\ ~Unended(t)
        BY <2>8, DecodesParts
    <2>10. Decodes(rest \o q) <=> Joined(rest) /\ ~Unended(rest)
        <3>1. rest \in Seq(AllBytes) /\ rest \o q \in Seq(AllBytes)
            BY <2>1, <2>2 DEF rest
        <3>2. /\ Joined(rest \o <<"quote">>) <=> Joined(rest) /\ ~Unended(rest)
              /\ ~Unended(rest \o <<"quote">>)
            BY <2>1, <3>1, JoinedPart
        <3>3. Decodes(rest \o q) <=> Joined(rest \o q) /\ ~Unended(rest \o q)
            BY <3>1, DecodesParts
        <3> QED
            BY <3>2, <3>3 DEF q
    <2>11. Decodes(Tail(Field')) <=> Decodes(t)
        BY <2>1, <2>2, <2>8, <2>9, <2>10 DEF SameEnds, rest
    <2>12. Tail(Field') = Tail(dst) \o q
        BY <2>1, <2>2
    <2> QED
        BY <2>5, <2>6, <2>11, <2>12, Zenon DEF t
<1>7. CsvReadBack'
    <2>1. SubSeq(Blanked(src), 1, i)' = SubSeq(Blanked(src), 1, i)
        BY <1>1 DEF Blanked
    <2> QED
        BY <1>1, <1>5, <2>1, Zenon DEF CsvReadBack
<1>8. JsonReadBack'
    <2>1. SubSeq(src, 1, i)' = SubSeq(src, 1, i)
        BY <1>1
    <2> DEFINE t == SubSeq(src, 1, i)
               end == At("end", t, <<>>, <<>>)
               bad == At("bad", <<>>, <<>>, <<>>)
    <2> HIDE DEF t
    <2>2. ASSUME format = "json"
          PROVE  IF Decodes(t) THEN JsonRead'.at = "end" /\ JsonRead'.text = t ELSE JsonRead'.at = "bad"
        <3>1. end.at = "end" /\ end.text = t /\ bad.at = "bad"
            BY AtParts
        <3>2. JsonRead' = IF Decodes(t) THEN end ELSE bad
            BY <1>6, <2>2 DEF t
        <3> HIDE DEF end, bad
        <3> QED
            BY <3>1, <3>2, Zenon
    <2>3. Decodes(t)' <=> Decodes(t)
        BY <1>1 DEF t
    <2> QED
        BY <1>1, <2>1, <2>2, <2>3, Zenon DEF JsonReadBack, t
<1> QED
    BY <1>1, <1>7, <1>8, CloseKeeps DEF Reads

\* Each turn of a loop, and the end of it, keeps what the readers make of the text.
LEMMA ReadsNext == TypeOK /\ Reads /\ [Next]_vars => Reads'
<1> SUFFICES ASSUME TypeOK, Reads, [Next]_vars PROVE Reads'
    OBVIOUS
<1>1. CASE csv_escape_quoted
    BY <1>1, CsvCopyReads
<1>2. CASE json_escape_quoted
    BY <1>2, JsonCopyReads
<1>3. CASE Close
    BY <1>3, CloseReads
<1>4. CASE UNCHANGED vars
    BY <1>4 DEF vars, Reads, CsvFront, JsonFront, Measured, Characters, CsvReadBack, JsonReadBack, KeptWhole,
                Rows, CsvRow, JsonRead, Field, Escaped
<1> QED
    BY <1>1, <1>2, <1>3, <1>4 DEF Next

\* Both loops go through the field in order, never past its end, and write only
\* bytes of their format.
THEOREM FieldTypes == Spec => []TypeOK
<1>1. Inductive => TypeOK
    BY DEF Inductive
<1> QED
    BY EscapeInit, EscapeNext, <1>1, PTL DEF Spec

\* What the readers make of the text holds in every run.
LEMMA FieldsRead == Spec => []Reads
BY FieldTypes, ReadsInit, ReadsNext, PTL DEF Spec

\* Whatever a guest types, of any length, and however small the buffer, the line of
\* auth_client_auth_nolock is one row of three columns, the second the front of the
\* field with its line ends blanked.
THEOREM RowReadsBack == Spec => []CsvReadBack
<1>1. Reads => CsvReadBack
    BY DEF Reads
<1> QED
    BY FieldsRead, <1>1, PTL

\* For a field of any length and a buffer of any size, the JSON string decodes exactly
\* if the copied front of the field does, and then it ends where the escaped field
\* ends and means that front.
THEOREM StringReadsBack == Spec => []JsonReadBack
<1>1. Reads => JsonReadBack
    BY DEF Reads
<1> QED
    BY FieldsRead, <1>1, PTL

\* A field is cut only when its escaped form does not leave eight bytes of the buffer.
THEOREM FittingFieldsWhole == Spec => []KeptWhole
<1>1. Reads => KeptWhole
    BY DEF Reads
<1> QED
    BY FieldsRead, <1>1, PTL
=============================================================================
