------------------------ MODULE StreamReadersProofs ------------------------
(***************************************************************************)
(* What the frame readers return, for every size of their buffers and every*)
(* camera: the native reader, then both.                                   *)
(*                                                                         *)
(* 1. The native reader whatever the camera sends: NativeReading.          *)
(* 2. Where the images of a stream are (Pictured, Located, Markers), what  *)
(*    the searches find of them (ImageAhead, EndAhead, Window) and what a  *)
(*    header in front of them says (Unread).                               *)
(* 3. One inductive invariant for each kind of camera the reader is made   *)
(*    for: ExactInOrder where lengths are announced, Evenly where they are *)
(*    not and change little, LongEnough where they change.                 *)
(* 4. The theorems.                                                        *)
(***************************************************************************)
EXTENDS DefaultReaderProofs

(* The native reader's operators are those of the default one.             *)
LEMMA Aliases ==
  /\ \A pair, from, limit :
       Native!Default!SearchUpTo(pair, from, limit) =
         Default!SearchUpTo(pair, from, limit)
  /\ \A s : Native!Default!FlattenSeq(s) = Default!FlattenSeq(s)
  /\ \A p : Native!Default!Cells(p) = Default!Cells(p)
  /\ \A s : Native!Default!ParseContentLength(s) = Default!ParseContentLength(s)
  /\ Native!Default!SOI_MARKER = <<"FF", "D8">>
  /\ Native!Default!EOF_MARKER = <<"FF", "D9">>
<1>1. \A s, c : Native!Default!SeqIndex(s, c) = Default!SeqIndex(s, c)
  BY DEF Native!Default!SeqIndex, Default!SeqIndex
<1>2. /\ \A s : Native!Default!Last(s) = Default!Last(s)
      /\ \A s : Native!Default!Min(s) = Default!Min(s)
      /\ \A s : Native!Default!Max(s) = Default!Max(s)
  BY DEF Native!Default!Last, Default!Last, Native!Default!Min, Default!Min,
         Native!Default!Max, Default!Max
<1>3. \A pair, from, limit :
       Native!Default!SearchUpTo(pair, from, limit) =
         Default!SearchUpTo(pair, from, limit)
  <2> SUFFICES ASSUME NEW pair, NEW from, NEW limit
               PROVE  Native!Default!SearchUpTo(pair, from, limit) =
                        Default!SearchUpTo(pair, from, limit)
    OBVIOUS
  <2> DEFINE cells == SubSeq(data, from + 1, Len(data))
             native == Native!Default!SeqIndex(pair, cells)
             default == Default!SeqIndex(pair, cells)
             S == {i \in 1..Len(cells) :
                     /\ i <= limit
                     /\ native[i - 1] = Len(pair) - 1
                     /\ cells[i] = Native!Default!Last(pair)}
             T == {i \in 1..Len(cells) :
                     /\ i <= limit
                     /\ default[i - 1] = Len(pair) - 1
                     /\ cells[i] = Default!Last(pair)}
  <2>1. Native!Default!SearchUpTo(pair, from, limit) =
          CASE S # {} -> [result |-> "found", read |-> Native!Default!Min(S)]
            [] S = {} /\ Len(cells) < limit
                 -> [result |-> "EOFException", read |-> Len(cells)]
            [] OTHER -> [result |-> "-1", read |-> limit]
    BY DEF Native!Default!SearchUpTo
  <2>2. Default!SearchUpTo(pair, from, limit) =
          CASE T # {} -> [result |-> "found", read |-> Default!Min(T)]
            [] T = {} /\ Len(cells) < limit
                 -> [result |-> "EOFException", read |-> Len(cells)]
            [] OTHER -> [result |-> "-1", read |-> limit]
    BY DEF Default!SearchUpTo
  <2>3. native = default
    BY <1>1
  <2>4. Native!Default!Last(pair) = Default!Last(pair)
    BY <1>2
  <2>5. S = T
    <3> HIDE DEF native, default, cells
    <3> QED
      BY <2>3, <2>4
  <2>6. Native!Default!Min(S) = Default!Min(T)
    <3> HIDE DEF S, T
    <3> QED
      BY <1>2, <2>5
  <2> HIDE DEF S, T, cells
  <2> QED
    BY <2>1, <2>2, <2>5, <2>6
<1>4. \A s : Native!Default!FlattenSeq(s) = Default!FlattenSeq(s)
  BY DEF Native!Default!FlattenSeq, Default!FlattenSeq
<1>5. \A p : Native!Default!Cells(p) = Default!Cells(p)
  BY DEF Native!Default!Cells, Default!Cells
<1>6. \A s : Native!Default!ParseContentLength(s) = Default!ParseContentLength(s)
  BY <1>2 DEF Native!Default!ParseContentLength, Default!ParseContentLength,
              Native!Default!Announcements, Default!Announcements
<1> QED
  BY <1>3, <1>4, <1>5, <1>6 DEF Native!Default!SOI_MARKER, Native!Default!EOF_MARKER

(* The smaller and the larger of two numbers.                              *)
LEMMA MinMax ==
  ASSUME NEW a \in Int, NEW b \in Int
  PROVE  /\ Native!Min({a, b}) = IF a <= b THEN a ELSE b
         /\ Native!Max({a, b}) = IF a >= b THEN a ELSE b
<1>1. Native!Min({a, b}) = CHOOSE x \in {a, b} : \A y \in {a, b} : x <= y
  BY DEF Native!Min
<1>2. Native!Max({a, b}) = CHOOSE x \in {a, b} : \A y \in {a, b} : x >= y
  BY DEF Native!Max
<1>3. /\ \E x \in {a, b} : \A y \in {a, b} : x <= y
      /\ \E x \in {a, b} : \A y \in {a, b} : x >= y
  OBVIOUS
<1>4. /\ Native!Min({a, b}) \in {a, b} /\ \A y \in {a, b} : Native!Min({a, b}) <= y
      /\ Native!Max({a, b}) \in {a, b} /\ \A y \in {a, b} : Native!Max({a, b}) >= y
  BY <1>1, <1>2, <1>3
<1> QED
  BY <1>4

(* The native reader, whatever the camera sends.                           *)
NativeReading ==
  /\ Streamed
  /\ Native!TypeOK
  /\ frames \in Seq(Frame)
  /\ \A i \in 1..Len(frames) : StartsAt(frames[i].first - 1)
  /\ step # "idle" => StartsAt(mark + headerLen)
  /\ step \in {"header", "anywhere"} => pos = mark
  /\ step = "nearby" => pos = mark + headerLen

(* The types, for the steps of the native reader.                          *)
LEMMA NativeTypes ==
  ASSUME NativeReading
  PROVE  /\ NativeMaxLength \in Nat /\ Len(data) \in Nat /\ Len(parts) \in Nat
         /\ data \in Seq(Cell)
         /\ pos \in 0..Len(data) /\ pos \in Nat
         /\ mark \in 0..pos /\ mark \in Nat
         /\ headerLen \in 0..NativeMaxLength /\ headerLen \in Nat
         /\ mContentLength \in Int
         /\ frames \in Seq(Frame) /\ Len(frames) \in Nat
<1>1. NativeMaxLength \in Nat
  BY Assumed
<1>2. data \in Seq(Cell)
  BY Layout DEF NativeReading, Streamed
<1>3. pos \in Nat /\ mark \in Nat /\ headerLen \in Nat
  BY <1>1, <1>2 DEF NativeReading, Native!TypeOK
<1> QED
  BY <1>1, <1>2, <1>3 DEF NativeReading, Native!TypeOK, Streamed

(* The step to the start marker (MjpegInputStreamNative.java:182-198).     *)
LEMMA NativeFindStart ==
  ASSUME NativeReading, Native!FindStart
  PROVE  NativeReading'
<1> DEFINE ff == "FF"
           d8 == "D8"
           soi == Default!SearchUpTo(<<ff, d8>>, pos, NativeMaxLength)
<1>1. /\ step = "idle" /\ mark' = pos /\ parts' = parts /\ data' = data
      /\ frames' = frames /\ mContentLength' = mContentLength
      /\ \/ /\ soi.result = "found" /\ headerLen' = soi.read - 2 /\ step' = "header"
            /\ pos' = pos /\ outcome' = outcome
         \/ /\ soi.result # "found" /\ step' = "idle" /\ outcome' \in {"-1", "crash"}
            /\ pos' \in {pos, mark} /\ pos' = pos /\ headerLen' = headerLen
  BY Aliases DEF Native!FindStart, Native!Fail, Native!FailKnowing, Native!Default!Fail,
                 Native!Default!FailKnowing,
         Native!Default!Search, Native!Default!Start
<1>2. /\ NativeMaxLength \in Nat /\ pos \in 0..Len(data) /\ Len(data) \in Nat
      /\ data \in Seq(Cell) /\ ff # d8
  BY NativeTypes
<1> HIDE DEF ff, d8, soi
<1>3. /\ soi.read \in 0..NativeMaxLength
      /\ pos + soi.read <= Len(data)
      /\ soi.result = "found" => /\ soi.read >= 2
                                 /\ data[pos + soi.read - 1] = ff
                                 /\ data[pos + soi.read] = d8
  BY <1>2, SearchResult DEF soi
<1>4. soi.result = "found" => soi.read >= 2 /\ StartsAt(pos + (soi.read - 2))
  <2> DEFINE q == soi.read
  <2>1. q \in Nat
    BY <1>2, <1>3
  <2> HIDE DEF q
  <2>2. /\ pos + (q - 2) + 1 = pos + q - 1
        /\ pos + (q - 2) + 2 = pos + q
    BY <1>2, <2>1
  <2> QED
    BY <1>3, <2>2 DEF StartsAt, q, ff, d8
<1>5. pos' \in 0..Len(data) /\ mark' \in 0..pos' /\ headerLen' \in 0..NativeMaxLength
  <2>1. headerLen \in 0..NativeMaxLength
    BY NativeTypes
  <2> QED
    BY <1>1, <1>2, <1>3, <1>4, <2>1
<1>6. Native!TypeOK'
  BY <1>1, <1>5 DEF NativeReading, Native!TypeOK
<1>7. Streamed' /\ \A i : StartsAt(i)' <=> StartsAt(i)
  BY <1>1, Same DEF NativeReading
<1>8. /\ frames' \in Seq(Frame)
      /\ \A i \in 1..Len(frames') : StartsAt(frames'[i].first - 1)
  BY <1>1 DEF NativeReading
<1>9. /\ step' # "idle" => StartsAt(mark' + headerLen')
      /\ step' = "header" => pos' = mark'
      /\ step' \in {"idle", "header"}
  BY <1>1, <1>4
<1> QED
  BY <1>1, <1>6, <1>7, <1>8, <1>9 DEF NativeReading

(* The step that parses the header (MjpegInputStreamNative.java:198-219).  *)
LEMMA NativeReadHeader ==
  ASSUME NativeReading, Native!ReadHeader
  PROVE  NativeReading'
<1> DEFINE header == SubSeq(data, mark + 1, mark + headerLen)
           length == Default!ParseContentLength(header)
<1>1. /\ step = "header" /\ mark' = mark /\ headerLen' = headerLen
      /\ parts' = parts /\ data' = data /\ frames' = frames /\ outcome' = outcome
      /\ pos' = mark + headerLen
      /\ \/ step' = "nearby" /\ mContentLength' = mContentLength
         \/ step' = "frame" /\ mContentLength' = length /\ length # NotANumber
  BY Aliases DEF Native!ReadHeader
<1>2. /\ Len(data) \in Nat /\ mark \in Nat /\ headerLen \in Nat /\ data \in Seq(Cell)
      /\ mark + headerLen <= Len(data) /\ mContentLength \in Int
  <2>1. /\ Len(data) \in Nat /\ mark \in Nat /\ headerLen \in Nat /\ data \in Seq(Cell)
        /\ mContentLength \in Int
    BY NativeTypes
  <2>2. mark + headerLen + 2 <= Len(data)
    BY <1>1 DEF NativeReading, StartsAt
  <2> QED
    BY <2>1, <2>2
<1>3. length \in Int \cup {NotANumber}
  <2>1. header \in Seq(Cell)
    BY <1>2, Slice
  <2> HIDE DEF header
  <2> QED
    BY <2>1, Assumed
<1> HIDE DEF length
<1>4. pos' \in 0..Len(data) /\ mark' \in 0..pos' /\ mContentLength' \in Int
  BY <1>1, <1>2, <1>3
<1>5. Native!TypeOK'
  BY <1>1, <1>4 DEF NativeReading, Native!TypeOK
<1>6. Streamed' /\ \A i : StartsAt(i)' <=> StartsAt(i)
  BY <1>1, Same DEF NativeReading
<1>7. /\ frames' \in Seq(Frame)
      /\ \A i \in 1..Len(frames') : StartsAt(frames'[i].first - 1)
      /\ StartsAt(mark' + headerLen')
  BY <1>1 DEF NativeReading
<1> QED
  BY <1>1, <1>5, <1>6, <1>7 DEF NativeReading

(* The search around the last length never leaves the stream, in spite of  *)
(* the hidden field (MjpegInputStreamNative.java:79-102).                  *)
LEMMA NativeFindEndNearby ==
  ASSUME NativeReading, Native!FindEndNearby
  PROVE  NativeReading'
<1> DEFINE ff == "FF"
           d9 == "D9"
           from == pos + Native!Skipped
           limit == Native!Max({Native!endPos - Native!startPos, 0})
           eof == Default!SearchUpTo(<<ff, d9>>, from, limit)
<1>1. /\ step = "nearby" /\ mark' = mark /\ headerLen' = headerLen
      /\ parts' = parts /\ data' = data /\ frames' = frames
      /\ \/ /\ mContentLength' = -1 + Native!startPos + eof.read /\ step' = "frame"
            /\ pos' = pos /\ outcome' = outcome
         \/ /\ mContentLength' = mContentLength /\ step' = "anywhere"
            /\ pos' = mark /\ outcome' = outcome
         \/ /\ mContentLength' \in {mContentLength, -1 + Native!startPos + eof.read}
            /\ step' = "idle"
            /\ pos' = from + eof.read /\ outcome' = "IOException"
  BY Aliases DEF Native!FindEndNearby, Native!EndNearby, Native!Fail, Native!FailKnowing, Native!Default!Fail,
                 Native!Default!FailKnowing,
                 Native!LengthNearby, Native!HeaderLenField
<1>2. /\ Len(data) \in Nat /\ mark \in 0..pos /\ pos \in 0..Len(data)
      /\ mark \in Nat /\ pos \in Nat /\ data \in Seq(Cell) /\ ff # d9
      /\ mContentLength \in Int
  BY NativeTypes
<1>3. /\ Native!startPos \in Nat
      /\ Native!endPos \in Int
  BY <1>2 DEF Native!startPos, Native!endPos
<1>4. limit \in Nat
  <2> DEFINE d == Native!endPos - Native!startPos
  <2>1. d \in Int /\ 0 \in Int
    BY <1>3
  <2> HIDE DEF d
  <2>2. Native!Max({d, 0}) = IF d >= 0 THEN d ELSE 0
    BY <2>1, MinMax, Zenon
  <2>3. Native!Max({d, 0}) \in Nat
    BY <2>1, <2>2
  <2> QED
    BY <2>3 DEF d
<1>5. Native!Skipped \in 0..(Len(data) - pos)
  <2> DEFINE s == Native!HeaderLenField + Native!startPos
             rest == Len(data) - pos
             skip == Native!Max({s, 0})
  <2>1. s \in Int /\ rest \in Nat /\ 0 \in Int /\ rest \in Int
    BY <1>2, <1>3 DEF Native!HeaderLenField
  <2>2. Native!Skipped = Native!Min({skip, rest})
    BY DEF Native!Skipped
  <2> HIDE DEF s, rest
  <2>3. skip \in Nat /\ skip \in Int
    <3>1. skip = IF s >= 0 THEN s ELSE 0
      BY <2>1, MinMax, Zenon
    <3> HIDE DEF skip
    <3> QED
      BY <2>1, <3>1
  <2> HIDE DEF skip
  <2>4. Native!Skipped \in 0..rest
    <3>1. Native!Min({skip, rest}) = IF skip <= rest THEN skip ELSE rest
      BY <2>1, <2>3, MinMax, Zenon
    <3> QED
      BY <2>1, <2>2, <2>3, <3>1
  <2> QED
    BY <2>4 DEF rest
<1> HIDE DEF limit, ff, d9
<1>6. from \in 0..Len(data) /\ from >= pos
  <2> DEFINE k == Native!Skipped
  <2>1. k \in 0..(Len(data) - pos)
    BY <1>5
  <2> HIDE DEF k
  <2>2. pos + k \in 0..Len(data) /\ pos + k >= pos
    BY <1>2, <2>1
  <2> QED
    BY <2>2 DEF k
<1> HIDE DEF from
<1>7. eof.read \in Nat /\ from + eof.read <= Len(data)
  <2>1. /\ eof.read \in 0..limit
        /\ from + eof.read <= Len(data)
    <3>1. data \in Seq(Cell) /\ from \in 0..Len(data) /\ ff # d9
      BY <1>2, <1>6
    <3> QED
      BY <1>4, <3>1, SearchResult, ZenonT(60)
  <2> QED
    BY <1>4, <2>1
<1> HIDE DEF eof
<1>8. pos' \in 0..Len(data) /\ mark' \in 0..pos' /\ mContentLength' \in Int
  BY <1>1, <1>2, <1>3, <1>6, <1>7
<1>9. Native!TypeOK'
  BY <1>1, <1>8 DEF NativeReading, Native!TypeOK
<1>10. Streamed' /\ \A i : StartsAt(i)' <=> StartsAt(i)
  BY <1>1, Same DEF NativeReading
<1>11. /\ frames' \in Seq(Frame)
       /\ \A i \in 1..Len(frames') : StartsAt(frames'[i].first - 1)
       /\ StartsAt(mark' + headerLen')
       /\ step' = "anywhere" => pos' = mark'
       /\ step' \in {"frame", "anywhere", "idle"}
  BY <1>1 DEF NativeReading
<1> QED
  BY <1>9, <1>10, <1>11 DEF NativeReading

(* The search from the mark (MjpegInputStreamNative.java:206-210,          *)
(* 215-219).                                                               *)
LEMMA NativeFindEndFromMark ==
  ASSUME NativeReading, Native!FindEndFromMark
  PROVE  NativeReading'
<1> DEFINE ff == "FF"
           d9 == "D9"
           eof == Default!SearchUpTo(<<ff, d9>>, pos, NativeMaxLength)
<1>1. /\ step = "anywhere" /\ mark' = mark /\ headerLen' = headerLen
      /\ parts' = parts /\ data' = data /\ frames' = frames
      /\ \/ /\ mContentLength' = eof.read /\ step' = "frame"
            /\ pos' = pos /\ outcome' = outcome
         \/ /\ mContentLength' \in {mContentLength, -1} /\ step' = "idle"
            /\ pos' \in {pos + eof.read, mark} /\ outcome' \in {"IOException", "crash"}
  BY Aliases DEF Native!FindEndFromMark, Native!Fail, Native!FailKnowing, Native!Default!Fail,
                 Native!Default!FailKnowing,
                 Native!Default!Search
<1>2. /\ Len(data) \in Nat /\ mark \in 0..pos /\ pos \in 0..Len(data)
      /\ mark \in Nat /\ pos \in Nat /\ data \in Seq(Cell) /\ ff # d9
      /\ NativeMaxLength \in Nat
  BY NativeTypes
<1> HIDE DEF ff, d9
<1>3. eof.read \in Nat /\ pos + eof.read <= Len(data)
  BY <1>2, SearchResult
<1> HIDE DEF eof
<1>4. pos' \in 0..Len(data) /\ mark' \in 0..pos'
  BY <1>1, <1>2, <1>3
<1>5. Native!TypeOK'
  BY <1>1, <1>3, <1>4 DEF NativeReading, Native!TypeOK
<1>6. Streamed' /\ \A i : StartsAt(i)' <=> StartsAt(i)
  BY <1>1, Same DEF NativeReading
<1>7. /\ frames' \in Seq(Frame)
      /\ \A i \in 1..Len(frames') : StartsAt(frames'[i].first - 1)
      /\ StartsAt(mark' + headerLen')
      /\ step' \in {"frame", "idle"}
  BY <1>1 DEF NativeReading
<1> QED
  BY <1>5, <1>6, <1>7 DEF NativeReading

(* The step that reads the frame (MjpegInputStreamNative.java:225-239).    *)
LEMMA NativeReadFrame ==
  ASSUME NativeReading, Native!ReadFrame
  PROVE  NativeReading'
<1> DEFINE n == Len(frames)
           start == mark + headerLen
           end == start + mContentLength
           frame == [first |-> start + 1, last |-> end]
<1>1. /\ step = "frame" /\ mark' = mark /\ headerLen' = headerLen /\ step' = "idle"
      /\ parts' = parts /\ data' = data /\ mContentLength' = mContentLength
      /\ \/ /\ mContentLength >= 0 /\ end <= Len(data)
            /\ frames' = Append(frames, frame)
            /\ pos' = end /\ outcome' = "frame"
         \/ /\ mContentLength >= 0 /\ end > Len(data)
            /\ frames' = frames /\ pos' = Len(data) /\ outcome' = "IOException"
         \/ /\ mContentLength < 0
            /\ frames' = frames /\ pos' = mark /\ outcome' = "crash"
  BY DEF Native!ReadFrame, Native!Default!ReadFrame, Native!Default!Fail,
         Native!Default!FailKnowing
<1>2. /\ Len(data) \in Nat /\ n \in Nat
      /\ mark \in Nat /\ headerLen \in Nat /\ mContentLength \in Int
      /\ mark \in 0..pos /\ pos \in 0..Len(data)
      /\ frames \in Seq(Frame)
  BY NativeTypes
<1>3. start \in Nat /\ StartsAt(start)
  BY <1>1, <1>2 DEF NativeReading
<1> HIDE DEF n
<1>4. pos' \in 0..Len(data) /\ mark' \in 0..pos'
  <2>1. /\ mContentLength >= 0 => start <= end /\ end \in Nat
        /\ mark <= start
    BY <1>2
  <2> HIDE DEF start, end
  <2> QED
    BY <1>1, <1>2, <1>3, <2>1
<1>5. Native!TypeOK'
  BY <1>1, <1>4 DEF NativeReading, Native!TypeOK
<1>6. Streamed' /\ \A i : StartsAt(i)' <=> StartsAt(i)
  BY <1>1, Same DEF NativeReading
<1>7. \A i \in 1..n : StartsAt(frames[i].first - 1)
  BY DEF NativeReading, n
<1>8. /\ frames' \in Seq(Frame)
      /\ \A i \in 1..Len(frames') : StartsAt(frames'[i].first - 1)
  <2>1. CASE /\ mContentLength >= 0 /\ frames' = Append(frames, frame)
    <3>1. frame \in Frame /\ frame.first - 1 = start
      <4>1. start + 1 \in Nat \ {0} /\ end \in Nat /\ (start + 1) - 1 = start
        BY <1>2, <1>3, <2>1
      <4> HIDE DEF start, end
      <4> QED
        BY <4>1 DEF Frame
    <3> HIDE DEF frame
    <3>2. /\ frames' \in Seq(Frame) /\ Len(frames') = n + 1
          /\ \A i \in 1..n : frames'[i] = frames[i]
          /\ frames'[n + 1] = frame
      BY <1>2, <2>1, <3>1 DEF n
    <3>3. \A i \in 1..(n + 1) : i \in 1..n \/ i = n + 1
      BY <1>2
    <3> HIDE DEF start, end
    <3> QED
      BY <1>3, <1>7, <3>1, <3>2, <3>3
  <2>2. CASE frames' = frames
    BY <1>2, <1>7, <2>2 DEF n
  <2> QED
    BY <1>1, <2>1, <2>2
<1> QED
  BY <1>1, <1>5, <1>6, <1>8 DEF NativeReading

(* The invariant holds when the connection is opened.                      *)
LEMMA NativeInit ==
  ASSUME Native!Init
  PROVE  NativeReading
<1>1. /\ parts \in NativeCameras
      /\ data = Native!Default!FlattenSeq(
                  [i \in DOMAIN parts |-> Native!Default!Cells(parts[i])])
      /\ pos = 0 /\ mark = 0 /\ step = "idle" /\ headerLen = 0 /\ mContentLength = -1
      /\ frames = <<>> /\ outcome = "none"
  BY DEF Native!Init, Native!Default!Init
<1>2. data = Default!FlattenSeq(Bytes)
  <2>1. [i \in DOMAIN parts |-> Native!Default!Cells(parts[i])] = Bytes
    BY Aliases DEF Bytes
  <2> QED
    BY <1>1, <2>1, Aliases
<1>3. Streamed /\ NativeMaxLength \in Nat
  BY <1>1, <1>2, Assumed DEF Streamed
<1>4. Len(data) \in Nat
  BY <1>3, Layout DEF Streamed
<1>5. Native!TypeOK
  BY <1>1, <1>3, <1>4 DEF Native!TypeOK
<1> QED
  BY <1>1, <1>3, <1>5 DEF NativeReading

(* Every step of the native reader preserves it.                           *)
LEMMA NativeNext ==
  ASSUME NativeReading, Native!Next
  PROVE  NativeReading'
BY NativeFindStart, NativeReadHeader, NativeFindEndNearby,
   NativeFindEndFromMark, NativeReadFrame
   DEF Native!Next

-----------------------------------------------------------------------------
(* Where the images and the lines of a stream are, for the native reader.  *)
(* The native reader's words for the parts are those of the default one.   *)
LEMMA PartAliases ==
  /\ \A i : Native!Default!Body(i) = Default!Body(i)
  /\ \A p : Native!Default!IsImage(p) = Default!IsImage(p)
  /\ \A p : Native!Default!HasNoFill(p) = Default!HasNoFill(p)
  /\ \A p : Native!Default!Announces(p) = Default!Announces(p)
  /\ \A s : Native!Default!Announcements(s) = Default!Announcements(s)
<1>1. \A i : Native!Default!Body(i) = Default!Body(i)
  BY DEF Native!Default!Body, Default!Body, Native!Default!Cells, Default!Cells
<1>2. \A p : Native!Default!IsImage(p) = Default!IsImage(p)
  BY DEF Native!Default!IsImage, Default!IsImage, Native!Default!Occurrences,
         Default!Occurrences, Native!Default!SOI_MARKER, Default!SOI_MARKER,
         Native!Default!EOF_MARKER, Default!EOF_MARKER
<1>3. \A p : Native!Default!HasNoFill(p) = Default!HasNoFill(p)
  BY DEF Native!Default!HasNoFill, Default!HasNoFill, Native!Default!Occurrences,
         Default!Occurrences
<1>4. \A p : Native!Default!Announces(p) = Default!Announces(p)
  BY Aliases DEF Native!Default!Announces, Default!Announces
<1>5. \A s : Native!Default!Announcements(s) = Default!Announcements(s)
  BY DEF Native!Default!Announcements, Default!Announcements
<1> QED
  BY <1>1, <1>2, <1>3, <1>4, <1>5

(* An image in the stream: its markers, and where there are none.          *)
LEMMA Pictured ==
  ASSUME Streamed, NEW k \in 1..Len(parts), Default!IsImage(parts[k])
  PROVE  LET s == Start(k)
             b == Len(parts[k].body)
             h == Len(parts[k].head)
         IN  /\ s \in Nat /\ b \in Nat /\ h \in Nat /\ b >= 4
             /\ s >= h /\ End(k - 1) = s - h /\ s + b = End(k) /\ s + b <= Len(data)
             /\ data[s + 1] = "FF" /\ data[s + 2] = "D8"
             /\ data[s + (b - 1)] = "FF" /\ data[s + b] = "D9"
             /\ \A j \in 1..(b - 1) : data[s + j] = "FF" =>
                  /\ data[s + (j + 1)] = "D8" => j = 1
                  /\ data[s + (j + 1)] = "D9" => j = b - 1
             /\ \A j \in 1..h : data[(s - h) + j] \notin {"FF", Malformed}
<1> DEFINE p == parts[k]
           s == Start(k)
           b == Len(p.body)
           h == Len(p.head)
           e == End(k - 1)
<1>1. /\ p \in Part /\ h \in Nat /\ b \in Nat /\ e \in Nat
      /\ s = e + h /\ s + b = End(k) /\ End(k) <= Len(data)
      /\ \A j \in 1..h : data[e + j] = p.head[j]
      /\ \A j \in 1..b : data[s + j] = p.body[j]
  BY PartAt
<1>2. /\ Default!IsImage(p)
  OBVIOUS
<1> HIDE DEF s, e, p
<1>3. /\ b >= 2
      /\ p.body[1] = "FF" /\ p.body[2] = "D8"
      /\ p.body[b - 1] = "FF" /\ p.body[b] = "D9"
      /\ \A j \in 1..(b - 1) : p.body[j] = "FF" =>
           /\ p.body[j + 1] = "D8" => j = 1
           /\ p.body[j + 1] = "D9" => j = b - 1
      /\ \A j \in 1..h : p.head[j] \notin {"FF", Malformed}
  BY <1>1, <1>2, ImageFacts
<1> HIDE DEF b, h
<1>4. b >= 4
  <2>1. b # 2 /\ b # 3
    BY <1>3
  <2> QED
    BY <1>1, <1>3, <2>1
<1>5. e = s - h /\ s >= h /\ s \in Nat
  BY <1>1
<1>6. 1 \in 1..b /\ 2 \in 1..b /\ b - 1 \in 1..b /\ b \in 1..b
  BY <1>1, <1>4
<1>7. /\ data[s + 1] = "FF" /\ data[s + 2] = "D8"
      /\ data[s + (b - 1)] = "FF" /\ data[s + b] = "D9"
  BY <1>1, <1>3, <1>6
<1>8. ASSUME NEW j \in 1..(b - 1), data[s + j] = "FF"
      PROVE  /\ data[s + (j + 1)] = "D8" => j = 1
             /\ data[s + (j + 1)] = "D9" => j = b - 1
  <2>1. j \in 1..b /\ j + 1 \in 1..b
    BY <1>1
  <2>2. data[s + j] = p.body[j] /\ data[s + (j + 1)] = p.body[j + 1]
    BY <1>1, <2>1
  <2> QED
    BY <1>3, <1>8, <2>2
<1>9. \A j \in 1..h : data[(s - h) + j] \notin {"FF", Malformed}
  BY <1>1, <1>3, <1>5
<1> QED
  BY <1>1, <1>4, <1>5, <1>7, <1>8, <1>9 DEF s, b, h, p, e

(* Every cell of the stream is in some part.                               *)
LEMMA Located ==
  ASSUME Streamed, NEW p \in 1..Len(data)
  PROVE  \E k \in 1..Len(parts) : End(k - 1) < p /\ p <= End(k)
<1> DEFINE n == Len(parts)
           T == {k \in 1..n : p <= End(k)}
<1>1. parts \in Seq(Part) /\ n \in Nat
  BY DEF Streamed
<1>2. Len(data) = End(n) /\ Len(data) \in Nat
  BY Layout DEF Streamed
<1>3. \A k \in 0..n : End(k) \in Nat
  BY <1>1, Bodies
<1>4. n # 0
  BY <1>2 DEF End
<1>5. T \subseteq Nat /\ T # {}
  BY <1>1, <1>2, <1>4
<1>6. PICK k \in T : \A y \in T : k <= y
  <2> HIDE DEF T
  <2> QED
    BY <1>5, Least
<1>7. k \in 1..n /\ p <= End(k)
  OBVIOUS
<1>8. End(k - 1) < p
  <2>1. CASE k = 1
    BY <2>1 DEF End
  <2>2. CASE k # 1
    <3>1. k - 1 \in 1..n /\ k - 1 \in 0..n /\ ~(k <= k - 1)
      BY <1>1, <1>7, <2>2
    <3>2. ~(p <= End(k - 1))
      BY <1>6, <3>1
    <3>3. End(k - 1) \in Nat
      BY <1>3, <3>1
    <3> HIDE DEF T
    <3> QED
      BY <3>2, <3>3
  <2> QED
    BY <2>1, <2>2
<1> QED
  BY <1>7, <1>8

Images == \A k \in 1..Len(parts) : Default!IsImage(parts[k])

(* In a stream of images there are no markers but theirs.                  *)
LEMMA Markers ==
  ASSUME Streamed, Images, NEW p \in Nat \ {0}, p + 1 <= Len(data), data[p] = "FF"
  PROVE  /\ data[p + 1] = "D8" => \E k \in 1..Len(parts) : p = Start(k) + 1
         /\ data[p + 1] = "D9" => \E k \in 1..Len(parts) : p + 1 = End(k)
<1>1. Len(data) \in Nat
  BY Layout DEF Streamed
<1>2. p + 1 \in 1..Len(data)
  BY <1>1
<1>3. PICK k \in 1..Len(parts) : End(k - 1) < p + 1 /\ p + 1 <= End(k)
  BY <1>2, Located
<1> DEFINE s == Start(k)
           b == Len(parts[k].body)
           h == Len(parts[k].head)
<1>4. /\ s \in Nat /\ b \in Nat /\ h \in Nat /\ b >= 4
      /\ s >= h /\ End(k - 1) = s - h /\ s + b = End(k)
      /\ data[s + 1] = "FF" /\ data[s + 2] = "D8"
      /\ \A j \in 1..(b - 1) : data[s + j] = "FF" =>
           /\ data[s + (j + 1)] = "D8" => j = 1
           /\ data[s + (j + 1)] = "D9" => j = b - 1
      /\ \A j \in 1..h : data[(s - h) + j] \notin {"FF", Malformed}
  BY <1>3, Pictured DEF Images
<1> HIDE DEF s, b, h
<1>5. CASE p = s - h
  (* before the first cell of the part is the last of the one before it *)
  <2>1. k # 1
    BY <1>4, <1>5 DEF End
  <2>2. k - 1 \in 1..Len(parts) /\ k \in Nat
    BY <2>1 DEF Streamed
  <2>3. /\ Start(k - 1) + Len(parts[k - 1].body) = End(k - 1)
        /\ data[Start(k - 1) + Len(parts[k - 1].body)] = "D9"
    BY <2>2, Pictured DEF Images
  <2>4. data[p] = "D9"
    BY <1>4, <1>5, <2>3
  <2> QED
    BY <2>4
<1>6. CASE p > s - h /\ p <= s
  <2>1. p - (s - h) \in 1..h /\ (s - h) + (p - (s - h)) = p
    BY <1>4, <1>6
  <2>2. data[p] \notin {"FF", Malformed}
    BY <1>4, <2>1
  <2> QED
    BY <2>2
<1>7. CASE p > s
  <2> DEFINE j == p - s
  <2>1. j \in 1..(b - 1) /\ s + j = p /\ s + (j + 1) = p + 1
    BY <1>3, <1>4, <1>7
  <2> HIDE DEF j
  <2>2. /\ data[p + 1] = "D8" => j = 1
        /\ data[p + 1] = "D9" => j = b - 1
    BY <1>4, <2>1
  <2>3. /\ j = 1 => p = s + 1
        /\ j = b - 1 => p + 1 = s + b
    BY <1>4, <2>1
  <2> QED
    BY <1>3, <1>4, <2>2, <2>3 DEF s
<1>8. p >= s - h
  BY <1>3, <1>4
<1> QED
  BY <1>4, <1>5, <1>6, <1>7, <1>8

(* From anywhere in a head the image that follows it is the first ahead.   *)
LEMMA ImageAhead ==
  ASSUME Streamed, NEW k \in 1..Len(parts), Default!IsImage(parts[k]),
         NEW m \in 0..Len(parts[k].head)
  PROVE  LET from == Start(k) - m
         IN  from \in 0..Len(data) /\ FirstAhead(from, m, "FF", "D8")
<1> DEFINE s == Start(k)
           b == Len(parts[k].body)
           h == Len(parts[k].head)
           from == s - m
<1>1. /\ s \in Nat /\ b \in Nat /\ h \in Nat /\ b >= 4
      /\ s >= h /\ s + b <= Len(data) /\ Len(data) \in Nat
      /\ data[s + 1] = "FF" /\ data[s + 2] = "D8"
      /\ \A j \in 1..h : data[(s - h) + j] \notin {"FF", Malformed}
  BY Pictured, PartAt
<1>2. m \in 0..h
  OBVIOUS
<1> HIDE DEF s, b, h
<1>3. from \in 0..Len(data) /\ from + m = s /\ m \in Nat
  BY <1>1, <1>2
<1>4. ASSUME NEW j \in 1..m PROVE data[from + j] # "FF"
  <2>1. (h - m) + j \in 1..h /\ (s - h) + ((h - m) + j) = from + j
    BY <1>1, <1>2
  <2> HIDE DEF from
  <2>2. data[(s - h) + ((h - m) + j)] # "FF"
    BY <1>1, <2>1
  <2> QED
    BY <2>1, <2>2
<1> HIDE DEF from
<1>5. /\ from + m + 2 <= Len(data)
      /\ from + m + 1 = s + 1 /\ from + m + 2 = s + 2
  BY <1>1, <1>3
<1>6. m > 0 => data[from + m] # "FF"
  BY <1>3, <1>4, SMTT(30)
<1> QED
  BY <1>1, <1>3, <1>4, <1>5, <1>6 DEF FirstAhead, from, s

(* From anywhere between the beginning of a part and the end marker of its *)
(* image that marker is the first ahead, if there are no fill bytes.       *)
LEMMA EndAhead ==
  ASSUME Streamed, NEW k \in 1..Len(parts), Default!IsImage(parts[k]),
         Default!HasNoFill(parts[k]), NEW from \in Nat,
         from >= End(k - 1), from + 2 <= End(k)
  PROVE  from \in 0..Len(data) /\ FirstAhead(from, End(k) - from - 2, "FF", "D9")
<1> DEFINE s == Start(k)
           b == Len(parts[k].body)
           h == Len(parts[k].head)
           e == End(k)
           m == e - from - 2
<1>1. /\ s \in Nat /\ b \in Nat /\ h \in Nat /\ b >= 4
      /\ s >= h /\ e = s + b /\ e <= Len(data) /\ Len(data) \in Nat
      /\ End(k - 1) = s - h
      /\ data[s + 1] = "FF" /\ data[s + 2] = "D8"
      /\ data[s + (b - 1)] = "FF" /\ data[s + b] = "D9"
      /\ \A j \in 1..(b - 1) : data[s + j] = "FF" =>
           /\ data[s + (j + 1)] = "D8" => j = 1
           /\ data[s + (j + 1)] = "D9" => j = b - 1
      /\ \A j \in 1..h : data[(s - h) + j] \notin {"FF", Malformed}
  BY Pictured, PartAt
<1>2. \A j \in 1..(b - 1) : ~(data[s + j] = "FF" /\ data[s + (j + 1)] = "FF")
  <2>1. /\ parts[k] \in Part
        /\ \A j \in 1..b : data[s + j] = parts[k].body[j]
    BY PartAt
  <2>2. \A j \in 1..(b - 1) :
          ~(parts[k].body[j] = "FF" /\ parts[k].body[j + 1] = "FF")
    BY <2>1, NoFill
  <2>3. b \in Nat
    BY <1>1
  <2> HIDE DEF b, s
  <2>4. \A j \in 1..(b - 1) : j \in 1..b /\ j + 1 \in 1..b
    BY <2>3
  <2> QED
    BY <2>1, <2>2, <2>4
<1>3. from >= s - h /\ from + 2 <= e
  BY <1>1
<1> HIDE DEF s, b, h, e
<1>4. from \in 0..Len(data) /\ m \in Nat /\ from + m + 2 = e /\ from + m + 1 = s + (b - 1)
      /\ e = s + b
  BY <1>1, <1>3
<1> HIDE DEF m
<1>5. ASSUME NEW j \in 1..m
      PROVE  ~(data[from + j] = "FF" /\ data[from + j + 1] = "D9")
  <2> DEFINE q == from + j
  <2>1. q > s - h /\ q + 1 < s + b /\ q \in Nat /\ q + 1 = from + j + 1
    <3>1. j \in Nat /\ j >= 1 /\ j <= m /\ from \in Nat /\ s - h \in Int /\ s + b \in Int
      BY <1>1, <1>4
    <3> QED
      BY <1>3, <1>4, <3>1
  <2> HIDE DEF q
  <2>2. CASE q <= s
    <3>1. q - (s - h) \in 1..h /\ (s - h) + (q - (s - h)) = q
      BY <1>1, <2>1, <2>2
    <3>2. data[q] # "FF"
      BY <1>1, <3>1
    <3> QED
      BY <3>2 DEF q
  <2>3. CASE q > s
    <3>1. q - s \in 1..(b - 1) /\ s + (q - s) = q /\ s + ((q - s) + 1) = q + 1
          /\ q - s # b - 1
      BY <1>1, <2>1, <2>3
    <3>2. ~(data[q] = "FF" /\ data[q + 1] = "D9")
      BY <1>1, <3>1
    <3> QED
      BY <2>1, <3>2 DEF q
  <2> QED
    BY <1>1, <2>1, <2>2, <2>3
<1>6. m > 0 => data[from + m] # "FF"
  <2>1. SUFFICES ASSUME m > 0 PROVE data[from + m] # "FF"
    OBVIOUS
  <2> DEFINE q == from + m
  <2>2. q > s - h /\ q = s + (b - 2) /\ q \in Nat
    BY <1>1, <1>3, <1>4, <2>1
  <2>3. b - 2 \in 1..(b - 1) /\ (b - 2) + 1 = b - 1
    BY <1>1
  <2> HIDE DEF q
  <2>4. data[q] # "FF"
    BY <1>1, <1>2, <2>2, <2>3
  <2> QED
    BY <2>4 DEF q
<1>7. FirstAhead(from, m, "FF", "D9")
  BY <1>1, <1>4, <1>5, <1>6 DEF FirstAhead
<1> QED
  BY <1>4, <1>7 DEF m, e

(* A search that gives up has read as far as it may.                       *)
LEMMA SearchGivesUp ==
  ASSUME data \in Seq(Cell), NEW from \in 0..Len(data), NEW limit \in Nat,
         NEW a, NEW b, a # b
  PROVE  LET r == Default!SearchUpTo(<<a, b>>, from, limit)
         IN  r.result = "-1" => r.read = limit
<1> DEFINE r == Default!SearchUpTo(<<a, b>>, from, limit)
<1>1. PICK S :
        LET ends == Ends(S, from, limit, b) IN
          /\ ends # {} => r.result = "found"
          /\ ends = {} /\ Len(data) - from < limit => r.result = "EOFException"
          /\ ends = {} /\ ~(Len(data) - from < limit) =>
               r.result = "-1" /\ r.read = limit
  BY SearchStates
<1> HIDE DEF r
<1>2. r.result = "-1" => r.read = limit
  BY <1>1
<1> QED
  BY <1>2 DEF r

Lineless ==
  \A k \in 1..Len(parts) : Default!Announcements(parts[k].body) = {}

(* In front of an image there is no number, if no part announces one: a    *)
(* header that begins in another body must meet no line there.             *)
LEMMA Unread ==
  ASSUME Streamed, Images,
         \A i \in 1..Len(parts) : ~Default!Announces(parts[i]),
         NEW k \in 1..Len(parts), NEW from \in Nat, from <= Start(k),
         from >= End(k - 1) \/ Lineless
  PROVE  Default!ParseContentLength(SubSeq(data, from + 1, Start(k))) = NotANumber
<1> DEFINE s == Start(k)
           n == s - from
           header == SubSeq(data, from + 1, s)
           D == DOMAIN ContentLength
<1>1. /\ s \in Nat /\ s + 1 <= Len(data) /\ Len(data) \in Nat /\ data \in Seq(Cell)
      /\ data[s + 1] = "FF"
  <2>1. /\ s \in Nat /\ Len(parts[k].body) \in Nat /\ Len(parts[k].body) >= 4
        /\ s + Len(parts[k].body) <= Len(data) /\ data[s + 1] = "FF"
    BY Pictured DEF Images
  <2> HIDE DEF s
  <2>2. data \in Seq(Cell) /\ Len(data) \in Nat
    BY Layout DEF Streamed
  <2> QED
    BY <2>1, <2>2
<1>2. n \in Nat /\ from + n = s
  <2>1. from <= s
    OBVIOUS
  <2> HIDE DEF s
  <2> QED
    BY <1>1, <2>1
<1> HIDE DEF s, n
<1>3. header \in Seq(Cell) /\ Len(header) = n /\ \A j \in 1..n : header[j] = data[from + j]
  BY <1>1, <1>2, Slice
<1> HIDE DEF header, D
<1>4. PICK A : /\ A = {i \in 1..n : header[i] \in D}
               /\ A = {} => Default!ParseContentLength(header) = NotANumber
               /\ A # {} => \E x \in A :
                    /\ \A y \in A : x >= y
                    /\ Default!ParseContentLength(header) = ContentLength[header[x]]
  BY <1>3, Latest DEF D
<1>5. CASE A = {}
  BY <1>4, <1>5 DEF header, s
<1>6. CASE A # {}
  <2>1. PICK x \in A :
          /\ \A y \in A : x >= y
          /\ Default!ParseContentLength(header) = ContentLength[header[x]]
    BY <1>4, <1>6
  <2> DEFINE y == from + x
  <2>2. x \in 1..n /\ header[x] = data[y] /\ data[y] \in D
    BY <1>3, <1>4, <2>1
  <2>3. y \in 1..Len(data) /\ y <= s /\ y > from
    BY <1>1, <1>2, <2>2
  <2> HIDE DEF y
  <2>4. PICK k2 \in 1..Len(parts) : End(k2 - 1) < y /\ y <= Start(k2)
    <3>1. CASE from >= End(k - 1)
      <4>1. End(k - 1) \in Nat
        BY PartAt
      <4>2. End(k - 1) < y
        BY <2>3, <3>1, <4>1
      <4> QED
        BY <2>3, <4>2 DEF s
    <3>2. CASE Lineless
      <4>1. PICK k2 \in 1..Len(parts) : End(k2 - 1) < y /\ y <= End(k2)
        BY <2>3, Located
      <4>2. ASSUME ~(y <= Start(k2)) PROVE FALSE
        <5> DEFINE body == parts[k2].body
                   b == Len(body)
                   t == Start(k2)
                   j == y - t
        <5>1. /\ parts[k2] \in Part /\ b \in Nat /\ t \in Nat /\ End(k2) = t + b
              /\ \A i \in 1..b : data[t + i] = body[i]
          <6>1. Start(k2) \in Nat
            BY Pictured DEF Images
          <6> QED
            BY <6>1, PartAt
        <5> HIDE DEF b, t
        <5>2. j \in 1..b /\ t + j = y
          BY <2>3, <4>1, <4>2, <5>1 DEF t
        <5> HIDE DEF j
        <5>3. body[j] \in D
          BY <2>2, <5>1, <5>2
        <5>4. body \in Seq(Cell)
          BY <5>1 DEF Part
        <5>5. Default!Announcements(body) = {i \in 1..Len(body) : body[i] \in D}
          BY <5>4, Latest DEF D
        <5>6. Default!Announcements(body) = {}
          BY <3>2 DEF Lineless
        <5> QED
          BY <5>2, <5>3, <5>5, <5>6 DEF b
      <4> QED
        BY <4>1, <4>2
    <3> QED
      BY <3>1, <3>2
  <2> DEFINE head == parts[k2].head
             h == Len(head)
             e == End(k2 - 1)
             j == y - e
  <2>5. /\ parts[k2] \in Part /\ h \in Nat /\ e \in Nat /\ Start(k2) = e + h
        /\ \A i \in 1..h : data[e + i] = head[i]
    BY PartAt
  <2>6. \A i \in 1..h : data[e + i] \notin {"FF", Malformed}
    <3>1. e = Start(k2) - h
          /\ \A i \in 1..h : data[(Start(k2) - h) + i] \notin {"FF", Malformed}
      BY Pictured DEF Images
    <3> QED
      BY <3>1
  <2>7. head \in Seq(Cell)
    BY <2>5 DEF Part
  <2> HIDE DEF h, e
  <2>8. j \in 1..h /\ e + j = y
    BY <2>3, <2>4, <2>5 DEF e
  <2> HIDE DEF j
  <2>9. head[j] = data[y] /\ head[j] \in D
    BY <2>2, <2>5, <2>8
  <2>10. PICK B : /\ B = {i \in 1..h : head[i] \in D}
                  /\ B # {} => \E z \in B :
                       /\ \A i \in B : z >= i
                       /\ Default!ParseContentLength(head) = ContentLength[head[z]]
    BY <2>7, Latest DEF D, h
  <2>11. j \in B
    BY <2>8, <2>9, <2>10
  <2>12. PICK z \in B :
           /\ \A i \in B : z >= i
           /\ Default!ParseContentLength(head) = ContentLength[head[z]]
    BY <2>10, <2>11
  <2>13. Default!ParseContentLength(head) = NotANumber
    BY DEF Default!Announces
  <2>14. z \in 1..h /\ head[z] \in D /\ z >= j
    BY <2>10, <2>11, <2>12
  <2>15. ASSUME z # j PROVE FALSE
    <3> DEFINE u == e + z
    <3>1. u > y /\ u \in Nat /\ u <= Start(k2)
      BY <2>5, <2>8, <2>14, <2>15
    <3>2. data[u] \in D
      BY <2>5, <2>14
    <3> HIDE DEF u
    <3>3. CASE u <= s
      <4>1. u - from \in 1..n /\ from + (u - from) = u /\ u - from > x
        BY <1>1, <1>2, <2>2, <2>3, <3>1, <3>3 DEF y
      <4>2. header[u - from] = data[u]
        BY <1>3, <4>1
      <4>3. u - from \in A
        BY <1>4, <3>2, <4>1, <4>2
      <4>4. x \in Nat
        BY <2>2
      <4> QED
        BY <2>1, <4>1, <4>3, <4>4
    <3>4. CASE u > s
      <4> DEFINE i == s + 1 - e
      <4>1. i \in 1..h /\ e + i = s + 1
        BY <1>1, <2>3, <2>4, <2>5, <2>8, <3>1, <3>4
      <4> HIDE DEF i
      <4> QED
        BY <1>1, <2>6, <4>1
    <3> QED
      BY <1>1, <3>1, <3>3, <3>4
  <2>16. Default!ParseContentLength(header) = NotANumber
    BY <2>1, <2>2, <2>9, <2>12, <2>13, <2>15
  <2> QED
    BY <2>16 DEF header, s
<1> QED
  BY <1>5, <1>6

-----------------------------------------------------------------------------
(* The cameras the native reader is made for.                              *)
Exact == Native!Sound /\ Native!Announced
Level == Native!Sound /\ Native!Unannounced /\ Native!SameHeads /\ Native!Similar
Hushed == Native!Sound /\ Native!Unannounced /\ Native!SameHeads /\ Native!NoLines

(* The length of all heads, the end of the frame of part j, where the      *)
(* reader stands after n frames and the length it knows then.              *)
FirstHead == Len(parts[1].head)
Until(j) == IF j = 1 THEN End(1) + FirstHead ELSE End(j)
Passed(n) == IF n = 0 THEN 0 ELSE Until(n)
LastLength(n) == IF n = 0 THEN -1 ELSE Until(n) - Start(n)

(* In or right before a head, or at the end of the stream.                 *)
Placed(p) ==
  p = Len(data) \/ \E k \in 1..Len(parts) : p \in (Start(k) - FirstHead)..Start(k)

(* What depends on the camera alone does not change.                       *)
LEMMA NativeSame ==
  ASSUME parts' = parts, data' = data
  PROVE  /\ Exact' <=> Exact
         /\ Level' <=> Level
         /\ Hushed' <=> Hushed
         /\ FirstHead' = FirstHead
         /\ \A k : Until(k)' = Until(k) /\ Passed(k)' = Passed(k)
         /\ \A k : LastLength(k)' = LastLength(k)
         /\ \A p : Placed(p)' <=> Placed(p)
         /\ \A k : Start(k)' = Start(k) /\ End(k)' = End(k)
<1>1. \A k : Start(k)' = Start(k) /\ End(k)' = End(k)
  BY Same
<1>2. FirstHead' = FirstHead
  BY DEF FirstHead
<1>3. \A k : Until(k)' = Until(k) /\ Passed(k)' = Passed(k)
  BY <1>1, <1>2 DEF Until, Passed
<1>4. \A k : LastLength(k)' = LastLength(k)
  BY <1>1, <1>3 DEF LastLength
<1>5. \A p : Placed(p)' <=> Placed(p)
  BY <1>1, <1>2 DEF Placed
<1>6. /\ Exact' <=> Exact
      /\ Level' <=> Level
      /\ Hushed' <=> Hushed
  BY DEF Exact, Level, Hushed, Native!Sound, Native!Announced, Native!Unannounced,
         Native!SameHeads, Native!Similar, Native!NoLines, Native!Size
<1> QED
  BY <1>1, <1>2, <1>3, <1>4, <1>5, <1>6

(* What the parts of a sound camera are.                                   *)
LEMMA NativeKinds ==
  ASSUME Streamed, Native!Sound
  PROVE  /\ Images
         /\ \A k \in 1..Len(parts) :
              /\ Len(parts[k].head) + Len(parts[k].body) <= NativeMaxLength
              /\ IF Default!Announces(parts[k])
                 THEN Default!ParseContentLength(parts[k].head) = Len(parts[k].body)
                 ELSE Default!HasNoFill(parts[k])
<1>1. DOMAIN parts = 1..Len(parts)
  BY DEF Streamed
<1>2. ASSUME NEW k \in 1..Len(parts)
      PROVE  /\ Default!IsImage(parts[k])
             /\ Len(parts[k].head) + Len(parts[k].body) <= NativeMaxLength
             /\ IF Default!Announces(parts[k])
                THEN Default!ParseContentLength(parts[k].head) = Len(parts[k].body)
                ELSE Default!HasNoFill(parts[k])
  <2>1. Native!Default!IsSound(parts[k])
    BY <1>1 DEF Native!Sound
  <2>2. Len(Default!Cells(parts[k])) = Len(parts[k].head) + Len(parts[k].body)
    BY PartAt
  <2>3. Default!IsImage(parts[k])
    BY <2>1, PartAliases DEF Native!Default!IsSound
  <2>4. Len(Default!Cells(parts[k])) <= NativeMaxLength
    BY <2>1, Aliases DEF Native!Default!IsSound, Native!Default!Fits
  <2>5. IF Default!Announces(parts[k])
        THEN Default!ParseContentLength(parts[k].head) = Len(parts[k].body)
        ELSE Default!HasNoFill(parts[k])
    BY <2>1, PartAliases, Aliases DEF Native!Default!IsSound
  <2> QED
    BY <2>2, <2>3, <2>4, <2>5
<1> QED
  BY <1>2 DEF Images

(* The same of the cameras above.                                          *)
LEMMA CameraKinds ==
  ASSUME Streamed
  PROVE  /\ Exact => /\ Images
                     /\ \A k \in 1..Len(parts) :
                          /\ Len(parts[k].head) + Len(parts[k].body) <= NativeMaxLength
                          /\ Default!ParseContentLength(parts[k].head) = Len(parts[k].body)
         /\ Level \/ Hushed =>
              /\ Images
              /\ \A k \in 1..Len(parts) :
                   /\ Len(parts[k].head) + Len(parts[k].body) <= NativeMaxLength
                   /\ ~Default!Announces(parts[k])
                   /\ Default!HasNoFill(parts[k])
                   /\ Len(parts[k].head) = FirstHead
         /\ Hushed => Lineless
<1>1. DOMAIN parts = 1..Len(parts)
  BY DEF Streamed
<1>2. ASSUME Exact, NEW k \in 1..Len(parts) PROVE Default!Announces(parts[k])
  BY <1>1, <1>2, PartAliases DEF Exact, Native!Announced
<1>3. ASSUME Level \/ Hushed, NEW k \in 1..Len(parts)
      PROVE  ~Default!Announces(parts[k]) /\ Len(parts[k].head) = FirstHead
  BY <1>1, <1>3, PartAliases
     DEF Level, Hushed, Native!Unannounced, Native!SameHeads, FirstHead
<1>4. Exact \/ Level \/ Hushed => Native!Sound
  BY DEF Exact, Level, Hushed
<1>5. Hushed => Lineless
  BY <1>1, PartAliases DEF Hushed, Lineless, Native!NoLines
<1> QED
  BY <1>2, <1>3, <1>4, <1>5, NativeKinds

-----------------------------------------------------------------------------
(* From anywhere in a head the next image is found.                        *)
LEMMA NextHead ==
  ASSUME Streamed, NEW k \in 1..Len(parts), Default!IsImage(parts[k]),
         Len(parts[k].head) + Len(parts[k].body) <= NativeMaxLength,
         NEW from \in Nat, from >= End(k - 1), from <= Start(k)
  PROVE  LET soi == Default!SearchUpTo(<<"FF", "D8">>, from, NativeMaxLength)
         IN  soi.result = "found" /\ from + (soi.read - 2) = Start(k)
<1> DEFINE ff == "FF"
           d8 == "D8"
           soi == Default!SearchUpTo(<<ff, d8>>, from, NativeMaxLength)
           h == Len(parts[k].head)
           b == Len(parts[k].body)
           m == Start(k) - from
<1>1. ff # d8 /\ data \in Seq(Cell) /\ Len(data) \in Nat /\ NativeMaxLength \in Nat
  BY Layout, Assumed DEF Streamed
<1>2. /\ h \in Nat /\ b \in Nat /\ b >= 4 /\ Start(k) \in Nat
      /\ End(k - 1) = Start(k) - h
  BY Pictured
<1>3. h + b <= NativeMaxLength
  OBVIOUS
<1>4. m \in 0..h /\ Start(k) - m = from
  BY <1>2
<1> HIDE DEF h, b, m
<1>5. from \in 0..Len(data) /\ FirstAhead(from, m, ff, d8)
  <2>1. m \in 0..Len(parts[k].head)
    BY <1>4 DEF h
  <2> QED
    BY <1>4, <2>1, ImageAhead
<1> HIDE DEF ff, d8
<1>6. m + 2 <= NativeMaxLength /\ m \in Nat
  BY <1>1, <1>2, <1>3, <1>4
<1>7. soi.result = "found" /\ soi.read = m + 2
  BY <1>1, <1>5, <1>6, SearchFound, SMTT(30)
<1> HIDE DEF soi
<1>8. from + (soi.read - 2) = Start(k)
  <2>1. (m + 2) - 2 = m /\ from + m = Start(k)
    BY <1>2, <1>4, <1>6
  <2> QED
    BY <1>7, <2>1
<1> QED
  BY <1>7, <1>8 DEF soi, ff, d8

(* At the end of the connection nothing is found.                          *)
LEMMA NextNothing ==
  ASSUME data \in Seq(Cell)
  PROVE  Default!SearchUpTo(<<"FF", "D8">>, Len(data), NativeMaxLength).result =
           "EOFException"
<1> DEFINE ff == "FF"
           d8 == "D8"
           from == Len(data)
<1>1. /\ ff # d8 /\ from \in 0..Len(data) /\ Len(data) - from < NativeMaxLength
      /\ NativeMaxLength \in Nat
  BY Assumed
<1>2. NoneAhead(from, ff, d8)
  <2>1. 1..(Len(data) - from - 1) = {}
    BY <1>1
  <2> QED
    BY <2>1 DEF NoneAhead
<1> HIDE DEF ff, d8, from
<1>3. Default!SearchUpTo(<<ff, d8>>, from, NativeMaxLength).result = "EOFException"
  BY <1>1, <1>2, SearchNothing, SMTT(30)
<1> QED
  BY <1>3 DEF ff, d8, from

(* From the end of an image the next one is found, or the connection ends. *)
LEMMA NextImage ==
  ASSUME Streamed, Images, NEW n \in 0..Len(parts),
         \A k \in 1..Len(parts) :
           Len(parts[k].head) + Len(parts[k].body) <= NativeMaxLength
  PROVE  LET soi == Default!SearchUpTo(<<"FF", "D8">>, End(n), NativeMaxLength)
         IN  /\ n < Len(parts) => /\ soi.result = "found"
                                  /\ End(n) + (soi.read - 2) = Start(n + 1)
             /\ n = Len(parts) => soi.result = "EOFException"
<1> DEFINE soi == Default!SearchUpTo(<<"FF", "D8">>, End(n), NativeMaxLength)
<1>1. data \in Seq(Cell) /\ Len(parts) \in Nat /\ Len(data) = End(Len(parts))
  BY Layout DEF Streamed
<1>2. ASSUME n < Len(parts)
      PROVE  soi.result = "found" /\ End(n) + (soi.read - 2) = Start(n + 1)
  <2> DEFINE k == n + 1
             h == Len(parts[k].head)
  <2>1. k \in 1..Len(parts) /\ k - 1 = n
    BY <1>1, <1>2
  <2> HIDE DEF k
  <2>2. /\ Default!IsImage(parts[k])
        /\ Len(parts[k].head) + Len(parts[k].body) <= NativeMaxLength
    BY <2>1 DEF Images
  <2>3. End(n) \in Nat /\ End(n) >= End(k - 1) /\ End(n) <= Start(k)
    <3>1. End(n) \in Nat /\ h \in Nat /\ Start(k) = End(n) + h
      BY <2>1, PartAt
    <3> HIDE DEF h
    <3> QED
      BY <2>1, <3>1
  <2> QED
    BY <2>1, <2>2, <2>3, NextHead DEF k
<1>3. n = Len(parts) => soi.result = "EOFException"
  BY <1>1, NextNothing
<1> QED
  BY <1>2, <1>3

-----------------------------------------------------------------------------
(* Of a camera that announces the lengths of sound parts: the images, in   *)
(* order.                                                                  *)
ExactInOrder ==
  LET n == Len(frames) IN
    /\ n <= Len(parts)
    /\ \A i \in 1..n : frames[i] = [first |-> Start(i) + 1, last |-> End(i)]
    /\ outcome \notin {"crash", "IOException"}
    /\ outcome = "-1" => step = "idle" /\ n = Len(parts)
    /\ step = "idle" => pos = End(n)
    /\ step # "idle" => /\ n < Len(parts) /\ mark = End(n)
                        /\ mark + headerLen = Start(n + 1)
                        /\ step \in {"header", "frame"}
    /\ step = "frame" => mContentLength = Len(parts[n + 1].body)

(* The step to the start marker (MjpegInputStreamNative.java:182-198).     *)
LEMMA ExactFindStart ==
  ASSUME NativeReading, Exact, ExactInOrder, Native!FindStart
  PROVE  ExactInOrder'
<1> DEFINE ff == "FF"
           d8 == "D8"
           soi == Default!SearchUpTo(<<ff, d8>>, pos, NativeMaxLength)
           n == Len(frames)
<1>1. /\ step = "idle" /\ mark' = pos /\ parts' = parts /\ data' = data
      /\ frames' = frames /\ mContentLength' = mContentLength
      /\ outcome # "-1"
      /\ \/ /\ soi.result = "found" /\ headerLen' = soi.read - 2 /\ step' = "header"
            /\ pos' = pos /\ outcome' = outcome
         \/ /\ soi.result = "EOFException" /\ step' = "idle" /\ outcome' = "-1"
            /\ pos' \in {pos, mark} /\ pos' = pos
         \/ soi.result = "-1"
  BY Aliases DEF Native!FindStart, Native!Fail, Native!FailKnowing, Native!Default!Fail,
                 Native!Default!FailKnowing,
         Native!Default!Search, Native!Default!Start
<1>2. /\ pos = End(n) /\ n \in 0..Len(parts) /\ n \in Nat /\ Len(parts) \in Nat
  BY <1>1, NativeTypes DEF ExactInOrder
<1>3. /\ n < Len(parts) => /\ soi.result = "found"
                           /\ pos + (soi.read - 2) = Start(n + 1)
      /\ n = Len(parts) => soi.result = "EOFException"
  <2>1. Streamed
    BY DEF NativeReading
  <2> HIDE DEF n
  <2> QED
    BY <1>2, <2>1, NextImage, CameraKinds
<1> HIDE DEF soi
<1>4. \A k : Start(k)' = Start(k) /\ End(k)' = End(k)
  BY <1>1, NativeSame
<1>5. n' = n
  BY <1>1
<1>6. CASE n < Len(parts)
  <2>1. /\ headerLen' = soi.read - 2 /\ step' = "header" /\ pos' = pos
        /\ outcome' = outcome
    BY <1>1, <1>3, <1>6
  <2>2. mark' = End(n) /\ mark' + headerLen' = Start(n + 1)
    BY <1>1, <1>2, <1>3, <1>6, <2>1
  <2> QED
    BY <1>1, <1>2, <1>4, <1>5, <1>6, <2>1, <2>2 DEF ExactInOrder
<1>7. CASE n = Len(parts)
  <2>1. step' = "idle" /\ outcome' = "-1" /\ pos' = pos
    BY <1>1, <1>3, <1>7
  <2> QED
    BY <1>1, <1>2, <1>4, <1>5, <1>7, <2>1 DEF ExactInOrder
<1> QED
  BY <1>2, <1>6, <1>7

(* The step that parses the header (MjpegInputStreamNative.java:198-219).  *)
LEMMA ExactReadHeader ==
  ASSUME NativeReading, Exact, ExactInOrder, Native!ReadHeader
  PROVE  ExactInOrder'
<1> DEFINE header == SubSeq(data, mark + 1, mark + headerLen)
           length == Default!ParseContentLength(header)
           n == Len(frames)
           k == n + 1
           head == parts[k].head
           b == Len(parts[k].body)
<1>1. /\ step = "header" /\ mark' = mark /\ headerLen' = headerLen
      /\ parts' = parts /\ data' = data /\ frames' = frames /\ outcome' = outcome
      /\ length # NotANumber /\ (\A i \in DOMAIN header : header[i] # Malformed) =>
           step' = "frame" /\ mContentLength' = length
  BY Aliases DEF Native!ReadHeader
<1>2. /\ n < Len(parts) /\ mark = End(n) /\ mark + headerLen = Start(k)
      /\ n \in Nat /\ Len(parts) \in Nat /\ headerLen \in Nat /\ mark \in Nat
      /\ data \in Seq(Cell)
  BY <1>1, NativeTypes DEF ExactInOrder
<1>3. k \in 1..Len(parts) /\ k - 1 = n /\ Streamed
  BY <1>2 DEF NativeReading
<1> HIDE DEF n, k
<1>4. Images /\ Default!ParseContentLength(head) = b
  BY <1>3, CameraKinds
<1>5. /\ parts[k] \in Part /\ Len(head) \in Nat /\ b \in Nat
      /\ Start(k) = End(n) + Len(head) /\ End(k) = Start(k) + b /\ End(k) <= Len(data)
      /\ Len(data) \in Nat
      /\ \A j \in 1..Len(head) : data[End(n) + j] = head[j]
  BY <1>3, PartAt
<1>6. \A j \in 1..Len(head) : head[j] # Malformed
  <2>1. Default!IsImage(parts[k])
    BY <1>3, <1>4 DEF Images
  <2> QED
    BY <1>5, <2>1, ImageFacts
<1>7. head \in Seq(Cell)
  BY <1>5 DEF Part
<1> HIDE DEF head, b
<1>8. headerLen = Len(head) /\ mark + headerLen <= Len(data)
  BY <1>2, <1>5, SMTT(30)
<1>9. header \in Seq(Cell) /\ Len(header) = headerLen
      /\ \A j \in 1..headerLen : header[j] = data[mark + j]
  BY <1>2, <1>8, Slice
<1> HIDE DEF header
<1>10. \A j \in 1..Len(header) : header[j] = head[j]
  BY <1>2, <1>5, <1>8, <1>9
<1>11. \A i \in DOMAIN header : header[i] # Malformed
  BY <1>6, <1>8, <1>9, <1>10
<1>12. NotANumber \notin Int
  BY Assumed
<1>13. length = b
  <2>1. header = head
    BY <1>7, <1>8, <1>9, <1>10
  <2> QED
    BY <1>4, <2>1
<1> HIDE DEF length
<1>14. step' = "frame" /\ mContentLength' = b
  BY <1>1, <1>5, <1>11, <1>12, <1>13
<1>15. \A i : Start(i)' = Start(i) /\ End(i)' = End(i)
  BY <1>1, NativeSame
<1>16. ExactInOrder /\ n = Len(frames)
  BY DEF n
<1>17. outcome # "-1"
  BY <1>1 DEF ExactInOrder
<1> QED
  BY <1>1, <1>2, <1>14, <1>15, <1>16, <1>17 DEF ExactInOrder, k, b

(* The step that reads the frame (MjpegInputStreamNative.java:225-239).    *)
LEMMA ExactReadFrame ==
  ASSUME NativeReading, Exact, ExactInOrder, Native!ReadFrame
  PROVE  ExactInOrder'
<1> DEFINE n == Len(frames)
           k == n + 1
           b == Len(parts[k].body)
           start == mark + headerLen
           end == start + mContentLength
           frame == [first |-> start + 1, last |-> end]
<1>1. /\ step = "frame" /\ mark' = mark /\ headerLen' = headerLen /\ step' = "idle"
      /\ parts' = parts /\ data' = data /\ mContentLength' = mContentLength
      /\ \/ frames' = Append(frames, frame) /\ pos' = end /\ outcome' = "frame"
         \/ mContentLength >= 0 /\ end > Len(data)
         \/ mContentLength < 0
  BY DEF Native!ReadFrame, Native!Default!ReadFrame, Native!Default!Fail,
         Native!Default!FailKnowing
<1>2. /\ n < Len(parts) /\ start = Start(k) /\ mContentLength = b
      /\ n \in Nat /\ Len(parts) \in Nat /\ frames \in Seq(Frame)
  BY <1>1, NativeTypes DEF ExactInOrder
<1>3. k \in 1..Len(parts) /\ Streamed
  BY <1>2 DEF NativeReading
<1> HIDE DEF n, k
<1>4. b \in Nat /\ End(k) = Start(k) + b /\ End(k) <= Len(data) /\ Len(data) \in Nat
      /\ End(k) \in Nat
  <2>1. End(k) \in Nat
    BY <1>3, Bodies DEF Streamed
  <2> QED
    BY <1>3, <2>1, PartAt
<1>5. end = End(k) /\ frame = [first |-> Start(k) + 1, last |-> End(k)]
  BY <1>2, <1>4
<1>6. ~(mContentLength < 0) /\ ~(end > Len(data))
  <2> HIDE DEF b, end
  <2> QED
    BY <1>2, <1>4, <1>5
<1> HIDE DEF end, frame, start
<1>7. /\ Len(frames') = k /\ frames'[k] = frame /\ pos' = End(k)
      /\ \A i \in 1..n : frames'[i] = frames[i]
      /\ outcome' = "frame"
  <2>1. frames' = Append(frames, frame) /\ pos' = end /\ outcome' = "frame"
    BY <1>1, <1>6
  <2>2. /\ Len(frames') = Len(frames) + 1 /\ frames'[Len(frames) + 1] = frame
        /\ \A i \in 1..Len(frames) : frames'[i] = frames[i]
    BY <1>2, <2>1
  <2> QED
    BY <1>5, <2>1, <2>2 DEF n, k
<1>8. \A i : Start(i)' = Start(i) /\ End(i)' = End(i)
  BY <1>1, NativeSame
<1>9. \A i \in 1..k : frames'[i] = [first |-> Start(i) + 1, last |-> End(i)]
  <2>1. \A i \in 1..n : frames[i] = [first |-> Start(i) + 1, last |-> End(i)]
    BY DEF ExactInOrder, n
  <2>2. \A i \in 1..k : i \in 1..n \/ i = k
    BY <1>2 DEF k
  <2> QED
    BY <1>5, <1>7, <2>1, <2>2
<1>10. k <= Len(parts)
  BY <1>3
<1> QED
  BY <1>1, <1>7, <1>8, <1>9, <1>10 DEF ExactInOrder

(* Every step of the native reader keeps the images in order.              *)
LEMMA ExactNext ==
  ASSUME NativeReading, Exact, ExactInOrder, Native!Next
  PROVE  ExactInOrder'
<1>1. ~Native!FindEndNearby /\ ~Native!FindEndFromMark
  BY DEF ExactInOrder, Native!FindEndNearby, Native!FindEndFromMark
<1> QED
  BY <1>1, ExactFindStart, ExactReadHeader, ExactReadFrame DEF Native!Next, Native!ReadFrame

-----------------------------------------------------------------------------
(* The window around the last length (MjpegInputStreamNative.java:82-87).  *)
LEMMA Window ==
  ASSUME NativeReading
  PROVE  LET s == Native!startPos
             rest == Len(data) - pos
             limit == Native!Max({Native!endPos - s, 0})
         IN  /\ s \in Nat /\ Native!endPos \in Int
             /\ limit = IF Native!endPos >= s THEN Native!endPos - s ELSE 0
             /\ limit \in Nat
             /\ s = 0 => limit <= 1 /\ Native!Skipped = 0
             /\ s > 0 => Native!Skipped = IF s - 1 <= rest THEN s - 1 ELSE rest
             /\ mContentLength < 0 => s = 0 /\ limit = 0
             /\ mContentLength >= 0 => /\ s = mContentLength \div 2
                                       /\ Native!endPos = (3 * mContentLength) \div 2
             /\ Native!Skipped \in Nat /\ pos + Native!Skipped \in 0..Len(data)
<1> DEFINE s == Native!startPos
           e == Native!endPos
           rest == Len(data) - pos
           d == e - s
           u == Native!HeaderLenField + s
           skip == Native!Max({u, 0})
           limit == Native!Max({d, 0})
<1>1. /\ Len(data) \in Nat /\ pos \in 0..Len(data) /\ mContentLength \in Int
  BY NativeTypes
<1>2. /\ s \in Nat /\ e \in Int
      /\ mContentLength < 0 => s = 0 /\ e < 0
      /\ mContentLength >= 0 => s = mContentLength \div 2 /\ e = (3 * mContentLength) \div 2
      /\ s = 0 => e <= 1
  BY <1>1 DEF Native!startPos, Native!endPos
<1>3. d \in Int /\ 0 \in Int /\ u = s - 1 /\ u \in Int /\ rest \in Nat /\ rest \in Int
  BY <1>1, <1>2 DEF Native!HeaderLenField
<1>4. Native!Skipped = Native!Min({skip, rest})
  BY DEF Native!Skipped
<1> HIDE DEF d, u, rest
<1>5. limit = IF d >= 0 THEN d ELSE 0
  BY <1>3, MinMax, Zenon
<1>6. skip = IF u >= 0 THEN u ELSE 0
  BY <1>3, MinMax, Zenon
<1> HIDE DEF s, e, limit, skip
<1>7. skip \in Int
  BY <1>3, <1>6
<1>8. Native!Skipped = IF skip <= rest THEN skip ELSE rest
  BY <1>3, <1>4, <1>7, MinMax, Zenon
<1>9. /\ limit = IF e >= s THEN e - s ELSE 0
      /\ limit \in Nat
      /\ s = 0 => limit <= 1
      /\ mContentLength < 0 => s = 0 /\ limit = 0
  BY <1>2, <1>5 DEF d
<1>10. /\ s = 0 => Native!Skipped = 0
       /\ s > 0 => Native!Skipped = IF s - 1 <= rest THEN s - 1 ELSE rest
  BY <1>2, <1>3, <1>6, <1>8
<1>11. Native!Skipped \in Nat /\ Native!Skipped <= rest
  BY <1>2, <1>3, <1>10
<1>12. pos + Native!Skipped \in 0..Len(data)
  <2> DEFINE k == Native!Skipped
  <2>1. k \in Nat /\ k <= rest
    BY <1>11
  <2> HIDE DEF k
  <2>2. pos + k \in 0..Len(data)
    BY <1>1, <2>1 DEF rest
  <2> QED
    BY <2>2 DEF k
<1> QED
  BY <1>2, <1>9, <1>10, <1>11, <1>12 DEF s, e, d, limit, rest

-----------------------------------------------------------------------------
(* Of a camera that does not announce lengths, while they change little:   *)
(* all images but the first are exact.                                     *)
Evenly ==
  LET n == Len(frames) IN
    /\ n <= Len(parts)
    /\ \A i \in 1..n : frames[i] = [first |-> Start(i) + 1, last |-> Until(i)]
    /\ step = "idle" => \/ pos = Passed(n) /\ mContentLength = LastLength(n)
                        \/ pos = Len(data)
    /\ step # "idle" => /\ n < Len(parts) /\ mark = Passed(n)
                        /\ mark + headerLen = Start(n + 1)
    /\ step \in {"header", "nearby", "anywhere"} => mContentLength = LastLength(n)
    /\ step = "anywhere" => n = 0
    /\ step = "frame" => mContentLength = LastLength(n + 1)

(* The parts of such a camera.                                             *)
LEMMA LevelParts ==
  ASSUME Streamed, Level, NEW k \in 1..Len(parts)
  PROVE  LET b == Len(parts[k].body)
             last == LastLength(k - 1)
         IN  /\ Images /\ FirstHead = Len(parts[k].head) /\ FirstHead \in Nat
             /\ b \in Nat /\ b >= 4 /\ FirstHead + b <= NativeMaxLength
             /\ Start(k) \in Nat /\ End(k) \in Nat /\ End(k) = Start(k) + b
             /\ End(k - 1) \in Nat /\ End(k - 1) = Start(k) - FirstHead
             /\ End(k) <= Len(data)
             /\ Passed(k - 1) \in Nat
             /\ End(k - 1) <= Passed(k - 1) /\ Passed(k - 1) <= Start(k)
             /\ LastLength(k) = IF k = 1 THEN b + FirstHead ELSE b
             /\ Until(k) = Start(k) + LastLength(k)
             /\ k = 1 => last = -1
             /\ k > 1 => last \in Nat /\ last \div 2 < b /\ b < (3 * last) \div 2
                         /\ last >= 4
             /\ Default!HasNoFill(parts[k])
             /\ ~Default!Announces(parts[k])
<1> DEFINE b == Len(parts[k].body)
           last == LastLength(k - 1)
           H == FirstHead
<1>1. /\ Images /\ H = Len(parts[k].head) /\ H + b <= NativeMaxLength
      /\ Default!HasNoFill(parts[k]) /\ ~Default!Announces(parts[k])
  BY CameraKinds
<1>2. Default!IsImage(parts[k])
  BY <1>1 DEF Images
<1>3. /\ H \in Nat /\ b \in Nat /\ b >= 4 /\ Start(k) \in Nat /\ End(k) = Start(k) + b
      /\ End(k - 1) = Start(k) - H /\ Start(k) >= H /\ End(k) <= Len(data)
  BY <1>1, <1>2, Pictured
<1>4. k \in Nat /\ Len(parts) \in Nat /\ DOMAIN parts = 1..Len(parts)
  BY DEF Streamed
<1>5. End(0) = 0
  BY DEF End
<1>6. LastLength(k) = IF k = 1 THEN b + H ELSE b
  <2> HIDE DEF H, b
  <2> QED
    BY <1>3, <1>4 DEF LastLength, Until, H
<1>7. k = 1 => last = -1
  BY DEF LastLength
<1>8. ASSUME k > 1
      PROVE  last \in Nat /\ last \div 2 < b /\ b < (3 * last) \div 2 /\ last >= 4
  <2> DEFINE i == k - 1
             c == Len(parts[i].body)
  <2>1. i \in 1..Len(parts) /\ i # 0
    BY <1>4, <1>8
  <2>2. Default!IsImage(parts[i]) /\ Len(parts[i].head) = H
    BY <1>1, <2>1, CameraKinds DEF Images
  <2>3. c \in Nat /\ c >= 4 /\ Start(i) \in Nat /\ End(i) = Start(i) + c
    BY <2>1, <2>2, Pictured
  <2>4. last = IF i = 1 THEN c + H ELSE c
    <3> HIDE DEF i, c, H
    <3> QED
      BY <1>3, <2>1, <2>3 DEF LastLength, Until, i, H
  <2>5. LET before == IF k = 2 THEN Len(parts[1].body) + Len(parts[1].head)
                      ELSE Len(parts[k - 1].body)
        IN  before \div 2 < b /\ b < (3 * before) \div 2
    BY <1>4, <1>8 DEF Level, Native!Similar, Native!Size
  <2>6. last = IF k = 2 THEN Len(parts[1].body) + Len(parts[1].head)
               ELSE Len(parts[k - 1].body)
    <3>1. i = 1 <=> k = 2
      BY <1>4
    <3> QED
      BY <2>4, <3>1 DEF FirstHead
  <2>7. last \div 2 < b /\ b < (3 * last) \div 2
    BY <2>5, <2>6
  <2> HIDE DEF last, c, H, b
  <2>8. last \in Nat /\ last >= 4
    BY <1>3, <2>3, <2>4
  <2> QED
    BY <2>7, <2>8
<1>9. Until(k) = Start(k) + LastLength(k)
  <2> HIDE DEF H, b
  <2> QED
    BY <1>3, <1>4 DEF LastLength, Until, H
<1>10. /\ Passed(k - 1) \in Nat
       /\ End(k - 1) <= Passed(k - 1) /\ Passed(k - 1) <= Start(k)
  <2> HIDE DEF H, b
  <2>1. CASE k = 1
    BY <1>3, <1>5, <2>1 DEF Passed
  <2>2. CASE k = 2
    BY <1>3, <2>2 DEF Passed, Until, H
  <2>3. CASE k > 2
    BY <1>3, <1>4, <2>3 DEF Passed, Until
  <2> QED
    BY <1>4, <2>1, <2>2, <2>3
<1> HIDE DEF b, H, last
<1>11. End(k) \in Nat /\ End(k - 1) \in Nat
  BY <1>3
<1> QED
  BY <1>1, <1>3, <1>6, <1>7, <1>8, <1>9, <1>10, <1>11 DEF b, last, H

(* The step to the start marker (MjpegInputStreamNative.java:182-198).     *)
LEMMA LevelFindStart ==
  ASSUME NativeReading, Level, Evenly, Native!FindStart
  PROVE  Evenly'
<1> DEFINE soi == Default!SearchUpTo(<<"FF", "D8">>, pos, NativeMaxLength)
           n == Len(frames)
           k == n + 1
<1>1. /\ step = "idle" /\ mark' = pos /\ parts' = parts /\ data' = data
      /\ frames' = frames /\ mContentLength' = mContentLength
      /\ \/ /\ soi.result = "found" /\ headerLen' = soi.read - 2 /\ step' = "header"
         \/ /\ soi.result # "found" /\ step' = "idle"
            /\ pos' \in {pos, mark} /\ pos' = pos
  BY Aliases DEF Native!FindStart, Native!Fail, Native!FailKnowing, Native!Default!Fail,
                 Native!Default!FailKnowing,
         Native!Default!Search, Native!Default!Start
<1> HIDE DEF soi
<1>2. /\ n \in 0..Len(parts) /\ n \in Nat /\ Len(parts) \in Nat
      /\ pos \in Nat /\ Len(data) \in Nat /\ pos <= Len(data) /\ data \in Seq(Cell)
      /\ Streamed
  BY NativeTypes DEF Evenly, NativeReading
<1>3. /\ \A i : Start(i)' = Start(i)
      /\ \A i : Until(i)' = Until(i) /\ Passed(i)' = Passed(i)
      /\ \A i : LastLength(i)' = LastLength(i)
  BY <1>1, NativeSame
<1>4. CASE pos = Len(data)
  <2>1. soi.result # "found"
    BY <1>2, <1>4, NextNothing DEF soi
  <2>2. step' = "idle" /\ pos' = Len(data)
    BY <1>1, <1>4, <2>1
  <2> QED
    BY <1>1, <1>3, <2>2 DEF Evenly
<1>5. CASE pos # Len(data)
  <2>1. pos = Passed(n) /\ mContentLength = LastLength(n)
    BY <1>1, <1>5 DEF Evenly
  <2>2. ASSUME n = Len(parts) PROVE FALSE
    <3>1. Len(data) = End(n)
      BY <1>2, <2>2, Layout DEF Streamed
    <3>2. CASE n = 0
      BY <1>5, <2>1, <3>1, <3>2 DEF Passed, End
    <3>3. CASE n # 0
      <4>1. n \in 1..Len(parts)
        BY <1>2, <3>3
      <4>2. FirstHead \in Nat /\ End(n) \in Nat
        BY <1>2, <4>1, LevelParts
      <4> HIDE DEF n
      <4>3. Passed(n) >= End(n)
        BY <3>3, <4>2 DEF Passed, Until
      <4> QED
        BY <1>2, <1>5, <2>1, <3>1, <4>3
    <3> QED
      BY <3>2, <3>3
  <2>3. k \in 1..Len(parts) /\ k - 1 = n
    BY <1>2, <2>2
  <2> HIDE DEF n, k
  <2>4. /\ Images /\ Len(parts[k].head) + Len(parts[k].body) <= NativeMaxLength
        /\ End(k - 1) <= Passed(n) /\ Passed(n) <= Start(k) /\ Start(k) \in Nat
    BY <1>2, <2>3, LevelParts
  <2>5. soi.result = "found" /\ pos + (soi.read - 2) = Start(k)
    BY <1>2, <2>1, <2>3, <2>4, NextHead DEF Images, soi
  <2>6. step' = "header" /\ headerLen' = soi.read - 2
    BY <1>1, <2>5
  <2>7. mark' = Passed(n) /\ mark' + headerLen' = Start(k)
    BY <1>1, <2>1, <2>5, <2>6
  <2>8. n < Len(parts)
    BY <1>2, <2>3
  <2> QED
    BY <1>1, <1>3, <2>1, <2>6, <2>7, <2>8 DEF Evenly, n, k
<1> QED
  BY <1>4, <1>5

(* The step that parses the header (MjpegInputStreamNative.java:198-219).  *)
LEMMA LevelReadHeader ==
  ASSUME NativeReading, Level, Evenly, Native!ReadHeader
  PROVE  Evenly'
<1> DEFINE header == SubSeq(data, mark + 1, mark + headerLen)
           n == Len(frames)
           k == n + 1
<1>1. /\ step = "header" /\ mark' = mark /\ headerLen' = headerLen
      /\ parts' = parts /\ data' = data /\ frames' = frames
      /\ Default!ParseContentLength(header) = NotANumber =>
           step' = "nearby" /\ mContentLength' = mContentLength
  BY Aliases DEF Native!ReadHeader
<1> HIDE DEF header
<1>2. /\ n < Len(parts) /\ mark = Passed(n) /\ mark + headerLen = Start(k)
      /\ mContentLength = LastLength(n)
      /\ n \in Nat /\ Len(parts) \in Nat /\ mark \in Nat /\ headerLen \in Nat /\ Streamed
  BY <1>1, NativeTypes DEF Evenly, NativeReading
<1>3. k \in 1..Len(parts) /\ k - 1 = n
  BY <1>2
<1>4. Default!ParseContentLength(header) = NotANumber
  <2>1. /\ Images /\ End(k - 1) <= mark /\ mark <= Start(k)
    BY <1>2, <1>3, LevelParts
  <2>2. \A i \in 1..Len(parts) : ~Default!Announces(parts[i])
    BY <1>2, CameraKinds
  <2>3. End(k - 1) \in Nat
    BY <1>2, <1>3, LevelParts
  <2> HIDE DEF k
  <2>4. mark >= End(k - 1)
    BY <1>2, <2>1, <2>3
  <2> QED
    BY <1>2, <1>3, <2>1, <2>2, <2>4, Unread DEF header
<1>5. step' = "nearby" /\ mContentLength' = mContentLength
  BY <1>1, <1>4
<1>6. /\ \A i : Start(i)' = Start(i)
      /\ \A i : Until(i)' = Until(i) /\ Passed(i)' = Passed(i)
      /\ \A i : LastLength(i)' = LastLength(i)
  BY <1>1, NativeSame
<1> QED
  BY <1>1, <1>2, <1>5, <1>6 DEF Evenly

(* The search around the last length: there is none before the first frame *)
(* and it finds the end of every other (MjpegInputStreamNative.java:79-102)*)
LEMMA LevelFindEndNearby ==
  ASSUME NativeReading, Level, Evenly, Native!FindEndNearby
  PROVE  Evenly'
<1> DEFINE ff == "FF"
           d9 == "D9"
           s == Native!startPos
           from == pos + Native!Skipped
           limit == Native!Max({Native!endPos - s, 0})
           eof == Default!SearchUpTo(<<ff, d9>>, from, limit)
           n == Len(frames)
           k == n + 1
           b == Len(parts[k].body)
<1>1. /\ step = "nearby" /\ mark' = mark /\ headerLen' = headerLen
      /\ parts' = parts /\ data' = data /\ frames' = frames
      /\ \/ /\ eof.result = "found"
            /\ mContentLength' = -1 + s + eof.read /\ step' = "frame"
         \/ /\ eof.result = "-1"
            /\ mContentLength' = mContentLength /\ step' = "anywhere"
         \/ eof.result = "EOFException"
         \/ ~((from + eof.read) - mark <= NativeMaxLength)
  BY Aliases DEF Native!FindEndNearby, Native!EndNearby, Native!Fail, Native!FailKnowing, Native!Default!Fail,
                 Native!Default!FailKnowing,
                 Native!LengthNearby, Native!HeaderLenField, Native!Default!MarkedAt
<1>2. /\ n < Len(parts) /\ mark = Passed(n) /\ mark + headerLen = Start(k)
      /\ mContentLength = LastLength(n) /\ pos = Start(k)
      /\ n \in Nat /\ Len(parts) \in Nat /\ mark \in Nat /\ headerLen \in Nat /\ Streamed
      /\ data \in Seq(Cell) /\ Len(data) \in Nat
      /\ headerLen <= NativeMaxLength /\ NativeMaxLength \in Nat
  BY <1>1, NativeTypes DEF Evenly, NativeReading
<1>3. k \in 1..Len(parts) /\ k - 1 = n
  BY <1>2
<1>4. /\ b \in Nat /\ b >= 4 /\ FirstHead + b <= NativeMaxLength /\ FirstHead \in Nat
      /\ Start(k) \in Nat /\ End(k) = Start(k) + b /\ End(k) <= Len(data)
      /\ End(k - 1) = Start(k) - FirstHead /\ End(k - 1) \in Nat
      /\ End(k - 1) <= mark
  BY <1>2, <1>3, LevelParts
<1>5. /\ s \in Nat /\ Native!endPos \in Int
      /\ limit = IF Native!endPos >= s THEN Native!endPos - s ELSE 0
      /\ limit \in Nat
      /\ from \in 0..Len(data)
  BY Window
<1>6. \A i : /\ Start(i)' = Start(i) /\ Until(i)' = Until(i)
             /\ Passed(i)' = Passed(i) /\ LastLength(i)' = LastLength(i)
  BY <1>1, NativeSame
<1>0. ff # d9
  OBVIOUS
<1>7. CASE n = 0
  <2>1. mContentLength < 0
    BY <1>2, <1>7 DEF LastLength
  <2>2. s = 0 /\ limit = 0 /\ Native!Skipped = 0
    BY <2>1, Window
  <2>3. from = pos
    BY <1>2, <1>4, <2>2
  <2> HIDE DEF from, limit, ff, d9, s, b, n, k
  <2>4. /\ eof.read \in 0..limit
        /\ eof.result \in {"found", "EOFException", "-1"}
        /\ eof.result = "found" => eof.read >= 2
        /\ eof.result = "EOFException" => from + eof.read = Len(data)
    BY <1>0, <1>2, <1>5, SearchResult, SMTT(60)
  <2> HIDE DEF eof
  <2>5. eof.read = 0
    BY <2>2, <2>4
  <2>6. eof.result = "-1"
    BY <1>2, <1>4, <2>3, <2>4, <2>5, SMTT(30)
  <2>7. (from + eof.read) - mark <= NativeMaxLength
    BY <1>2, <1>4, <2>3, <2>5, SMTT(30)
  <2>8. mContentLength' = mContentLength /\ step' = "anywhere"
    BY <1>1, <2>6, <2>7
  <2> QED
    BY <1>1, <1>2, <1>6, <1>7, <2>8 DEF Evenly, n, k
<1>8. CASE n # 0
  <2> DEFINE last == LastLength(n)
             e == Native!endPos
  <2>1. /\ last \in Nat /\ last \div 2 < b /\ b < (3 * last) \div 2 /\ last >= 4
        /\ LastLength(k) = b
    <3>1. k > 1 /\ k # 1
      BY <1>2, <1>8
    <3> QED
      BY <1>2, <1>3, <3>1, LevelParts
  <2>2. s = last \div 2 /\ e = (3 * last) \div 2
    <3>1. mContentLength = last /\ mContentLength >= 0
      BY <1>2, <2>1
    <3>2. /\ s = mContentLength \div 2
          /\ Native!endPos = (3 * mContentLength) \div 2
      BY <3>1, Window
    <3> QED
      BY <3>1, <3>2
  <2> HIDE DEF last, b, n, k
  <2>3. s >= 1 /\ s < b /\ b < e /\ e \in Int /\ s \in Nat
    BY <1>4, <1>5, <2>1, <2>2
  <2>4. Native!Skipped = s - 1
    <3>1. Native!Skipped = IF s - 1 <= Len(data) - pos THEN s - 1 ELSE Len(data) - pos
      BY <2>3, Window
    <3> HIDE DEF s
    <3>2. s - 1 <= Len(data) - pos
      BY <1>2, <1>4, <2>3, SMTT(30)
    <3> QED
      BY <3>1, <3>2
  <2> HIDE DEF s, e
  <2>5. from = (Start(k) + s) - 1
    <3>1. from = pos + (s - 1)
      BY <2>4
    <3> HIDE DEF from
    <3> QED
      BY <1>2, <1>4, <2>3, <3>1, SMTT(30)
  <2> HIDE DEF limit, from, ff, d9
  <2>6. limit = e - s
    BY <1>4, <1>5, <2>3 DEF e
  <2>7. from \in Nat /\ from >= End(k - 1) /\ from + 2 <= End(k)
    BY <1>4, <2>3, <2>5, SMTT(30)
  <2> DEFINE m == End(k) - from - 2
  <2>8. from \in 0..Len(data) /\ FirstAhead(from, m, ff, d9)
    <3>1. Default!IsImage(parts[k]) /\ Default!HasNoFill(parts[k])
      BY <1>2, <1>3, LevelParts DEF Images
    <3> QED
      BY <1>2, <1>3, <2>7, <3>1, EndAhead DEF ff, d9
  <2>9. m + 2 = (b - s) + 1 /\ m + 2 <= limit
    BY <1>4, <2>3, <2>5, <2>6, SMTT(30)
  <2> HIDE DEF m
  <2>10. eof.result = "found" /\ eof.read = m + 2
    BY <1>0, <1>2, <1>5, <2>8, <2>9, SearchFound, SMTT(60)
  <2> HIDE DEF eof
  <2>11. (-1 + s) + eof.read = b /\ (from + eof.read) - mark <= NativeMaxLength
    <3> DEFINE r == eof.read
    <3>1. r = (b - s) + 1
      BY <2>9, <2>10
    <3> HIDE DEF r
    <3>2. (-1 + s) + r = b
      BY <1>4, <2>3, <3>1
    <3>3. from + r = Start(k) + b
      BY <1>4, <2>3, <2>5, <3>1
    <3>4. (Start(k) + b) - mark <= NativeMaxLength
      <4> DEFINE before == End(k - 1)
                 start == Start(k)
                 H == FirstHead
      <4>1. /\ mark \in Nat /\ before \in Nat /\ start \in Nat /\ b \in Nat /\ H \in Nat
            /\ before = start - H /\ before <= mark /\ H + b <= NativeMaxLength
            /\ NativeMaxLength \in Nat
        BY <1>2, <1>4
      <4> HIDE DEF before, start, H
      <4>2. (start + b) - mark <= NativeMaxLength
        BY <4>1
      <4> QED
        BY <4>2 DEF start
    <3> QED
      BY <3>2, <3>3, <3>4 DEF r
  <2>12. mContentLength' = b /\ step' = "frame"
    BY <1>1, <2>10, <2>11
  <2> QED
    BY <1>1, <1>2, <1>6, <2>1, <2>12 DEF Evenly, n, k
<1> QED
  BY <1>7, <1>8

(* The search from the mark, for the first frame: its length takes in the  *)
(* head (MjpegInputStreamNative.java:206-210, 215-219).                    *)
LEMMA LevelFindEndFromMark ==
  ASSUME NativeReading, Level, Evenly, Native!FindEndFromMark
  PROVE  Evenly'
<1> DEFINE ff == "FF"
           d9 == "D9"
           eof == Default!SearchUpTo(<<ff, d9>>, pos, NativeMaxLength)
           n == Len(frames)
           b == Len(parts[1].body)
           m == End(1) - pos - 2
<1>1. /\ step = "anywhere" /\ mark' = mark /\ headerLen' = headerLen
      /\ parts' = parts /\ data' = data /\ frames' = frames
      /\ eof.result = "found" => mContentLength' = eof.read /\ step' = "frame"
  BY Aliases DEF Native!FindEndFromMark, Native!Fail, Native!FailKnowing, Native!Default!Fail,
                 Native!Default!FailKnowing,
                 Native!Default!Search
<1>2. /\ n = 0 /\ n < Len(parts) /\ mark = Passed(n) /\ mark + headerLen = Start(n + 1)
      /\ pos = mark /\ data \in Seq(Cell) /\ Len(parts) \in Nat /\ Streamed
      /\ NativeMaxLength \in Nat
  BY <1>1, NativeTypes DEF Evenly, NativeReading
<1>3. 1 \in 1..Len(parts)
  BY <1>2
<1>4. /\ b \in Nat /\ b >= 4 /\ FirstHead + b <= NativeMaxLength /\ FirstHead \in Nat
      /\ Start(1) \in Nat /\ End(1) = Start(1) + b
      /\ End(1 - 1) = Start(1) - FirstHead
      /\ LastLength(1) = b + FirstHead
      /\ Default!IsImage(parts[1]) /\ Default!HasNoFill(parts[1])
  BY <1>2, <1>3, LevelParts DEF Images
<1>5. pos = 0 /\ End(1 - 1) = 0
  BY <1>2 DEF Passed, End
<1>6. Start(1) = FirstHead /\ End(1) = FirstHead + b
  <2> HIDE DEF b
  <2> QED
    BY <1>4, <1>5
<1> HIDE DEF b
<1>7. pos \in Nat /\ pos >= End(1 - 1) /\ pos + 2 <= End(1)
  BY <1>4, <1>5, <1>6
<1>8. pos \in 0..Len(data) /\ FirstAhead(pos, m, ff, d9)
  BY <1>2, <1>3, <1>4, <1>7, EndAhead
<1>9. ff # d9
  OBVIOUS
<1>10. m + 2 = FirstHead + b /\ m + 2 <= NativeMaxLength
  BY <1>4, <1>5, <1>6
<1> HIDE DEF m, ff, d9
<1>11. eof.result = "found" /\ eof.read = m + 2
  BY <1>2, <1>8, <1>9, <1>10, SearchFound, SMTT(60)
<1> HIDE DEF eof
<1>12. mContentLength' = LastLength(1) /\ step' = "frame"
  BY <1>1, <1>4, <1>10, <1>11
<1>13. \A i : /\ Start(i)' = Start(i) /\ Until(i)' = Until(i)
              /\ Passed(i)' = Passed(i) /\ LastLength(i)' = LastLength(i)
  BY <1>1, NativeSame
<1>14. Len(frames) = 0 /\ 0 + 1 = 1
  BY <1>2 DEF n
<1> QED
  BY <1>1, <1>2, <1>12, <1>13, <1>14 DEF Evenly

(* The step that reads the frame (MjpegInputStreamNative.java:225-239).    *)
LEMMA LevelReadFrame ==
  ASSUME NativeReading, Level, Evenly, Native!ReadFrame
  PROVE  Evenly'
<1> DEFINE n == Len(frames)
           k == n + 1
           start == mark + headerLen
           end == start + mContentLength
           frame == [first |-> start + 1, last |-> end]
<1>1. /\ step = "frame" /\ mark' = mark /\ headerLen' = headerLen /\ step' = "idle"
      /\ parts' = parts /\ data' = data /\ mContentLength' = mContentLength
      /\ \/ frames' = Append(frames, frame) /\ pos' = end
         \/ frames' = frames /\ pos' = Len(data)
         \/ mContentLength < 0
  BY DEF Native!ReadFrame, Native!Default!ReadFrame, Native!Default!Fail,
         Native!Default!FailKnowing
<1>2. /\ n < Len(parts) /\ start = Start(k) /\ mContentLength = LastLength(k)
      /\ n \in Nat /\ Len(parts) \in Nat /\ frames \in Seq(Frame) /\ Streamed
  BY <1>1, NativeTypes DEF Evenly, NativeReading
<1>3. k \in 1..Len(parts) /\ k # 0
  BY <1>2
<1> HIDE DEF n, k
<1>4. LastLength(k) \in Nat /\ Until(k) = Start(k) + LastLength(k)
  <2> DEFINE b == Len(parts[k].body)
  <2>1. /\ b \in Nat /\ FirstHead \in Nat
        /\ LastLength(k) = IF k = 1 THEN b + FirstHead ELSE b
        /\ Until(k) = Start(k) + LastLength(k)
    BY <1>2, <1>3, LevelParts
  <2> HIDE DEF b
  <2> QED
    BY <2>1
<1>5. end = Until(k) /\ frame = [first |-> Start(k) + 1, last |-> Until(k)]
  BY <1>2, <1>4
<1> HIDE DEF end, frame, start
<1>6. \A i : /\ Start(i)' = Start(i) /\ Until(i)' = Until(i)
             /\ Passed(i)' = Passed(i) /\ LastLength(i)' = LastLength(i)
  BY <1>1, NativeSame
<1>7. CASE frames' = frames /\ pos' = Len(data)
  BY <1>1, <1>6, <1>7 DEF Evenly
<1>8. CASE frames' = Append(frames, frame) /\ pos' = end
  <2>1. /\ Len(frames') = k /\ frames'[k] = frame
        /\ \A i \in 1..n : frames'[i] = frames[i]
    BY <1>2, <1>8 DEF n, k
  <2>2. pos' = Passed(k) /\ mContentLength' = LastLength(k)
    BY <1>1, <1>2, <1>3, <1>5, <1>8 DEF Passed
  <2>3. \A i \in 1..k : frames'[i] = [first |-> Start(i) + 1, last |-> Until(i)]
    <3>1. \A i \in 1..n : frames[i] = [first |-> Start(i) + 1, last |-> Until(i)]
      BY DEF Evenly, n
    <3>2. \A i \in 1..k : i \in 1..n \/ i = k
      BY <1>2 DEF k
    <3> QED
      BY <1>5, <2>1, <3>1, <3>2
  <2>4. k <= Len(parts)
    BY <1>3
  <2> QED
    BY <1>1, <1>6, <2>1, <2>2, <2>3, <2>4 DEF Evenly
<1>9. ~(mContentLength < 0)
  BY <1>2, <1>4
<1> QED
  BY <1>1, <1>7, <1>8, <1>9

(* Every step of the native reader keeps the frames even.                  *)
LEMMA LevelNext ==
  ASSUME NativeReading, Level, Evenly, Native!Next
  PROVE  Evenly'
BY LevelFindStart, LevelReadHeader, LevelFindEndNearby, LevelFindEndFromMark,
   LevelReadFrame
   DEF Native!Next

-----------------------------------------------------------------------------
(* Of a camera that does not announce lengths, and has no line in a body:  *)
(* no frame ends before its image does. A search that gives up goes on     *)
(* from the mark, unless the length before is so large that it takes the   *)
(* stream beyond the mark.                                                 *)
Wide == FirstHead + Native!endPos - 1 > NativeMaxLength
Reaches(start, length) ==
  /\ length >= 0
  /\ Placed(start + length) \/ start + length > Len(data)
  /\ \A i \in 1..Len(parts) : start = Start(i) => start + length >= End(i)
LongEnough ==
  /\ \A j \in 1..Len(frames), i \in 1..Len(parts) :
       frames[j].first = Start(i) + 1 => frames[j].last >= End(i)
  /\ step = "idle" => Placed(pos) \/ Wide
  /\ step \in {"header", "nearby"} => headerLen <= FirstHead \/ Wide
  /\ step = "anywhere" => headerLen <= FirstHead
  /\ step = "frame" => Reaches(mark + headerLen, mContentLength)

(* What depends on the camera alone does not change.                       *)
LEMMA ReachesSame ==
  ASSUME parts' = parts, data' = data
  PROVE  \A x, y : Reaches(x, y)' <=> Reaches(x, y)
<1>1. /\ \A p : Placed(p)' <=> Placed(p)
      /\ \A i : Start(i)' = Start(i) /\ End(i)' = End(i)
  BY NativeSame
<1> QED
  BY <1>1 DEF Reaches

(* The parts of such a camera.                                             *)
LEMMA HushedParts ==
  ASSUME Streamed, Hushed, NEW k \in 1..Len(parts)
  PROVE  LET b == Len(parts[k].body)
         IN  /\ FirstHead = Len(parts[k].head) /\ FirstHead \in Nat
             /\ b \in Nat /\ b >= 4 /\ FirstHead + b <= NativeMaxLength
             /\ Start(k) \in Nat /\ End(k) \in Nat /\ End(k) = Start(k) + b
             /\ End(k - 1) \in Nat /\ End(k - 1) = Start(k) - FirstHead
             /\ End(k) <= Len(data) /\ Len(data) \in Nat
             /\ data[End(k) - 1] = "FF" /\ data[End(k)] = "D9"
             /\ Default!IsImage(parts[k]) /\ Default!HasNoFill(parts[k])
<1> DEFINE b == Len(parts[k].body)
           H == FirstHead
           s == Start(k)
<1>1. /\ Images /\ H = Len(parts[k].head) /\ H + b <= NativeMaxLength
      /\ Default!HasNoFill(parts[k])
  BY CameraKinds
<1>2. Default!IsImage(parts[k])
  BY <1>1 DEF Images
<1>3. /\ H \in Nat /\ b \in Nat /\ b >= 4 /\ s \in Nat /\ End(k) = s + b
      /\ End(k - 1) = s - H /\ s >= H /\ End(k) <= Len(data) /\ Len(data) \in Nat
      /\ data[s + (b - 1)] = "FF" /\ data[s + b] = "D9"
  BY <1>1, <1>2, Pictured, PartAt
<1> HIDE DEF b, H, s
<1>4. /\ End(k) \in Nat /\ End(k - 1) \in Nat /\ End(k) - 1 = s + (b - 1)
      /\ End(k) = s + b
  BY <1>3
<1>5. data[End(k) - 1] = "FF" /\ data[End(k)] = "D9"
  BY <1>3, <1>4
<1> QED
  BY <1>1, <1>2, <1>3, <1>4, <1>5 DEF b, H, s

(* A start marker is that of an image.                                     *)
LEMMA StartOfImage ==
  ASSUME Streamed, Images, NEW start \in Nat, StartsAt(start)
  PROVE  \E k \in 1..Len(parts) : start = Start(k)
<1>1. /\ start + 2 <= Len(data) /\ data[start + 1] = "FF" /\ data[start + 2] = "D8"
      /\ Len(data) \in Nat
  BY Layout DEF StartsAt, Streamed
<1> DEFINE p == start + 1
<1>2. p \in Nat \ {0} /\ p + 1 <= Len(data) /\ p + 1 = start + 2
  BY <1>1
<1> HIDE DEF p
<1>3. data[p] = "FF" /\ data[p + 1] = "D8"
  BY <1>1, <1>2 DEF p
<1>4. PICK k \in 1..Len(parts) : p = Start(k) + 1
  BY <1>2, <1>3, Markers
<1>5. Start(k) \in Nat
  BY Pictured DEF Images
<1>6. start = Start(k)
  BY <1>4, <1>5 DEF p
<1> QED
  BY <1>6

(* An end marker is that of an image, and none lies within another.        *)
LEMMA EndOfImage ==
  ASSUME Streamed, Images, NEW q \in Nat, q >= 2, q <= Len(data),
         data[q - 1] = "FF", data[q] = "D9"
  PROVE  /\ \E k \in 1..Len(parts) : q = End(k)
         /\ \A i \in 1..Len(parts) : q >= Start(i) + 2 => q >= End(i)
<1> DEFINE p == q - 1
<1>1. p \in Nat \ {0} /\ p + 1 = q
  OBVIOUS
<1>2. data[p] = "FF" /\ data[p + 1] = "D9"
  BY <1>1
<1> HIDE DEF p
<1>3. \E k \in 1..Len(parts) : q = End(k)
  BY <1>1, <1>2, Markers
<1>4. ASSUME NEW i \in 1..Len(parts), q >= Start(i) + 2, ~(q >= End(i)) PROVE FALSE
  <2> DEFINE s == Start(i)
             b == Len(parts[i].body)
             j == p - s
  <2>1. /\ s \in Nat /\ b \in Nat /\ End(i) = s + b
        /\ \A x \in 1..(b - 1) : data[s + x] = "FF" =>
             /\ data[s + (x + 1)] = "D9" => x = b - 1
    BY Pictured DEF Images
  <2>2. q >= s + 2 /\ ~(q >= End(i))
    BY <1>4
  <2> HIDE DEF s, b
  <2>3. j \in 1..(b - 1) /\ s + j = p /\ s + (j + 1) = p + 1
    BY <1>1, <2>1, <2>2
  <2> HIDE DEF j
  <2>4. j = b - 1
    BY <1>2, <2>1, <2>3
  <2> QED
    BY <1>1, <2>1, <2>2, <2>3, <2>4
<1> QED
  BY <1>3, <1>4

(* As far behind an image as a head is long, the reader is placed.         *)
LEMMA PlacedBehind ==
  ASSUME Streamed, Hushed, NEW k \in 1..Len(parts), NEW h \in 0..FirstHead
  PROVE  Placed(End(k) + h) \/ End(k) + h > Len(data)
<1>1. FirstHead \in Nat /\ End(k) \in Nat /\ h \in Nat /\ h <= FirstHead
  BY HushedParts
<1>2. Len(parts) \in Nat /\ Len(data) = End(Len(parts))
  BY Layout DEF Streamed
<1>3. CASE k = Len(parts)
  BY <1>1, <1>2, <1>3 DEF Placed
<1>4. CASE k # Len(parts)
  <2> DEFINE i == k + 1
  <2>1. i \in 1..Len(parts) /\ i - 1 = k
    BY <1>2, <1>4
  <2> HIDE DEF i
  <2>2. End(k) = Start(i) - FirstHead /\ Start(i) \in Nat
    BY <2>1, HushedParts
  <2>3. End(k) + h \in (Start(i) - FirstHead)..Start(i)
    BY <1>1, <2>2
  <2> QED
    BY <2>1, <2>3 DEF Placed
<1> QED
  BY <1>3, <1>4

(* The step to the start marker (MjpegInputStreamNative.java:182-198).     *)
LEMMA HushedFindStart ==
  ASSUME NativeReading, Hushed, LongEnough, Native!FindStart
  PROVE  LongEnough'
<1> DEFINE ff == "FF"
           d8 == "D8"
           soi == Default!SearchUpTo(<<ff, d8>>, pos, NativeMaxLength)
           start == pos + (soi.read - 2)
<1>1. /\ step = "idle" /\ mark' = pos /\ parts' = parts /\ data' = data
      /\ frames' = frames /\ mContentLength' = mContentLength
      /\ \/ /\ soi.result = "found" /\ headerLen' = soi.read - 2 /\ step' = "header"
         \/ /\ soi.result # "found" /\ step' = "idle"
            /\ pos' \in {pos, mark} /\ pos' = pos
  BY Aliases DEF Native!FindStart, Native!Fail, Native!FailKnowing, Native!Default!Fail,
                 Native!Default!FailKnowing,
         Native!Default!Search, Native!Default!Start
<1>2. /\ pos \in Nat /\ Len(data) \in Nat /\ pos \in 0..Len(data) /\ data \in Seq(Cell)
      /\ Streamed /\ NativeMaxLength \in Nat /\ ff # d8
  BY NativeTypes DEF NativeReading
<1>3. /\ FirstHead' = FirstHead /\ (Wide' <=> Wide)
      /\ \A p : Placed(p)' <=> Placed(p)
      /\ \A i : Start(i)' = Start(i) /\ End(i)' = End(i)
  BY <1>1, NativeSame DEF Wide, Native!endPos
<1>4. Placed(pos) \/ Wide
  BY <1>1 DEF LongEnough
<1>5. ASSUME soi.result = "found" PROVE headerLen' <= FirstHead \/ Wide
  <2>1. CASE Wide
    BY <2>1
  <2>2. CASE pos = Len(data)
    BY <1>2, <1>5, <2>2, NextNothing
  <2>3. CASE \E k \in 1..Len(parts) : pos \in (Start(k) - FirstHead)..Start(k)
    <3>1. PICK k \in 1..Len(parts) : pos \in (Start(k) - FirstHead)..Start(k)
      BY <2>3
    <3>2. /\ Default!IsImage(parts[k])
          /\ Len(parts[k].head) + Len(parts[k].body) <= NativeMaxLength
          /\ FirstHead \in Nat /\ Start(k) \in Nat /\ End(k - 1) = Start(k) - FirstHead
      BY <1>2, HushedParts
    <3>3. pos >= End(k - 1) /\ pos <= Start(k)
      BY <1>2, <3>1, <3>2
    <3>4. pos + (soi.read - 2) = Start(k)
      BY <1>2, <3>2, <3>3, NextHead
    <3> HIDE DEF soi
    <3>5. headerLen' = soi.read - 2
      BY <1>1, <1>5
    <3> DEFINE h == headerLen'
    <3>6. pos + h = Start(k)
      BY <3>4, <3>5
    <3>7. h \in Nat
      <4>1. Native!TypeOK'
        BY NativeFindStart DEF NativeReading
      <4> QED
        BY <1>2, <4>1 DEF Native!TypeOK
    <3> HIDE DEF h
    <3>8. h <= FirstHead
      BY <1>2, <3>1, <3>2, <3>6, <3>7
    <3> QED
      BY <3>8 DEF h
  <2> QED
    BY <1>4, <2>1, <2>2, <2>3 DEF Placed
<1> HIDE DEF soi
<1> QED
  BY <1>1, <1>3, <1>4, <1>5 DEF LongEnough

(* The step that parses the header: there is no line in what the search    *)
(* gave up (MjpegInputStreamNative.java:198-219).                          *)
LEMMA HushedReadHeader ==
  ASSUME NativeReading, Hushed, LongEnough, Native!ReadHeader
  PROVE  LongEnough'
<1> DEFINE start == mark + headerLen
           header == SubSeq(data, mark + 1, start)
<1>1. /\ step = "header" /\ mark' = mark /\ headerLen' = headerLen
      /\ parts' = parts /\ data' = data /\ frames' = frames
      /\ Default!ParseContentLength(header) = NotANumber =>
           step' = "nearby" /\ mContentLength' = mContentLength
  BY Aliases DEF Native!ReadHeader
<1>2. mark \in Nat /\ headerLen \in Nat /\ start \in Nat /\ mark <= start /\ Streamed
  BY NativeTypes DEF NativeReading
<1>3. StartsAt(start)
  BY <1>1 DEF NativeReading
<1>4. /\ Images /\ Lineless
      /\ \A i \in 1..Len(parts) : ~Default!Announces(parts[i])
  BY <1>2, CameraKinds
<1> HIDE DEF start
<1>5. PICK k \in 1..Len(parts) : start = Start(k)
  BY <1>2, <1>3, <1>4, StartOfImage
<1>6. Default!ParseContentLength(header) = NotANumber
  BY <1>2, <1>4, <1>5, Unread
<1>7. step' = "nearby" /\ mContentLength' = mContentLength
  BY <1>1, <1>6
<1>8. /\ FirstHead' = FirstHead /\ (Wide' <=> Wide)
      /\ \A i : Start(i)' = Start(i) /\ End(i)' = End(i)
  BY <1>1, <1>7, NativeSame DEF Wide, Native!endPos
<1> QED
  BY <1>1, <1>7, <1>8 DEF LongEnough

(* The search from the mark (MjpegInputStreamNative.java:206-210,          *)
(* 215-219).                                                               *)
LEMMA HushedFindEndFromMark ==
  ASSUME NativeReading, Hushed, LongEnough, Native!FindEndFromMark
  PROVE  LongEnough'
<1> DEFINE ff == "FF"
           d9 == "D9"
           eof == Default!SearchUpTo(<<ff, d9>>, pos, NativeMaxLength)
           start == mark + headerLen
<1>1. /\ step = "anywhere" /\ mark' = mark /\ headerLen' = headerLen
      /\ parts' = parts /\ data' = data /\ frames' = frames
      /\ eof.result = "found" => mContentLength' = eof.read /\ step' = "frame"
  BY Aliases DEF Native!FindEndFromMark, Native!Fail, Native!FailKnowing, Native!Default!Fail,
                 Native!Default!FailKnowing,
                 Native!Default!Search
<1>2. /\ mark \in Nat /\ headerLen \in Nat /\ start \in Nat /\ pos = mark /\ Streamed
      /\ data \in Seq(Cell) /\ Len(data) \in Nat /\ NativeMaxLength \in Nat
      /\ headerLen <= FirstHead /\ ff # d9
  BY <1>1, NativeTypes DEF NativeReading, LongEnough
<1>3. StartsAt(start) /\ Images
  BY <1>1, <1>2, CameraKinds DEF NativeReading
<1> HIDE DEF start
<1>4. PICK k \in 1..Len(parts) : start = Start(k)
  BY <1>2, <1>3, StartOfImage
<1> DEFINE b == Len(parts[k].body)
           m == End(k) - pos - 2
<1>5. /\ FirstHead \in Nat /\ b \in Nat /\ b >= 4 /\ FirstHead + b <= NativeMaxLength
      /\ Start(k) \in Nat /\ End(k) \in Nat /\ End(k) = Start(k) + b
      /\ End(k - 1) = Start(k) - FirstHead /\ End(k) <= Len(data)
      /\ data[End(k) - 1] = "FF" /\ data[End(k)] = "D9"
      /\ Default!IsImage(parts[k]) /\ Default!HasNoFill(parts[k])
  BY <1>2, HushedParts
<1> HIDE DEF b
<1>6. Start(k) = pos + headerLen
  BY <1>2, <1>4 DEF start
<1>7. pos >= End(k - 1) /\ pos + 2 <= End(k) /\ pos \in Nat
  BY <1>2, <1>5, <1>6
<1>8. pos \in 0..Len(data) /\ FirstAhead(pos, m, ff, d9)
  BY <1>2, <1>5, <1>7, EndAhead
<1>9. m + 2 = headerLen + b /\ m + 2 <= NativeMaxLength
  BY <1>2, <1>5, <1>6
<1> HIDE DEF m, ff, d9
<1>10. eof.result = "found" /\ eof.read = m + 2
  BY <1>2, <1>8, <1>9, SearchFound, SMTT(60)
<1> HIDE DEF eof
<1>11. mContentLength' = headerLen + b /\ step' = "frame"
  BY <1>1, <1>9, <1>10
<1> DEFINE length == headerLen + b
<1>12. start + length = End(k) + headerLen /\ length >= 0
  BY <1>2, <1>4, <1>5
<1>13. Reaches(start, length)
  <2>1. headerLen \in 0..FirstHead
    BY <1>2, <1>5
  <2>2. Placed(End(k) + headerLen) \/ End(k) + headerLen > Len(data)
    BY <1>2, <2>1, PlacedBehind
  <2>3. ASSUME NEW i \in 1..Len(parts), start = Start(i) PROVE start + length >= End(i)
    <3>1. End(k) >= 2 /\ End(k) >= Start(i) + 2
      BY <1>4, <1>5, <2>3, SMTT(30)
    <3>2. End(k) >= End(i) /\ End(i) \in Nat
      BY <1>2, <1>3, <1>5, <3>1, EndOfImage, HushedParts
    <3> HIDE DEF length
    <3> QED
      BY <1>2, <1>5, <1>12, <3>2, SMTT(30)
  <2> HIDE DEF length
  <2> QED
    BY <1>12, <2>2, <2>3 DEF Reaches
<1>14. \A x, y : Reaches(x, y)' <=> Reaches(x, y)
  BY <1>1, ReachesSame
<1>15. mark' + headerLen' = start /\ mContentLength' = length
  BY <1>1, <1>11 DEF start
<1> HIDE DEF length
<1>16. step' = "frame" => Reaches(mark' + headerLen', mContentLength')
  BY <1>13, <1>15
<1>17. \A i : Start(i)' = Start(i) /\ End(i)' = End(i)
  BY <1>1, NativeSame
<1> QED
  BY <1>1, <1>11, <1>14, <1>16, <1>17 DEF LongEnough

(* The search around the last length. What it finds is the end of an       *)
(* image, before the mark is lost or after. If it gives up before, the     *)
(* header is no longer than a head, and if only after, the last length was *)
(* too large for the mark, or the connection ends (MjpegInputStreamNative.java:79-102).      *)
LEMMA HushedFindEndNearby ==
  ASSUME NativeReading, Hushed, LongEnough, Native!FindEndNearby
  PROVE  LongEnough'
<1> DEFINE ff == "FF"
           d9 == "D9"
           N == NativeMaxLength
           s == Native!startPos
           e == Native!endPos
           skip == Native!Skipped
           from == pos + skip
           limit == Native!Max({e - s, 0})
           eof == Default!SearchUpTo(<<ff, d9>>, from, limit)
           result == eof.result
           read == eof.read
           end == from + read
           rest == Len(data) - pos
           H == FirstHead
<1>1. /\ step = "nearby" /\ mark' = mark /\ headerLen' = headerLen
      /\ parts' = parts /\ data' = data /\ frames' = frames
      /\ \/ /\ result = "found" /\ step' = "frame"
            /\ mContentLength' = -1 + s + read
         \/ /\ result = "-1" /\ step' = "anywhere"
            /\ mContentLength' = mContentLength /\ end - mark <= N
         \/ result = "found" /\ step' = "idle" /\ pos' = end
         \/ /\ result = "EOFException" \/ (result = "-1" /\ ~(end - mark <= N))
            /\ step' = "idle" /\ mContentLength' = mContentLength /\ pos' = end
  BY Aliases DEF Native!FindEndNearby, Native!EndNearby, Native!Fail, Native!FailKnowing, Native!Default!Fail,
                 Native!Default!FailKnowing,
                 Native!LengthNearby, Native!HeaderLenField, Native!Default!MarkedAt
<1>2. /\ pos = mark + headerLen /\ pos \in Nat /\ pos <= Len(data) /\ mark \in Nat
      /\ headerLen \in Nat /\ headerLen <= N /\ N \in Nat
      /\ data \in Seq(Cell) /\ Len(data) \in Nat /\ Streamed
      /\ mContentLength \in Int /\ ff # d9
  BY <1>1, NativeTypes DEF NativeReading
<1>3. headerLen <= H \/ Wide
  BY <1>1 DEF LongEnough
<1>4. Images
  BY <1>2, CameraKinds
<1>5. PICK k \in 1..Len(parts) : pos = Start(k)
  BY <1>1, <1>2, <1>4, StartOfImage DEF NativeReading
<1>6. H \in Nat /\ H + 4 <= N
  <2> DEFINE b == Len(parts[k].body)
  <2>1. H \in Nat /\ b \in Nat /\ b >= 4 /\ H + b <= N
    BY <1>2, HushedParts
  <2> HIDE DEF b, H, N
  <2> QED
    BY <1>2, <2>1
<1>7. /\ s \in Nat /\ e \in Int
      /\ limit = IF e >= s THEN e - s ELSE 0
      /\ limit \in Nat
      /\ s = 0 => limit <= 1 /\ skip = 0
      /\ s > 0 => skip = IF s - 1 <= rest THEN s - 1 ELSE rest
      /\ mContentLength < 0 => s = 0 /\ limit = 0
      /\ mContentLength >= 0 => /\ s = mContentLength \div 2
                                /\ e = (3 * mContentLength) \div 2
      /\ skip \in Nat /\ from \in 0..Len(data)
  BY Window
<1>8. e < 0 \/ mContentLength >= 0
  BY <1>2 DEF Native!endPos
<1> HIDE DEF ff, d9, N, s, e, skip, limit, H
<1>9. /\ result \in {"found", "EOFException", "-1"}
      /\ read \in Nat /\ read <= limit /\ end <= Len(data)
      /\ result = "found" => /\ read >= 2
                             /\ data[end - 1] = ff
                             /\ data[end] = d9
      /\ result = "EOFException" => end = Len(data)
      /\ result = "-1" => read = limit
  <2> HIDE DEF from
  <2>1. /\ result \in {"found", "EOFException", "-1"}
        /\ read \in 0..limit /\ from + read <= Len(data)
        /\ result = "found" => /\ read >= 2
                               /\ data[from + read - 1] = ff
                               /\ data[from + read] = d9
        /\ result = "EOFException" => from + read = Len(data)
    BY <1>2, <1>7, SearchResult, SMTT(60)
  <2>2. result = "-1" => read = limit
    BY <1>2, <1>7, SearchGivesUp, SMTT(60)
  <2>3. read \in Nat /\ read <= limit
    <3> HIDE DEF read
    <3> QED
      BY <1>7, <2>1
  <2>4. from + read - 1 = end - 1
    <3>1. from \in Nat
      BY <1>2, <1>7
    <3> HIDE DEF read
    <3> QED
      BY <2>3, <3>1
  <2> HIDE DEF read, result
  <2> QED
    BY <2>1, <2>2, <2>3, <2>4
<1> HIDE DEF result, read
<1>10. /\ \A p : Placed(p)' <=> Placed(p)
       /\ \A i : Start(i)' = Start(i) /\ End(i)' = End(i)
       /\ FirstHead' = FirstHead
       /\ \A x, y : Reaches(x, y)' <=> Reaches(x, y)
  BY <1>1, NativeSame, ReachesSame
<1>11. end \in Nat
  BY <1>2, <1>7, <1>9
<1>12. ASSUME result = "found"
       PROVE  /\ Placed(end) \/ end > Len(data)
              /\ \A i \in 1..Len(parts) : end >= Start(i) + 2 => end >= End(i)
  <2>1. end >= 2
    BY <1>2, <1>7, <1>9, <1>12
  <2>2. data[end - 1] = "FF" /\ data[end] = "D9"
    BY <1>9, <1>12 DEF ff, d9
  <2> HIDE DEF end
  <2>3. /\ \E i \in 1..Len(parts) : end = End(i)
        /\ \A i \in 1..Len(parts) : end >= Start(i) + 2 => end >= End(i)
    BY <1>2, <1>4, <1>9, <1>11, <2>1, <2>2, EndOfImage
  <2>4. PICK i \in 1..Len(parts) : end = End(i)
    BY <2>3
  <2>5. Placed(End(i) + 0) \/ End(i) + 0 > Len(data)
    BY <1>2, <1>6, PlacedBehind DEF H
  <2>6. End(i) + 0 = end
    BY <1>11, <2>4
  <2> QED
    BY <2>3, <2>5, <2>6
<1> HIDE DEF rest
<1>13. ASSUME limit > 0, s > 0, from + limit <= Len(data)
       PROVE  skip = s - 1 /\ from = pos + s - 1
  <2>1. skip # rest
    BY <1>2, <1>7, <1>13 DEF rest
  <2>2. skip = s - 1
    BY <1>7, <1>13, <2>1
  <2> QED
    BY <1>2, <1>7, <2>2
<1>14. CASE result = "found" /\ step' = "frame" /\ mContentLength' = -1 + s + read
  <2>1. limit >= 2 /\ s > 0
    BY <1>7, <1>9, <1>14
  <2>2. skip = s - 1
    <3>1. read >= 2 /\ end <= Len(data)
      BY <1>9, <1>14
    <3>2. skip # rest
      BY <1>2, <1>7, <1>9, <3>1 DEF rest
    <3> QED
      BY <1>7, <2>1, <3>2
  <2> DEFINE length == -1 + s + read
  <2>3. length \in Nat /\ pos + length = end /\ end >= pos + 2
    BY <1>2, <1>7, <1>9, <1>14, <2>1, <2>2
  <2> HIDE DEF end, length
  <2>4. Reaches(pos, length)
    <3>1. Placed(pos + length) \/ pos + length > Len(data)
      BY <1>12, <1>14, <2>3
    <3>2. ASSUME NEW i \in 1..Len(parts), pos = Start(i) PROVE pos + length >= End(i)
      BY <1>12, <1>14, <2>3, <3>2
    <3> QED
      BY <2>3, <3>1, <3>2 DEF Reaches
  <2>5. mark' + headerLen' = pos /\ mContentLength' = length
    BY <1>1, <1>2, <1>14 DEF length
  <2>6. step' = "frame" => Reaches(mark' + headerLen', mContentLength')
    BY <2>4, <2>5
  <2> QED
    BY <1>1, <1>10, <1>14, <2>6 DEF LongEnough
<1>15. CASE /\ result = "-1" /\ step' = "anywhere"
            /\ mContentLength' = mContentLength /\ end - mark <= N
  <2>1. ASSUME ~(headerLen <= H) PROVE FALSE
    <3>1. H + e - 1 > N
      BY <1>3, <2>1 DEF Wide, H, e, N
    <3>2. e >= 5
      BY <1>2, <1>6, <1>7, <3>1
    <3>3. mContentLength >= 0 /\ s = mContentLength \div 2
          /\ e = (3 * mContentLength) \div 2
      BY <1>7, <1>8, <3>2
    <3>4. s > 0 /\ e > s
      BY <1>2, <3>2, <3>3
    <3>5. limit = e - s /\ limit > 0 /\ read = limit
      BY <1>7, <1>9, <1>15, <3>4
    <3>6. from = pos + s - 1
      BY <1>9, <1>13, <3>4, <3>5
    <3>7. end = (pos + e) - 1
      BY <1>2, <1>7, <3>5, <3>6
    <3>8. end - mark = (headerLen + e) - 1
      <4> HIDE DEF end
      <4> QED
        BY <1>2, <1>7, <3>7
    <3> HIDE DEF end
    <3> QED
      BY <1>2, <1>6, <1>7, <1>11, <1>15, <2>1, <3>1, <3>8
  <2>2. headerLen' <= FirstHead
    BY <1>1, <2>1 DEF H
  <2> QED
    BY <1>1, <1>10, <1>15, <2>2 DEF LongEnough
<1>16. CASE /\ result = "EOFException" \/ (result = "-1" /\ ~(end - mark <= N))
            /\ step' = "idle" /\ mContentLength' = mContentLength /\ pos' = end
  <2>1. Placed(end) \/ Wide
    <3>1. CASE result = "EOFException"
      BY <1>9, <3>1 DEF Placed
    <3>2. CASE result = "-1" /\ ~(end - mark <= N)
      <4>1. read = limit
        BY <1>9, <3>2
      <4>2. CASE headerLen <= H
        <5>1. s > 0
          <6>1. ASSUME s = 0 PROVE FALSE
            <7>1. limit <= 1 /\ skip = 0
              BY <1>7, <6>1
            <7>2. end - mark = headerLen + read
              BY <1>2, <1>9, <7>1
            <7> HIDE DEF end
            <7> QED
              BY <1>2, <1>6, <1>7, <1>9, <3>2, <4>1, <4>2, <7>1, <7>2
          <6> QED
            BY <1>7, <6>1
        <5>2. mContentLength >= 0 /\ s = mContentLength \div 2
              /\ e = (3 * mContentLength) \div 2
          BY <1>2, <1>7, <5>1
        <5>3. e > s
          BY <1>2, <5>1, <5>2
        <5>4. limit = e - s /\ limit > 0
          BY <1>7, <5>3
        <5>5. from = pos + s - 1
          BY <1>9, <1>13, <4>1, <5>1, <5>4
        <5>6. end = (pos + e) - 1
          BY <1>2, <1>7, <4>1, <5>4, <5>5
        <5> HIDE DEF end
        <5>7. end - mark = (headerLen + e) - 1
          BY <1>2, <1>7, <5>6
        <5>8. H + e - 1 > N
          BY <1>2, <1>6, <1>7, <1>11, <3>2, <4>2, <5>7
        <5> QED
          BY <5>8 DEF Wide, H, e, N
      <4> QED
        BY <1>3, <4>2
    <3> QED
      BY <1>16, <3>1, <3>2
  <2>2. Wide' <=> Wide
    BY <1>10, <1>16 DEF Wide, Native!endPos
  <2> QED
    BY <1>1, <1>10, <1>16, <2>1, <2>2 DEF LongEnough
<1>17. CASE result = "found" /\ step' = "idle" /\ pos' = end
  <2> HIDE DEF end
  <2>1. Placed(end)
    BY <1>2, <1>9, <1>11, <1>12, <1>17
  <2> QED
    BY <1>1, <1>10, <1>17, <2>1 DEF LongEnough
<1> QED
  BY <1>1, <1>14, <1>15, <1>16, <1>17

(* The step that reads the frame (MjpegInputStreamNative.java:225-239).    *)
LEMMA HushedReadFrame ==
  ASSUME NativeReading, Hushed, LongEnough, Native!ReadFrame
  PROVE  LongEnough'
<1> DEFINE n == Len(frames)
           start == mark + headerLen
           end == start + mContentLength
           frame == [first |-> start + 1, last |-> end]
<1>1. /\ step = "frame" /\ mark' = mark /\ headerLen' = headerLen /\ step' = "idle"
      /\ parts' = parts /\ data' = data /\ mContentLength' = mContentLength
      /\ \/ /\ frames' = Append(frames, frame) /\ pos' = end
            /\ mContentLength >= 0 /\ end <= Len(data)
         \/ frames' = frames /\ pos' = Len(data)
         \/ mContentLength < 0
  BY DEF Native!ReadFrame, Native!Default!ReadFrame, Native!Default!Fail,
         Native!Default!FailKnowing
<1>2. /\ n \in Nat /\ frames \in Seq(Frame) /\ start \in Nat /\ mContentLength \in Int
      /\ Len(data) \in Nat /\ Streamed
  BY NativeTypes DEF NativeReading
<1>3. Reaches(start, mContentLength)
  BY <1>1 DEF LongEnough
<1>4. \A j \in 1..n, i \in 1..Len(parts) :
        frames[j].first = Start(i) + 1 => frames[j].last >= End(i)
  BY DEF LongEnough
<1>5. /\ \A p : Placed(p)' <=> Placed(p)
      /\ \A i : Start(i)' = Start(i) /\ End(i)' = End(i)
  BY <1>1, NativeSame
<1> HIDE DEF start
<1>6. CASE frames' = frames /\ pos' = Len(data)
  <2>1. Placed(pos')
    BY <1>6 DEF Placed
  <2> QED
    BY <1>1, <1>4, <1>5, <1>6, <2>1 DEF LongEnough, n
<1>7. CASE /\ frames' = Append(frames, frame) /\ pos' = end
           /\ mContentLength >= 0 /\ end <= Len(data)
  <2>1. end \in Nat
    BY <1>2, <1>7
  <2>2. /\ Len(frames') = n + 1 /\ frames'[n + 1] = frame
        /\ \A j \in 1..n : frames'[j] = frames[j]
    BY <1>2, <1>7 DEF n
  <2>3. frame.first = start + 1 /\ frame.last = end
    OBVIOUS
  <2>4. /\ Placed(end) \/ end > Len(data)
        /\ \A i \in 1..Len(parts) : start = Start(i) => end >= End(i)
    BY <1>3 DEF Reaches
  <2> HIDE DEF end, frame, n
  <2>5. Placed(pos')
    BY <1>2, <1>7, <2>1, <2>4
  <2>6. ASSUME NEW j \in 1..(n + 1), NEW i \in 1..Len(parts),
               frames'[j].first = Start(i) + 1
        PROVE  frames'[j].last >= End(i)
    <3>1. CASE j = n + 1
      <4>1. start + 1 = Start(i) + 1
        BY <2>2, <2>3, <2>6, <3>1
      <4>2. Start(i) \in Nat
        BY <1>2, HushedParts
      <4>3. start = Start(i)
        BY <1>2, <4>1, <4>2
      <4> QED
        BY <2>2, <2>3, <2>4, <3>1, <4>3
    <3>2. CASE j # n + 1
      <4>1. j \in 1..n
        BY <1>2, <3>2
      <4> QED
        BY <1>4, <2>2, <2>6, <4>1
    <3> QED
      BY <3>1, <3>2
  <2> QED
    BY <1>1, <1>5, <2>2, <2>5, <2>6 DEF LongEnough
<1>8. mContentLength >= 0
  BY <1>3 DEF Reaches
<1> QED
  BY <1>1, <1>2, <1>6, <1>7, <1>8

(* Every step of the native reader keeps the frames long enough.           *)
LEMMA HushedNext ==
  ASSUME NativeReading, Hushed, LongEnough, Native!Next
  PROVE  LongEnough'
BY HushedFindStart, HushedReadHeader, HushedFindEndNearby, HushedFindEndFromMark,
   HushedReadFrame
   DEF Native!Next

-----------------------------------------------------------------------------
(* The native reader, whatever the camera sends and before each of those   *)
(* it is made for.                                                         *)
NativeInv ==
  /\ NativeReading
  /\ Exact => ExactInOrder
  /\ Level => Evenly
  /\ Hushed => LongEnough

(* The invariant holds when the connection is opened.                      *)
LEMMA NativeInitInv ==
  ASSUME Native!Init
  PROVE  NativeInv
<1>1. pos = 0 /\ step = "idle" /\ mContentLength = -1 /\ frames = <<>> /\ outcome = "none"
  BY DEF Native!Init, Native!Default!Init
<1>2. NativeReading /\ Streamed
  BY NativeInit DEF NativeReading
<1>3. Len(frames) = 0 /\ Len(parts) \in Nat
  BY <1>1, <1>2, NativeTypes
<1>4. ExactInOrder
  BY <1>1, <1>3 DEF ExactInOrder, End
<1>5. Evenly
  BY <1>1, <1>3 DEF Evenly, Passed, LastLength
<1>6. Hushed => LongEnough
  <2> SUFFICES ASSUME Hushed PROVE LongEnough
    OBVIOUS
  <2>1. Placed(0)
    <3>1. CASE Len(parts) = 0
      <4>1. Len(data) = 0
        BY <1>2, <3>1, Layout DEF Streamed, End
      <4> QED
        BY <4>1 DEF Placed
    <3>2. CASE Len(parts) # 0
      <4>1. 1 \in 1..Len(parts)
        BY <1>3, <3>2
      <4>2. FirstHead \in Nat /\ Start(1) \in Nat /\ End(1 - 1) = Start(1) - FirstHead
        BY <1>2, <4>1, HushedParts
      <4>3. End(1 - 1) = 0
        BY DEF End
      <4>4. 0 \in (Start(1) - FirstHead)..Start(1)
        BY <4>2, <4>3
      <4> QED
        BY <4>1, <4>4 DEF Placed
    <3> QED
      BY <3>1, <3>2
  <2> QED
    BY <1>1, <1>3, <2>1 DEF LongEnough
<1> QED
  BY <1>2, <1>4, <1>5, <1>6 DEF NativeInv

(* Every step of the native reader preserves it.                           *)
LEMMA NativeNextInv ==
  ASSUME NativeInv, Native!Next
  PROVE  NativeInv'
<1>1. parts' = parts /\ data' = data
  BY DEF Native!Next, Native!FindStart, Native!ReadHeader, Native!FindEndNearby,
         Native!FindEndFromMark, Native!ReadFrame, Native!Default!ReadFrame,
         Native!Fail, Native!FailKnowing, Native!Default!Fail,
                 Native!Default!FailKnowing
<1>2. (Exact' <=> Exact) /\ (Level' <=> Level) /\ (Hushed' <=> Hushed)
  BY <1>1, NativeSame
<1> QED
  BY <1>2, NativeNext, ExactNext, LevelNext, HushedNext DEF NativeInv

(* A step that changes nothing preserves it.                               *)
LEMMA NativeStutter ==
  ASSUME NativeInv, UNCHANGED vars
  PROVE  NativeInv'
<1>1. /\ parts' = parts /\ data' = data /\ pos' = pos
      /\ mark' = mark /\ step' = step /\ headerLen' = headerLen
      /\ mContentLength' = mContentLength /\ frames' = frames /\ outcome' = outcome
  BY DEF vars
<1>2. /\ Exact' <=> Exact
      /\ Level' <=> Level
      /\ Hushed' <=> Hushed
      /\ FirstHead' = FirstHead
      /\ \A k : Until(k)' = Until(k) /\ Passed(k)' = Passed(k)
      /\ \A k : LastLength(k)' = LastLength(k)
      /\ \A p : Placed(p)' <=> Placed(p)
      /\ \A k : Start(k)' = Start(k) /\ End(k)' = End(k)
      /\ \A x, y : Reaches(x, y)' <=> Reaches(x, y)
  BY <1>1, NativeSame, ReachesSame
<1>3. NativeReading'
  <2>1. Native!TypeOK'
    BY <1>1 DEF NativeInv, NativeReading, Native!TypeOK
  <2>2. (Streamed' <=> Streamed) /\ \A i : StartsAt(i)' <=> StartsAt(i)
    BY <1>1, Same
  <2> QED
    BY <1>1, <2>1, <2>2 DEF NativeInv, NativeReading
<1>4. ExactInOrder => ExactInOrder'
  BY <1>1, <1>2 DEF ExactInOrder
<1>5. Evenly => Evenly'
  BY <1>1, <1>2 DEF Evenly
<1>6. LongEnough => LongEnough'
  <2>1. Wide' <=> Wide
    BY <1>1, <1>2 DEF Wide, Native!endPos
  <2> QED
    BY <1>1, <1>2, <2>1 DEF LongEnough
<1> QED
  BY <1>2, <1>3, <1>4, <1>5, <1>6 DEF NativeInv

(* What the invariant says in the words of the specification.              *)
LEMMA NativeKeeps ==
  ASSUME NativeInv
  PROVE  /\ Native!TypeOK
         /\ Native!AnnouncedAreExact
         /\ Native!UnannouncedAreExactButFirst
         /\ Native!NeverTooShort
<1> DEFINE n == Len(frames)
<1>1. /\ NativeReading /\ Native!TypeOK /\ Streamed /\ frames \in Seq(Frame)
      /\ n \in Nat /\ DOMAIN frames = 1..n
      /\ Len(parts) \in Nat /\ DOMAIN parts = 1..Len(parts)
  BY NativeTypes DEF NativeInv, NativeReading, Streamed
<1>2. \A i \in 1..Len(parts) :
        /\ Native!Body(i) = [first |-> Start(i) + 1, last |-> End(i)]
        /\ End(i) \in Nat
  <2> TAKE i \in 1..Len(parts)
  <2>1. Default!Body(i) = [first |-> Start(i) + 1, last |-> End(i)]
    BY <1>1, PartAt
  <2>2. Native!Body(i) = Default!Body(i)
    BY PartAliases DEF Native!Body
  <2>3. End(i) \in Nat
    BY <1>1, Bodies DEF Streamed
  <2> QED
    BY <2>1, <2>2, <2>3
<1>3. Native!AnnouncedAreExact
  <2> SUFFICES ASSUME Exact
               PROVE  /\ frames = [i \in 1..n |-> Native!Body(i)]
                      /\ outcome = "-1" => n = Len(parts)
                      /\ outcome \notin {"crash", "IOException"}
    BY DEF Native!AnnouncedAreExact, Exact
  <2>1. /\ n <= Len(parts)
        /\ \A i \in 1..n : frames[i] = [first |-> Start(i) + 1, last |-> End(i)]
        /\ outcome \notin {"crash", "IOException"}
        /\ outcome = "-1" => n = Len(parts)
    BY DEF NativeInv, ExactInOrder
  <2> HIDE DEF n
  <2>2. \A i \in 1..n : i \in 1..Len(parts)
    <3> DEFINE np == Len(parts)
    <3>1. n \in Nat /\ np \in Nat /\ n <= np
      BY <1>1, <2>1
    <3> HIDE DEF np
    <3>2. \A i \in 1..n : i \in 1..np
      BY <3>1
    <3> QED
      BY <3>2 DEF np
  <2>3. \A i \in 1..n : frames[i] = Native!Body(i)
    BY <1>2, <2>1, <2>2
  <2>4. frames = [i \in 1..n |-> Native!Body(i)]
    <3>1. frames = [i \in 1..n |-> frames[i]]
      BY <1>1
    <3> QED
      BY <2>3, <3>1, Zenon
  <2> QED
    BY <2>1, <2>4
<1>4. Native!UnannouncedAreExactButFirst
  <2> SUFFICES ASSUME Level, NEW j \in 1..n
               PROVE  /\ frames[j].first = Native!Body(j).first
                      /\ frames[j].last = Native!Body(j).last +
                           (IF j = 1 THEN Len(parts[1].head) ELSE 0)
    BY <1>1 DEF Native!UnannouncedAreExactButFirst, Level
  <2>1. /\ n <= Len(parts)
        /\ frames[j] = [first |-> Start(j) + 1, last |-> Until(j)]
    BY DEF NativeInv, Evenly
  <2> HIDE DEF n
  <2>2. j \in 1..Len(parts)
    BY <1>1, <2>1
  <2>3. /\ Native!Body(j).first = Start(j) + 1 /\ Native!Body(j).last = End(j)
        /\ End(j) \in Nat
    BY <1>2, <2>2
  <2>4. /\ frames[j].first = Start(j) + 1
        /\ frames[j].last = IF j = 1 THEN End(1) + Len(parts[1].head) ELSE End(j)
    BY <2>1 DEF Until, FirstHead
  <2> QED
    BY <2>3, <2>4
<1>5. Native!NeverTooShort
  <2> SUFFICES ASSUME Hushed, NEW j \in 1..n, NEW i \in 1..Len(parts),
                      frames[j].first = Native!Body(i).first
               PROVE  frames[j].last >= Native!Body(i).last
    BY <1>1 DEF Native!NeverTooShort, Hushed
  <2>1. frames[j].first = Start(i) + 1 => frames[j].last >= End(i)
    BY DEF NativeInv, LongEnough
  <2>2. Native!Body(i).first = Start(i) + 1 /\ Native!Body(i).last = End(i)
    BY <1>2
  <2> QED
    BY <2>1, <2>2
<1> QED
  BY <1>1, <1>3, <1>4, <1>5

-----------------------------------------------------------------------------
(* Whichever reader reads.                                                 *)
Inv ==
  \/ reader = "default" /\ DefaultInv
  \/ reader = "native" /\ NativeInv

(* A step that changes nothing.                                            *)
LEMMA Stutter ==
  ASSUME Inv, UNCHANGED vars
  PROVE  Inv'
<1>1. /\ reader' = reader /\ parts' = parts /\ data' = data /\ pos' = pos
      /\ mark' = mark /\ step' = step /\ headerLen' = headerLen
      /\ mContentLength' = mContentLength /\ frames' = frames /\ outcome' = outcome
  BY DEF vars
<1>2. /\ Streamed' <=> Streamed
      /\ Confined' <=> Confined
      /\ \A k : /\ Start(k)' = Start(k) /\ End(k)' = End(k)
                /\ Taken(k)' = Taken(k) /\ Reached(k)' = Reached(k)
      /\ \A i : StartsAt(i)' <=> StartsAt(i)
      /\ \A i, start, length : Covers(i, start, length)' <=> Covers(i, start, length)
  BY <1>1, Same
<1>3. ASSUME DefaultInv PROVE DefaultInv'
  <2>1. Reading /\ Whole /\ (Confined => InOrder)
    BY <1>3 DEF DefaultInv
  <2>2. Default!TypeOK'
    BY <1>1, <2>1 DEF Reading, Default!TypeOK
  <2>3. Reading'
    BY <1>1, <1>2, <2>1, <2>2 DEF Reading
  <2>4. Whole'
    BY <1>1, <1>2, <2>1 DEF Whole
  <2>5. ASSUME InOrder PROVE InOrder'
    BY <1>1, <1>2, <2>5 DEF InOrder
  <2> QED
    BY <1>2, <2>1, <2>3, <2>4, <2>5 DEF DefaultInv
<1>4. ASSUME NativeInv PROVE NativeInv'
  BY <1>4, NativeStutter
<1> QED
  BY <1>1, <1>3, <1>4 DEF Inv

(* The invariant holds in every state of the specification.                *)
LEMMA Invariant == Spec => []Inv
<1>1. Init => Inv
  BY DefaultInit, NativeInitInv DEF Init, Inv
<1>2. Inv /\ [Next]_vars => Inv'
  <2> SUFFICES ASSUME Inv, [Next]_vars PROVE Inv'
    OBVIOUS
  <2>1. CASE UNCHANGED vars
    BY <2>1, Stutter
  <2>2. CASE UNCHANGED reader /\ reader = "default" /\ Default!Next
    BY <2>2, DefaultNext DEF Inv
  <2>3. CASE UNCHANGED reader /\ reader = "native" /\ Native!Next
    BY <2>3, NativeNextInv DEF Inv
  <2> QED
    BY <2>1, <2>2, <2>3 DEF Next
<1> QED
  BY <1>1, <1>2, PTL DEF Spec

(* The default reader returns every image of a camera that sends sound     *)
(* parts, whole, in order and once, and fails only at the end of the       *)
(* connection: for every size of the buffer, every such camera and any     *)
(* number of parts (MjpegInputStreamDefault.java:59-75).                   *)
THEOREM ExactlyTheImagesAlways == Spec => []ExactlyTheImages
<1>1. Inv => ExactlyTheImages
  BY DefaultKeeps DEF Inv, ExactlyTheImages
<1> QED
  BY <1>1, Invariant, PTL

(* Whatever a camera sends, the frames of both readers begin with a start  *)
(* marker; of the default reader those whose length is announced are       *)
(* whole, and a length that is short loses only its own image              *)
(* (MjpegInputStreamDefault.java:51-56, 61-72).                            *)
THEOREM DamageIsConfinedAlways == Spec => []DamageIsConfined
<1>1. Inv => DamageIsConfined
  <2>1. DefaultInv => Default!FramesStartAtMarker
    BY DefaultKeeps
  <2>2. NativeInv => Default!FramesStartAtMarker
    <3> SUFFICES ASSUME NativeReading PROVE Default!FramesStartAtMarker
      BY DEF NativeInv
    <3>1. data \in Seq(Cell)
      BY NativeTypes
    <3> QED
      BY <3>1, Starts DEF NativeReading
  <2> QED
    BY <2>1, <2>2, DefaultKeeps DEF Inv, DamageIsConfined
<1> QED
  BY <1>1, Invariant, PTL

(* Of a camera that announces the lengths of its sound parts the native    *)
(* reader returns every image, and of one that announces none all but the  *)
(* first, while they change little, or at least none cut short, if there   *)
(* are no lines in its bodies: for every size of the mark and any number   *)
(* of parts (MjpegInputStreamNative.java:79-249).                          *)
THEOREM NativeImagesAlways == Spec => []NativeImages
<1>1. Inv => NativeImages
  BY NativeKeeps DEF Inv, NativeImages
<1> QED
  BY <1>1, Invariant, PTL
=============================================================================
