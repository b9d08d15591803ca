-------------------------- MODULE WebRequestProofs --------------------------
(***************************************************************************)
(* Theorems about WebRequest for names and directories of any length and   *)
(* any size of a chunk.                                                    *)
(***************************************************************************)
EXTENDS WebRequest, SequenceTheorems, FiniteSetTheorems, TLAPS

(* From the read pointer on the array holds the name as it came, up to the *)
(* terminator: this is why from finds its way out of the loop.             *)
Unread ==
  /\ pc = "start" => to = 1 /\ from = 1
  /\ pc \in {"start", "decode"} =>
       /\ buf[Len(buf)] = 0
       /\ \A i \in from..Len(source) : buf[i] = source[i] /\ buf[i] # 0

(* A digit is worth 0 to 15.                                               *)
LEMMA DigitValue == \A c \in HexDigit : hextod(c) \in 0..15
BY DEF hextod, HexDigit, Digits, Upper, Lower

(* No character of a name is the terminator.                               *)
LEMMA NameChars == Letter \subseteq Byte /\ 0 \notin Letter
<1>1. 1..255 \subseteq Byte /\ 0 \notin 1..255
  BY DEF Byte
<1>2. Letter \subseteq 1..255
  BY WebRequestAssumption DEF Letter, Dot, Slash
<1> QED
  BY <1>1, <1>2

(* The index of the last of some names.                                    *)
LEMMA LastIndex == \A n, last \in Int : n >= 2 /\ last = n - 1 => n \in Nat /\ last \in -1 .. n - 1
OBVIOUS

(* An array that ends with the terminator.                                 *)
LEMMA Terminated ==
  ASSUME NEW s \in Seq(Letter)
  PROVE  /\ s \o <<0>> \in Seq(Byte) /\ Len(s \o <<0>>) = Len(s) + 1
         /\ (s \o <<0>>)[Len(s) + 1] = 0
         /\ \A i \in 1..Len(s) : (s \o <<0>>)[i] = s[i] /\ (s \o <<0>>)[i] # 0
<1>1. \A i \in 1..Len(s) : s[i] \in Letter
  OBVIOUS
<1>2. s \in Seq(Byte)
  BY NameChars, SeqMonotonic
<1>3. <<0>> \in Seq(Byte) /\ Len(<<0>>) = 1 /\ <<0>>[1] = 0
  BY DEF Byte
<1>4. \A i \in 1..Len(s) : s[i] # 0
  BY <1>1, NameChars
<1> QED
  BY <1>2, <1>3, <1>4

(* http_request begins with the name as it came, both pointers on its      *)
(* first character.                                                        *)
LEMMA InvInit == Init => TypeOK /\ Unread
<1> SUFFICES ASSUME Init PROVE TypeOK /\ Unread
  OBVIOUS
<1>1. source \in Seq(Letter)
  <2>1. PICK n \in 0..MaxName : source \in [1..n -> Char]
    BY DEF Init
  <2>2. n \in Nat
    BY <2>1, WebRequestAssumption
  <2> QED
    BY <2>1, <2>2 DEF Letter
<1>2. buf = source \o <<0>> /\ to = 1 /\ from = 1
  BY DEF Init
<1>3. /\ buf \in Seq(Byte) /\ Len(buf) = Len(source) + 1
      /\ buf[Len(buf)] = 0
      /\ \A i \in 1..Len(source) : buf[i] = source[i] /\ buf[i] # 0
  BY <1>1, <1>2, Terminated
<1>4. Len(source) \in Nat
  BY <1>1
<1>5. to \in 1..from /\ from \in 1..Len(buf)
  BY <1>2, <1>3, <1>4
<1>6. /\ files \in Nat /\ fileNums \in -1 .. files - 1
      /\ dirBuf \in Seq(Nat) /\ Len(dirBuf) <= ChunkSize
      /\ listed \in Seq(Nat) /\ answer \in Seq(Piece)
      /\ pc \in {"start"}
  BY WebRequestAssumption DEF Init
<1>7. TypeOK
  BY <1>1, <1>3, <1>5, <1>6 DEF TypeOK
<1>8. Unread
  BY <1>2, <1>3 DEF Unread
<1> QED
  BY <1>7, <1>8

(* Every step keeps the pointers in the name and the chunk in dirBuf.      *)
LEMMA InvNext == TypeOK /\ Unread /\ [Next]_vars => (TypeOK /\ Unread)'
<1> SUFFICES ASSUME TypeOK, Unread, [Next]_vars PROVE (TypeOK /\ Unread)'
  OBVIOUS
<1>0. /\ source \in Seq(Letter) /\ Len(source) \in Nat
      /\ buf \in Seq(Byte) /\ Len(buf) = Len(source) + 1
      /\ DOMAIN buf = 1..Len(buf)
      /\ to \in Nat /\ from \in Nat /\ 1 <= to /\ to <= from /\ from <= Len(buf)
  BY DEF TypeOK
<1>1. ASSUME NoLine \/ NotSupported PROVE (TypeOK /\ Unread)'
  BY <1>1 DEF NoLine, NotSupported, TypeOK, Unread, dirVars
<1>2. ASSUME RequestLine PROVE (TypeOK /\ Unread)'
  <2>1. source' \in Seq(Letter)
    <3>1. <<Dot, Slash>> \in Seq(Letter)
      BY DEF Letter
    <3> QED
      BY <1>0, <1>2, <3>1 DEF RequestLine
  <2>2. buf' = source' \o <<0>> /\ to' = 1 /\ from' = 1 /\ pc' = "decode"
    BY <1>2 DEF RequestLine, Unread
  <2>3. /\ buf' \in Seq(Byte) /\ Len(buf') = Len(source') + 1
        /\ buf'[Len(buf')] = 0
        /\ \A i \in 1..Len(source') : buf'[i] = source'[i] /\ buf'[i] # 0
    BY <2>1, <2>2, Terminated
  <2>4. to' \in 1..from' /\ from' \in 1..Len(buf')
    BY <2>1, <2>2, <2>3
  <2>5. TypeOK'
    BY <1>2, <2>1, <2>2, <2>3, <2>4 DEF TypeOK, RequestLine, dirVars
  <2>6. Unread'
    BY <2>2, <2>3 DEF Unread
  <2> QED
    BY <2>5, <2>6
<1>3. ASSUME DecodeEscape PROVE (TypeOK /\ Unread)'
  <2>1. /\ pc = "decode" /\ pc' = "decode" /\ source' = source
        /\ to' = to + 1 /\ from' = from + 3
        /\ buf[from] # 0 /\ AtEscape
    BY <1>3 DEF DecodeEscape
  <2>2. from <= Len(source)
    BY <1>0, <2>1 DEF Unread
  <2>3. buf[from + 1] # 0 /\ buf[from + 2] # 0
    BY <2>1 DEF AtEscape, HexDigit, Digits, Upper, Lower
  <2>4. from + 1 <= Len(source)
    BY <1>0, <2>1, <2>2, <2>3 DEF Unread
  <2>5. from + 2 <= Len(source)
    BY <1>0, <2>1, <2>3, <2>4 DEF Unread
  <2> DEFINE value == (hextod(buf[from + 1]) * 16 + hextod(buf[from + 2])) % 256
  <2>6. value \in Byte
    <3>1. hextod(buf[from + 1]) \in 0..15 /\ hextod(buf[from + 2]) \in 0..15
      BY <2>1, DigitValue DEF AtEscape
    <3> QED
      BY <3>1 DEF Byte
  <2>7. buf' = [buf EXCEPT ![to] = value]
    BY <1>3 DEF DecodeEscape
  <2> HIDE DEF value
  <2>8. buf' \in Seq(Byte) /\ Len(buf') = Len(buf)
    BY <1>0, <2>6, <2>7
  <2>9. \A i \in 1..Len(buf) : i > to => buf'[i] = buf[i]
    BY <1>0, <2>7
  <2>10. TypeOK'
    BY <1>0, <1>3, <2>1, <2>5, <2>8 DEF TypeOK, DecodeEscape, dirVars
  <2>11. Unread'
    BY <1>0, <2>1, <2>5, <2>8, <2>9 DEF Unread
  <2> QED
    BY <2>10, <2>11
<1>4. ASSUME CopyCharacter PROVE (TypeOK /\ Unread)'
  <2>1. /\ pc = "decode" /\ pc' = "decode" /\ source' = source
        /\ to' = to + 1 /\ from' = from + 1 /\ buf[from] # 0
        /\ buf' = [buf EXCEPT ![to] = buf[from]]
    BY <1>4 DEF CopyCharacter
  <2>2. from <= Len(source)
    BY <1>0, <2>1 DEF Unread
  <2>3. buf' \in Seq(Byte) /\ Len(buf') = Len(buf)
    BY <1>0, <2>1
  <2>4. \A i \in 1..Len(buf) : i > to => buf'[i] = buf[i]
    BY <1>0, <2>1
  <2>5. TypeOK'
    BY <1>0, <1>4, <2>1, <2>2, <2>3 DEF TypeOK, CopyCharacter, dirVars
  <2>6. Unread'
    BY <1>0, <2>1, <2>2, <2>3, <2>4 DEF Unread
  <2> QED
    BY <2>5, <2>6
<1>5. ASSUME Terminate PROVE (TypeOK /\ Unread)'
  <2>1. buf' \in Seq(Byte) /\ Len(buf') = Len(buf)
    BY <1>0, <1>5 DEF Terminate
  <2> QED
    BY <1>5, <2>1 DEF Terminate, TypeOK, Unread, dirVars
<1>6. ASSUME ClearTail PROVE (TypeOK /\ Unread)'
  <2>1. buf' \in Seq(Byte) /\ Len(buf') = Len(buf)
    <3>1. buf' = [buf EXCEPT ![to] = 0] \/ buf' = buf
      BY <1>6 DEF ClearTail
    <3>2. CASE buf' = [buf EXCEPT ![to] = 0]
      BY <1>0, <3>2 DEF Byte
    <3>3. CASE buf' = buf
      BY <1>0, <3>3
    <3> QED
      BY <3>1, <3>2, <3>3
  <2>2. to' \in 1..from' /\ from' \in 1..Len(buf')
    BY <1>0, <1>6, <2>1 DEF ClearTail
  <2> QED
    BY <1>6, <2>1, <2>2 DEF ClearTail, TypeOK, Unread, dirVars
<1>7. ASSUME NotFound \/ SendContent \/ ScandirFails PROVE (TypeOK /\ Unread)'
  <2>1. <<"404", "error.html">> \in Seq(Piece) /\ <<"200", "content">> \in Seq(Piece)
    BY DEF Piece
  <2>2. <<"200">> \in Seq(Piece) /\ <<"200", "dir_header.html">> \in Seq(Piece)
    BY DEF Piece
  <2>3. answer' \in Seq(Piece)
    BY <1>7, <2>1, <2>2 DEF NotFound, SendContent, ScandirFails
  <2> QED
    BY <1>7, <2>3 DEF NotFound, SendContent, ScandirFails, TypeOK, Unread, dirVars
<1>8. ASSUME Scandir PROVE (TypeOK /\ Unread)'
  <2>1. files' \in Nat /\ fileNums' \in -1 .. files' - 1
    <3>1. files' \in 2..MaxFiles /\ fileNums' = files' - 1 /\ MaxFiles \in Nat
      BY <1>8, WebRequestAssumption DEF Scandir
    <3>2. files' \in Int /\ files' >= 2 /\ fileNums' \in Int
      BY <3>1
    <3> QED
      BY <3>1, <3>2, LastIndex
  <2>2. answer' \in Seq(Piece)
    BY <1>8 DEF Scandir, Piece
  <2> QED
    BY <1>8, <2>1, <2>2 DEF Scandir, TypeOK, Unread
<1>9. ASSUME AddName PROVE (TypeOK /\ Unread)'
  <2>1. files' \in Nat /\ fileNums' \in -1 .. files' - 1
    BY <1>9 DEF AddName, TypeOK
  <2>2. dirBuf' \in Seq(Nat) /\ Len(dirBuf') <= ChunkSize
    BY <1>9, WebRequestAssumption DEF AddName, TypeOK
  <2> QED
    BY <1>9, <2>1, <2>2 DEF AddName, TypeOK, Unread
<1>10. ASSUME SendChunk PROVE (TypeOK /\ Unread)'
  <2>1. listed' \in Seq(Nat) /\ answer' \in Seq(Piece)
    BY <1>10 DEF SendChunk, TypeOK, Piece
  <2>2. dirBuf' \in Seq(Nat) /\ Len(dirBuf') <= ChunkSize
    BY <1>10, WebRequestAssumption DEF SendChunk
  <2> QED
    BY <1>10, <2>1, <2>2 DEF SendChunk, TypeOK, Unread
<1>11. ASSUME EndOfList PROVE (TypeOK /\ Unread)'
  <2>1. answer' \in Seq(Piece)
    BY <1>11 DEF EndOfList, TypeOK, Piece
  <2> QED
    BY <1>11, <2>1 DEF EndOfList, TypeOK, Unread, dirVars
<1>12. ASSUME UNCHANGED vars PROVE (TypeOK /\ Unread)'
  BY <1>12 DEF vars, TypeOK, Unread, dirVars
<1> QED
  BY <1>1, <1>2, <1>3, <1>4, <1>5, <1>6, <1>7, <1>8, <1>9, <1>10, <1>11, <1>12
     DEF Next, http_request, Finished

(* strdecode never leaves the name, and no chunk is too long.              *)
THEOREM TypeCorrect == Spec => []TypeOK
BY InvInit, InvNext, PTL DEF Spec

-----------------------------------------------------------------------------
(* The names that left namelist are in the chunks and in dirBuf, from the  *)
(* last one down, and m chunks have been sent, of which only one that ends *)
(* the list is not full.                                                   *)
NamesInOrder ==
  /\ Len(listed) + Len(dirBuf) = files - 1 - fileNums
  /\ \A k \in 1..Len(listed) : listed[k] = files - k
  /\ \A k \in 1..Len(dirBuf) : dirBuf[k] = files - (Len(listed) + k)

ChunksSent(m) ==
  /\ Len(answer) = m + 2 /\ answer[1] = "200" /\ answer[2] = "dir_header.html"
  /\ \A k \in 3..m+2 : answer[k] = "chunk"
  /\ Len(listed) <= m * ChunkSize
  /\ m > 0 => (m - 1) * ChunkSize < Len(listed)
  /\ dirBuf # <<>> \/ fileNums >= 0 => Len(listed) = m * ChunkSize

AllSent ==
  /\ fileNums = -1
  /\ answer = <<"200", "dir_header.html">>
                \o [k \in 1..((files + ChunkSize - 1) \div ChunkSize) |-> "chunk"]
                \o <<"dir_tail.html">>

ListInv ==
  /\ pc \notin {"list", "done"} => files = 0 /\ fileNums = -1 /\ dirBuf = <<>> /\ listed = <<>>
  /\ NamesInOrder
  /\ pc = "list" => files >= 2 /\ \E m \in Nat : ChunksSent(m)
  /\ pc = "done" /\ files > 0 => AllSent

(* Chunks of c names: what one more holds, and how many n names need.      *)
LEMMA ChunkArithmetic ==
  ASSUME NEW c \in Nat \ {0}, NEW m \in Nat
  PROVE  /\ (m + 1) * c = m * c + c /\ m * c \in Nat /\ ((m + 1) - 1) * c = m * c /\ 0 * c = 0
         /\ \A n \in Nat : n <= m * c /\ (m > 0 => (m - 1) * c < n) /\ n > 0
              => (n + c - 1) \div c = m
<1>1. (m + 1) * c = m * c + c /\ m * c \in Nat /\ ((m + 1) - 1) * c = m * c /\ 0 * c = 0
  OBVIOUS
<1>2. ASSUME NEW n \in Nat, n <= m * c, m > 0 => (m - 1) * c < n, n > 0
      PROVE  (n + c - 1) \div c = m
  <2>1. m > 0
    BY <1>2
  <2>2. (m - 1) * c = m * c - c
    BY <2>1
  <2>3. m * c <= n + c - 1 /\ n + c - 1 < m * c + c
    BY <1>1, <1>2, <2>1, <2>2
  <2>4. \A k \in Nat : m * c <= k /\ k < m * c + c => k \div c = m
    OBVIOUS
  <2> QED
    BY <2>3, <2>4
<1> QED
  BY <1>1, <1>2

(* Nothing is listed before scandir ...                                    *)
LEMMA ListInit == Init => ListInv
<1> SUFFICES ASSUME Init PROVE ListInv
  OBVIOUS
<1>1. files = 0 /\ fileNums = -1 /\ dirBuf = <<>> /\ listed = <<>> /\ pc = "start" /\ Len(<<>>) = 0
  BY DEF Init
<1> QED
  BY <1>1 DEF ListInv, NamesInOrder

(* ... scandir finds at least . and .. and lists nothing yet ...           *)
LEMMA ListScandir == TypeOK /\ ListInv /\ Scandir => ListInv'
<1> SUFFICES ASSUME TypeOK, ListInv, Scandir PROVE ListInv'
  OBVIOUS
<1>1. /\ dirBuf' = <<>> /\ listed' = <<>> /\ Len(<<>>) = 0 /\ pc' = "list"
      /\ answer' = <<"200", "dir_header.html">> /\ fileNums' = files' - 1
  BY DEF Scandir, ListInv
<1>2. files' \in Nat /\ files' >= 2
  BY WebRequestAssumption DEF Scandir
<1>3. NamesInOrder'
  <2>1. 0 + 0 = files' - 1 - fileNums' /\ \A k \in 1..0 : FALSE
    <3>1. \A f \in Nat : 0 + 0 = f - 1 - (f - 1)
      OBVIOUS
    <3>2. fileNums' = files' - 1 /\ \A k \in 1..0 : FALSE
      BY <1>1
    <3> QED
      BY <1>2, <3>1, <3>2, Zenon
  <2>2. Len(listed') = 0 /\ Len(dirBuf') = 0
    BY <1>1
  <2> QED
    BY <2>1, <2>2 DEF NamesInOrder
<1>4. ChunksSent(0)'
  <2>1. 0 * ChunkSize = 0
    BY ChunkArithmetic, WebRequestAssumption
  <2> QED
    BY <1>1, <2>1 DEF ChunksSent
<1> QED
  BY <1>1, <1>2, <1>3, <1>4 DEF ListInv

(* ... the inner loop moves the next name to dirBuf ...                    *)
LEMMA ListAdd == TypeOK /\ ListInv /\ AddName => ListInv'
<1> SUFFICES ASSUME TypeOK, ListInv, AddName PROVE ListInv'
  OBVIOUS
<1> DEFINE l == Len(listed)
           d == Len(dirBuf)
<1> HIDE DEF l, d
<1>1. /\ pc = "list" /\ fileNums >= 0 /\ dirBuf' = Append(dirBuf, fileNums) /\ fileNums' = fileNums - 1
      /\ UNCHANGED <<files, listed, answer, pc>>
  BY DEF AddName
<1>2. /\ l \in Nat /\ d \in Nat /\ files \in Nat /\ fileNums \in Nat /\ dirBuf \in Seq(Nat)
  BY <1>1 DEF TypeOK, l, d
<1>3. /\ Len(dirBuf') = d + 1 /\ dirBuf'[d + 1] = fileNums
      /\ \A k \in 1..d : dirBuf'[k] = dirBuf[k]
  BY <1>1, <1>2 DEF d
<1>4. /\ l + d = files - 1 - fileNums
      /\ \A k \in 1..l : listed[k] = files - k
      /\ \A k \in 1..d : dirBuf[k] = files - (l + k)
  BY DEF ListInv, NamesInOrder, l, d
<1>5. /\ l + (d + 1) = files - 1 - (fileNums - 1) /\ fileNums = files - (l + (d + 1))
      /\ \A k \in 1..d+1 : k \in 1..d \/ k = d + 1
  <2>1. l + d = files - 1 - fileNums
    BY <1>4
  <2> QED
    BY <1>2, <2>1
<1>6. NamesInOrder'
  <2>1. \A k \in 1..d+1 : dirBuf'[k] = files - (l + k)
    BY <1>3, <1>4, <1>5
  <2> QED
    BY <1>1, <1>3, <1>4, <1>5, <2>1 DEF NamesInOrder, l
<1>7. PICK m \in Nat : ChunksSent(m)
  BY <1>1 DEF ListInv
<1>8. ChunksSent(m)'
  BY <1>1, <1>7 DEF ChunksSent
<1> QED
  BY <1>1, <1>6, <1>8 DEF ListInv

(* ... a chunk carries what dirBuf holds ...                               *)
LEMMA ListSend == TypeOK /\ ListInv /\ SendChunk => ListInv'
<1> SUFFICES ASSUME TypeOK, ListInv, SendChunk PROVE ListInv'
  OBVIOUS
<1> DEFINE l == Len(listed)
           d == Len(dirBuf)
<1> HIDE DEF l, d
<1>1. /\ pc = "list" /\ dirBuf # <<>> /\ dirBuf' = <<>> /\ Len(<<>>) = 0
      /\ d = ChunkSize \/ fileNums < 0
      /\ listed' = listed \o dirBuf /\ answer' = Append(answer, "chunk")
      /\ UNCHANGED <<files, fileNums, pc>>
  BY DEF SendChunk, d
<1>2. /\ l \in Nat /\ d \in Nat /\ d > 0 /\ d <= ChunkSize /\ files \in Nat /\ fileNums \in Int
      /\ listed \in Seq(Nat) /\ dirBuf \in Seq(Nat) /\ answer \in Seq(Piece)
      /\ ChunkSize \in Nat \ {0} /\ -1 <= fileNums
  BY <1>1, WebRequestAssumption DEF TypeOK, l, d
<1>3. /\ Len(listed') = l + d
      /\ \A k \in 1..l+d : listed'[k] = IF k <= l THEN listed[k] ELSE dirBuf[k - l]
  BY <1>1, <1>2, ConcatProperties DEF l, d
<1>4. /\ l + d = files - 1 - fileNums
      /\ \A k \in 1..l : listed[k] = files - k
      /\ \A k \in 1..d : dirBuf[k] = files - (l + k)
  BY DEF ListInv, NamesInOrder, l, d
<1>5. NamesInOrder'
  <2>1. ASSUME NEW k \in 1..l+d PROVE listed'[k] = files - k
    <3>1. CASE k <= l
      <4>1. k \in 1..l
        BY <1>2, <3>1
      <4> QED
        BY <1>3, <1>4, <3>1, <4>1
    <3>2. CASE ~(k <= l)
      <4>1. k - l \in 1..d /\ l + (k - l) = k
        BY <1>2, <3>2
      <4> QED
        BY <1>3, <1>4, <3>2, <4>1
    <3> QED
      BY <3>1, <3>2
  <2>2. l + d + 0 = files - 1 - fileNums /\ \A k \in 1..0 : FALSE
    <3>1. l + d = files - 1 - fileNums
      BY <1>4
    <3> QED
      BY <1>2, <3>1
  <2> QED
    BY <1>1, <1>3, <2>1, <2>2 DEF NamesInOrder
<1>6. PICK m \in Nat : ChunksSent(m)
  BY <1>1 DEF ListInv
<1>7. ChunksSent(m + 1)'
  <2> DEFINE q == m * ChunkSize
             r == (m + 1) * ChunkSize
  <2> HIDE DEF q, r
  <2>1. q \in Nat /\ r = q + ChunkSize /\ ((m + 1) - 1) * ChunkSize = q
    BY <1>2, ChunkArithmetic DEF q, r
  <2>2. l = q
    BY <1>1, <1>6 DEF ChunksSent, l, q
  <2>3. l + d <= r /\ q < l + d
    BY <1>2, <2>1, <2>2
  <2>4. ASSUME fileNums >= 0 PROVE l + d = r
    BY <1>1, <1>2, <2>1, <2>2, <2>4
  <2>5. /\ Len(answer) = m + 2 /\ answer[1] = "200" /\ answer[2] = "dir_header.html"
        /\ \A k \in 3..m+2 : answer[k] = "chunk"
    BY <1>6 DEF ChunksSent
  <2>6. /\ Len(answer') = m + 2 + 1 /\ answer'[m + 2 + 1] = "chunk"
        /\ \A k \in 1..m+2 : answer'[k] = answer[k]
    <3>1. "chunk" \in Piece
      BY DEF Piece
    <3> QED
      BY <1>1, <1>2, <2>5, <3>1, AppendProperties
  <2>7. /\ 1 \in 1..m+2 /\ 2 \in 1..m+2 /\ m + 2 + 1 = (m + 1) + 2
        /\ \A k \in 3..(m+1)+2 : k = m + 2 + 1 \/ (k \in 3..m+2 /\ k \in 1..m+2)
    BY <1>6
  <2>8. /\ Len(answer') = (m + 1) + 2 /\ answer'[1] = "200" /\ answer'[2] = "dir_header.html"
        /\ \A k \in 3..(m+1)+2 : answer'[k] = "chunk"
    BY <2>5, <2>6, <2>7
  <2> QED
    BY <1>1, <1>3, <2>1, <2>3, <2>4, <2>8 DEF ChunksSent, r
<1>8. m + 1 \in Nat
  BY <1>6
<1> QED
  BY <1>1, <1>5, <1>7, <1>8 DEF ListInv

(* ... and the tail follows as many chunks as the names need.              *)
LEMMA ListEnd == TypeOK /\ ListInv /\ EndOfList => ListInv'
<1> SUFFICES ASSUME TypeOK, ListInv, EndOfList PROVE ListInv'
  OBVIOUS
<1>1. /\ pc = "list" /\ fileNums = -1 /\ dirBuf = <<>> /\ pc' = "done"
      /\ answer' = Append(answer, "dir_tail.html") /\ UNCHANGED <<files, fileNums, dirBuf, listed>>
      /\ Len(<<>>) = 0
  BY DEF EndOfList, TypeOK, dirVars
<1>2. /\ Len(listed) \in Nat /\ files \in Nat /\ files >= 2 /\ answer \in Seq(Piece)
      /\ ChunkSize \in Nat \ {0}
  BY <1>1, WebRequestAssumption DEF TypeOK, ListInv
<1>3. Len(listed) = files
  <2>1. Len(listed) + 0 = files - 1 - (-1)
    BY <1>1 DEF ListInv, NamesInOrder
  <2> QED
    BY <1>2, <2>1
<1>4. PICK m \in Nat : ChunksSent(m)
  BY <1>1 DEF ListInv
<1>5. (files + ChunkSize - 1) \div ChunkSize = m
  <2>1. files <= m * ChunkSize /\ (m > 0 => (m - 1) * ChunkSize < files) /\ files > 0
    BY <1>2, <1>3, <1>4 DEF ChunksSent
  <2> QED
    BY <1>2, <2>1, ChunkArithmetic
<1> DEFINE C == [k \in 1..m |-> "chunk"]
           H == <<"200", "dir_header.html">>
           T == <<"dir_tail.html">>
<1>6. C \in Seq(Piece) /\ Len(C) = m /\ \A k \in 1..m : C[k] = "chunk"
  BY DEF Piece
<1>7. H \in Seq(Piece) /\ Len(H) = 2 /\ H[1] = "200" /\ H[2] = "dir_header.html"
  BY DEF Piece
<1>8. T \in Seq(Piece) /\ Len(T) = 1 /\ T[1] = "dir_tail.html" /\ T[1] \in Piece
  BY DEF Piece
<1> HIDE DEF C, H, T
<1>9. /\ H \o C \in Seq(Piece) /\ Len(H \o C) = m + 2
      /\ \A k \in 1..m+2 : (H \o C)[k] = answer[k]
  <2>1. /\ H \o C \in Seq(Piece) /\ Len(H \o C) = 2 + m
        /\ \A k \in 1..2+m : (H \o C)[k] = IF k <= 2 THEN H[k] ELSE C[k - 2]
    <3>1. /\ H \o C \in Seq(Piece) /\ Len(H \o C) = Len(H) + Len(C)
          /\ \A k \in 1..Len(H)+Len(C) :
               (H \o C)[k] = IF k <= Len(H) THEN H[k] ELSE C[k - Len(H)]
      BY <1>6, <1>7, ConcatProperties
    <3> QED
      BY <1>6, <1>7, <3>1, Zenon
  <2>2. ASSUME NEW k \in 1..m+2 PROVE (H \o C)[k] = answer[k]
    <3>1. CASE k = 1 \/ k = 2
      BY <1>4, <1>7, <2>1, <3>1 DEF ChunksSent
    <3>2. CASE k \notin {1, 2}
      <4>1. k \in 3..m+2 /\ k \in 1..2+m /\ ~(k <= 2) /\ k - 2 \in 1..m
        BY <1>4, <3>2
      <4> QED
        BY <1>4, <1>6, <2>1, <4>1 DEF ChunksSent
    <3> QED
      BY <3>1, <3>2
  <2>3. 2 + m = m + 2
    BY <1>4
  <2> QED
    BY <2>1, <2>2, <2>3
<1>10. Len(answer) = m + 2
  BY <1>4 DEF ChunksSent
<1>11. H \o C = answer
  BY <1>2, <1>9, <1>10, SeqEqual
<1>12. answer' = answer \o T
  BY <1>1, <1>2, <1>8, AppendIsConcat DEF T
<1>13. AllSent'
  BY <1>1, <1>5, <1>11, <1>12 DEF AllSent, H, C, T
<1>14. NamesInOrder'
  BY <1>1 DEF ListInv, NamesInOrder
<1> QED
  BY <1>1, <1>13, <1>14 DEF ListInv

(* All other steps leave the list alone.                                   *)
LEMMA ListNext == TypeOK /\ ListInv /\ [Next]_vars => ListInv'
<1> SUFFICES ASSUME TypeOK, ListInv, [Next]_vars PROVE ListInv'
  OBVIOUS
<1>1. CASE \/ NoLine \/ NotSupported \/ RequestLine \/ DecodeEscape \/ CopyCharacter \/ Terminate
           \/ ClearTail \/ NotFound \/ SendContent \/ ScandirFails
  <2>1. UNCHANGED dirVars /\ pc \notin {"list", "done"} /\ pc' # "list"
    BY <1>1 DEF NoLine, NotSupported, RequestLine, DecodeEscape, CopyCharacter, Terminate,
                ClearTail, NotFound, SendContent, ScandirFails, dirVars
  <2> QED
    BY <2>1 DEF ListInv, NamesInOrder, dirVars
<1>2. CASE UNCHANGED vars
  BY <1>2 DEF vars, dirVars, ListInv, NamesInOrder, ChunksSent, AllSent
<1> QED
  BY <1>1, <1>2, ListScandir, ListAdd, ListSend, ListEnd DEF Next, http_request, Finished

(* The chunks carry every name of the directory once, last name first, and *)
(* no chunk is sent for nothing, for any number of names and any chunk.    *)
THEOREM ListingIsComplete == Spec => []ListingComplete
<1>1. TypeOK /\ ListInv => ListingComplete
  <2> SUFFICES ASSUME TypeOK, ListInv PROVE ListingComplete
    OBVIOUS
  <2> DEFINE l == Len(listed)
             d == Len(dirBuf)
             t == files - 1 - fileNums
             N == [k \in 1..t |-> files - k]
  <2> HIDE DEF l, d, t
  <2>1. /\ l \in Nat /\ d \in Nat /\ files \in Nat /\ fileNums \in Int /\ t \in Nat
        /\ fileNums >= -1 /\ listed \in Seq(Nat) /\ dirBuf \in Seq(Nat) /\ t <= files
    BY DEF TypeOK, l, d, t
  <2>2. /\ l + d = t
        /\ \A k \in 1..l : listed[k] = files - k
        /\ \A k \in 1..d : dirBuf[k] = files - (l + k)
    BY DEF ListInv, NamesInOrder, l, d, t
  <2>3. N \in Seq(Nat) /\ Len(N) = t /\ \A k \in 1..t : N[k] = files - k
    <3>1. \A k \in 1..t : files - k \in Nat
      BY <2>1
    <3>2. N \in [1..t -> Nat]
      BY <3>1
    <3> QED
      BY <2>1, <3>2
  <2>4. /\ listed \o dirBuf \in Seq(Nat) /\ Len(listed \o dirBuf) = l + d
        /\ \A k \in 1..l+d : (listed \o dirBuf)[k] = IF k <= l THEN listed[k] ELSE dirBuf[k - l]
    BY <2>1, ConcatProperties DEF l, d
  <2>5. ASSUME NEW k \in 1..l+d PROVE (listed \o dirBuf)[k] = files - k
    <3>1. CASE k <= l
      <4>1. k \in 1..l
        BY <2>1, <3>1
      <4> QED
        BY <2>2, <2>4, <3>1, <4>1
    <3>2. CASE ~(k <= l)
      <4>1. k - l \in 1..d /\ l + (k - l) = k
        BY <2>1, <3>2
      <4> QED
        BY <2>2, <2>4, <3>2, <4>1
    <3> QED
      BY <3>1, <3>2
  <2> HIDE DEF N
  <2>6. listed \o dirBuf = N
    <3>1. Len(listed \o dirBuf) = Len(N)
      BY <2>2, <2>3, <2>4
    <3>2. \A k \in 1..Len(listed \o dirBuf) : (listed \o dirBuf)[k] = N[k]
      BY <2>2, <2>3, <2>4, <2>5
    <3> QED
      BY <2>3, <2>4, <3>1, <3>2, SeqEqual
  <2> QED
    BY <2>6 DEF ListingComplete, ListInv, AllSent, N, t
<1> QED
  BY <1>1, ListInit, ListNext, TypeCorrect, PTL DEF Spec

-----------------------------------------------------------------------------
(* The starts before a position, and those up to a start.  While the read  *)
(* pointer is on a start, the starts before it are what has been decoded,  *)
(* so that its writes never disturb one of them; in the end they are all.  *)
Before(n) == {j \in Starts : j < n}
UpTo(i)   == {j \in Starts : j <= i}

Decoded(S) ==
  \A k \in 1..Cardinality(S) : \E i \in S : Cardinality(UpTo(i)) = k /\ buf[k] = Meaning(i)

DecodeInv ==
  /\ pc = "decode" =>
       /\ from \in Starts \cup {Len(source) + 1}
       /\ to = Cardinality(Before(from)) + 1
       /\ Decoded(Before(from))
  /\ pc = "clear" =>
       /\ from = Len(source) + 1 /\ buf[from] = 0
       /\ Cardinality(Starts) < to
       /\ Decoded(Starts)
       /\ \A k \in Cardinality(Starts) + 1 .. to - 1 : buf[k] = 0
  /\ DecodeMatchesReference

(* A digit is worth what hextod makes of it.                               *)
LEMMA DigitWorth == \A c \in HexDigit : Worth(c) = hextod(c)
<1> SUFFICES ASSUME NEW c \in HexDigit PROVE Worth(c) = hextod(c)
  OBVIOUS
<1> DEFINE At(v) == IF v <= 9 THEN {48 + v} ELSE {55 + v, 87 + v}
<1>1. hextod(c) \in 0..15 /\ c \in At(hextod(c))
  BY DEF hextod, HexDigit, Digits, Upper, Lower
<1>2. \A v \in 0..15 : c \in At(v) => v = hextod(c)
  BY DEF hextod, HexDigit, Digits, Upper, Lower
<1>3. Worth(c) = CHOOSE v \in 0..15 : c \in At(v)
  BY DEF Worth
<1> HIDE DEF At
<1> QED
  BY <1>1, <1>2, <1>3

(* Starts are finitely many positions in the name, and so are parts of it. *)
LEMMA StartsFinite ==
  ASSUME source \in Seq(Letter)
  PROVE  /\ Starts \subseteq 1..Len(source) /\ IsFiniteSet(Starts)
         /\ \A n \in Int : /\ IsFiniteSet(Before(n)) /\ IsFiniteSet(UpTo(n))
                           /\ Cardinality(Before(n)) \in Nat /\ Cardinality(UpTo(n)) \in Nat
<1>1. Starts \subseteq 1..Len(source)
  BY DEF Starts
<1>2. IsFiniteSet(Starts)
  <2>1. 1 \in Int /\ Len(source) \in Int
    OBVIOUS
  <2>2. IsFiniteSet(1..Len(source))
    BY <2>1, FS_Interval
  <2> QED
    BY <1>1, <2>2, FS_Subset
<1>3. ASSUME NEW n \in Int
      PROVE  /\ IsFiniteSet(Before(n)) /\ IsFiniteSet(UpTo(n))
             /\ Cardinality(Before(n)) \in Nat /\ Cardinality(UpTo(n)) \in Nat
  <2>1. Before(n) \in SUBSET Starts /\ UpTo(n) \in SUBSET Starts
    BY DEF Before, UpTo
  <2> QED
    BY <1>2, <2>1, FS_Subset, FS_CardinalityType
<1> QED
  BY <1>1, <1>2, <1>3

(* Past a start, one character more is decoded.                            *)
LEMMA OneStartMore ==
  ASSUME source \in Seq(Letter), NEW i \in Starts, NEW n \in Int, i < n,
         \A j \in Starts : j < n => j <= i
  PROVE  /\ Before(n) = Before(i) \cup {i} /\ UpTo(i) = Before(n) /\ i \notin Before(i)
         /\ Cardinality(Before(n)) = Cardinality(Before(i)) + 1
<1>1. Starts \subseteq 1..Len(source) /\ i \in Int
  BY StartsFinite
<1>2. Before(n) = Before(i) \cup {i} /\ UpTo(i) = Before(n) /\ i \notin Before(i)
  <2>1. \A j \in Starts : j \in Int
    BY <1>1
  <2>2. \A j \in Starts : (j < n <=> j <= i) /\ (j <= i <=> j < i \/ j = i)
    BY <1>1, <2>1
  <2>3. ~(i < i)
    BY <1>1
  <2> QED
    BY <2>2, <2>3 DEF Before, UpTo
<1>3. IsFiniteSet(Before(i))
  BY <1>1, StartsFinite
<1> QED
  BY <1>2, <1>3, FS_AddElement

(* What the step of the decoder over one start owes.                       *)
LEMMA OneDecoded ==
  ASSUME TypeOK, from \in Starts, to = Cardinality(Before(from)) + 1, Decoded(Before(from)),
         NEW n \in Int, from < n, \A j \in Starts : j < n => j <= from,
         UNCHANGED source, buf' = [buf EXCEPT ![to] = Meaning(from)]
  PROVE  /\ to + 1 = Cardinality(Before(n)) + 1
         /\ Decoded(Before(n))'
<1>1. /\ source \in Seq(Letter) /\ DOMAIN buf = 1..Len(buf) /\ from \in Nat /\ to \in 1..Len(buf)
  BY DEF TypeOK
<1>2. /\ Before(n) = Before(from) \cup {from} /\ UpTo(from) = Before(n)
      /\ Cardinality(Before(n)) = to
  BY <1>1, OneStartMore, StartsFinite
<1>3. /\ Starts' = Starts
      /\ \A i : UpTo(i)' = UpTo(i) /\ Meaning(i)' = Meaning(i)
  BY DEF Starts, EscapeAt, UpTo, Meaning
<1>4. Before(n)' = Before(n)
  BY <1>3 DEF Before
<1>5. ASSUME NEW k \in 1..to
      PROVE  \E i \in Before(n) : Cardinality(UpTo(i)) = k /\ buf'[k] = Meaning(i)
  <2>1. CASE k = to
    <3>1. from \in Before(n) /\ Cardinality(UpTo(from)) = k /\ buf'[k] = Meaning(from)
      BY <1>1, <1>2, <2>1
    <3> QED
      BY <3>1
  <2>2. CASE k # to
    <3>0. Cardinality(Before(from)) \in Nat /\ to = Cardinality(Before(from)) + 1
      BY <1>1, StartsFinite
    <3>1. k \in 1..Cardinality(Before(from)) /\ buf'[k] = buf[k]
      BY <1>1, <2>2, <3>0
    <3>2. PICK i \in Before(from) : Cardinality(UpTo(i)) = k /\ buf[k] = Meaning(i)
      BY <3>1 DEF Decoded
    <3> QED
      BY <1>2, <3>1, <3>2
  <2> QED
    BY <2>1, <2>2
<1>6. \A k \in 1..Cardinality(Before(n)') :
        \E i \in Before(n)' : Cardinality(UpTo(i)') = k /\ buf'[k] = Meaning(i)'
  BY <1>2, <1>3, <1>4, <1>5
<1> QED
  BY <1>1, <1>2, <1>6 DEF Decoded

(* The decoder sees an escape where the name has one.                      *)
LEMMA EscapeSeen ==
  ASSUME TypeOK, Unread, pc = "decode", buf[from] # 0
  PROVE  /\ from \in 1..Len(source) /\ buf[from] = source[from]
         /\ AtEscape <=> EscapeAt(from)
         /\ AtEscape => buf[from + 1] = source[from + 1] /\ buf[from + 2] = source[from + 2]
<1>1. /\ source \in Seq(Letter) /\ Len(source) \in Nat /\ Len(buf) = Len(source) + 1
      /\ from \in Nat /\ 1 <= from /\ from <= Len(buf)
      /\ buf[Len(buf)] = 0 /\ \A i \in from..Len(source) : buf[i] = source[i]
  BY DEF TypeOK, Unread
<1>2. from \in 1..Len(source) /\ buf[from] = source[from]
  BY <1>1
<1>3. 0 \notin HexDigit
  BY DEF HexDigit, Digits, Upper, Lower
<1>4. ASSUME AtEscape
      PROVE  /\ from + 2 <= Len(source)
             /\ buf[from + 1] = source[from + 1] /\ buf[from + 2] = source[from + 2]
  <2>1. from + 1 <= Len(source)
    BY <1>1, <1>2, <1>3, <1>4 DEF AtEscape
  <2>2. from + 2 <= Len(source)
    BY <1>1, <1>2, <1>3, <1>4, <2>1 DEF AtEscape
  <2> QED
    BY <1>1, <1>2, <2>1, <2>2
<1>5. AtEscape => EscapeAt(from)
  BY <1>1, <1>2, <1>4 DEF AtEscape, EscapeAt
<1>6. ASSUME EscapeAt(from) PROVE AtEscape
  <2>1. /\ from + 2 <= Len(source) /\ source[from] = Percent
        /\ source[from + 1] \in HexDigit /\ source[from + 2] \in HexDigit
    BY <1>6 DEF EscapeAt
  <2>2. from + 1 \in from..Len(source) /\ from + 2 \in from..Len(source)
    BY <1>1, <1>2, <2>1
  <2> QED
    BY <1>1, <1>2, <2>1, <2>2 DEF AtEscape
<1> QED
  BY <1>2, <1>4, <1>5, <1>6

(* It stays so: the decoder starts on a start ...                          *)
LEMMA DecodeBegins ==
  ASSUME TypeOK', Unread, RequestLine
  PROVE  DecodeInv'
<1>1. /\ source' \in Seq(Letter) /\ Len(source') \in Nat
      /\ to' = 1 /\ from' = 1 /\ pc' = "decode"
  BY DEF TypeOK, RequestLine, Unread
<1>2. 1 \in Starts' \cup {Len(source') + 1}
  <2>1. ~EscapeAt(1 - 1)' /\ ~EscapeAt(1 - 2)'
    BY DEF EscapeAt
  <2>2. CASE Len(source') = 0
    BY <2>2
  <2>3. CASE Len(source') # 0
    <3>1. 1 \in 1..Len(source')
      BY <1>1, <2>3
    <3> QED
      BY <2>1, <3>1 DEF Starts
  <2> QED
    BY <2>2, <2>3
<1>3. Before(1)' = {} /\ Cardinality({}) = 0
  <2>1. \A j \in Starts' : ~(j < 1)
    BY <1>1 DEF Starts
  <2> QED
    BY <2>1, FS_EmptySet DEF Before
<1>4. Decoded(Before(1))'
  BY <1>3 DEF Decoded
<1>5. DecodeMatchesReference'
  BY <1>1 DEF DecodeMatchesReference
<1>6. from' \in Starts' \cup {Len(source') + 1} /\ to' = Cardinality(Before(from)') + 1
  <2>1. Before(from)' = {}
    BY <1>1, <1>3 DEF Before
  <2>2. Cardinality(Before(from)') = 0
    BY <1>3, <2>1
  <2>3. from' \in Starts' \cup {Len(source') + 1}
    BY <1>1, <1>2
  <2>4. to' = Cardinality(Before(from)') + 1
    BY <1>1, <2>2
  <2> QED
    BY <2>3, <2>4
<1>7. Decoded(Before(from))'
  BY <1>1, <1>4
<1> QED
  BY <1>1, <1>5, <1>6, <1>7 DEF DecodeInv

(* ... goes over one start and comes to the next, over a character ...     *)
LEMMA DecodeCopies ==
  ASSUME TypeOK, Unread, DecodeInv, CopyCharacter
  PROVE  DecodeInv'
<1>1. /\ pc = "decode" /\ pc' = "decode" /\ buf[from] # 0 /\ ~AtEscape /\ UNCHANGED source
      /\ buf' = [buf EXCEPT ![to] = buf[from]] /\ to' = to + 1 /\ from' = from + 1
  BY DEF CopyCharacter
<1>2. /\ from \in 1..Len(source) /\ ~EscapeAt(from) /\ Meaning(from) = buf[from]
      /\ Len(source) \in Nat
  BY <1>1, EscapeSeen DEF Meaning, TypeOK
<1>3. from \in Starts /\ to = Cardinality(Before(from)) + 1 /\ Decoded(Before(from))
  BY <1>1, <1>2 DEF DecodeInv
<1>4. from + 1 \in Starts \cup {Len(source) + 1}
  <2>1. ~EscapeAt(from - 1)
    BY <1>3 DEF Starts
  <2>2. (from + 1) - 1 = from /\ (from + 1) - 2 = from - 1
    BY <1>2
  <2>3. from + 1 \in 1..Len(source) \/ from + 1 = Len(source) + 1
    BY <1>2
  <2> QED
    BY <1>2, <2>1, <2>2, <2>3 DEF Starts
<1>5. PICK n \in Int : n = from + 1
  BY <1>2
<1>6. to + 1 = Cardinality(Before(n)) + 1 /\ Decoded(Before(n))'
  <2>1. from < n /\ \A j \in Starts : j < n => j <= from
    BY <1>2, <1>5 DEF Starts
  <2> QED
    BY <1>1, <1>2, <1>3, <2>1, OneDecoded
<1>7. Starts' = Starts /\ Before(from)' = Before(n) /\ Before(n)' = Before(n)
  BY <1>1, <1>5 DEF Starts, EscapeAt, Before
<1>8. /\ from' \in Starts' \cup {Len(source') + 1} /\ to' = Cardinality(Before(from)') + 1
      /\ Decoded(Before(from))'
  BY <1>1, <1>4, <1>5, <1>6, <1>7 DEF Decoded
<1>9. DecodeMatchesReference'
  BY <1>1 DEF DecodeMatchesReference
<1> QED
  BY <1>1, <1>8, <1>9 DEF DecodeInv

(* ... or over an escape, whose digits are no starts, and what follows is. *)
LEMMA DecodeDecodes ==
  ASSUME TypeOK, Unread, DecodeInv, DecodeEscape
  PROVE  DecodeInv'
<1>1. /\ pc = "decode" /\ pc' = "decode" /\ buf[from] # 0 /\ AtEscape /\ UNCHANGED source
      /\ buf' = [buf EXCEPT ![to] = (hextod(buf[from + 1]) * 16 + hextod(buf[from + 2])) % 256]
      /\ to' = to + 1 /\ from' = from + 3
  BY DEF DecodeEscape
<1>2. /\ from \in 1..Len(source) /\ EscapeAt(from) /\ Len(source) \in Nat
      /\ buf[from + 1] = source[from + 1] /\ buf[from + 2] = source[from + 2]
  BY <1>1, EscapeSeen DEF TypeOK
<1>3. /\ source[from] = Percent /\ from + 2 <= Len(source)
      /\ source[from + 1] \in HexDigit /\ source[from + 2] \in HexDigit
  BY <1>2 DEF EscapeAt
<1>4. (hextod(buf[from + 1]) * 16 + hextod(buf[from + 2])) % 256 = Meaning(from)
  <2>1. /\ hextod(source[from + 1]) \in 0..15 /\ hextod(source[from + 2]) \in 0..15
        /\ Worth(source[from + 1]) = hextod(source[from + 1])
        /\ Worth(source[from + 2]) = hextod(source[from + 2])
    BY <1>3, DigitValue, DigitWorth
  <2>2. \A a, b \in 0..15 : (a * 16 + b) % 256 = 16 * a + b
    OBVIOUS
  <2>3. Meaning(from) = 16 * hextod(source[from + 1]) + hextod(source[from + 2])
    BY <1>2, <2>1 DEF Meaning
  <2>4. PICK a \in 0..15, b \in 0..15 : a = hextod(source[from + 1]) /\ b = hextod(source[from + 2])
    BY <2>1
  <2>5. (a * 16 + b) % 256 = 16 * a + b
    BY <2>2
  <2>6. hextod(buf[from + 1]) = a /\ hextod(buf[from + 2]) = b
    BY <1>2, <2>4
  <2>7. Meaning(from) = 16 * a + b
    BY <2>3, <2>4
  <2> QED
    BY <2>5, <2>6, <2>7, Zenon
<1>5. from \in Starts /\ to = Cardinality(Before(from)) + 1 /\ Decoded(Before(from))
  BY <1>1, <1>2 DEF DecodeInv
<1>6. ~EscapeAt(from + 1) /\ ~EscapeAt(from + 2)
  <2>1. Percent \notin HexDigit
    BY DEF HexDigit, Digits, Upper, Lower, Percent
  <2> QED
    BY <1>3, <2>1 DEF EscapeAt
<1>7. from + 1 \notin Starts /\ from + 2 \notin Starts
  <2>1. (from + 1) - 1 = from /\ (from + 2) - 2 = from
    BY <1>2
  <2> QED
    BY <1>2, <2>1 DEF Starts
<1>8. from + 3 \in Starts \cup {Len(source) + 1}
  <2>1. (from + 3) - 1 = from + 2 /\ (from + 3) - 2 = from + 1
    BY <1>2
  <2>2. from + 3 \in 1..Len(source) \/ from + 3 = Len(source) + 1
    BY <1>2, <1>3
  <2> QED
    BY <1>6, <2>1, <2>2 DEF Starts
<1>9. PICK n \in Int : n = from + 3
  BY <1>2
<1>10. ASSUME NEW j \in Starts, j < n PROVE j <= from
  <2>1. j \in Int
    BY <1>2 DEF Starts
  <2>2. j # from + 1 /\ j # from + 2
    BY <1>7
  <2> QED
    BY <1>2, <1>9, <1>10, <2>1, <2>2
<1>11. buf' = [buf EXCEPT ![to] = Meaning(from)]
  BY <1>1, <1>4
<1>12. to + 1 = Cardinality(Before(n)) + 1 /\ Decoded(Before(n))'
  <2>1. from < n
    BY <1>2, <1>9
  <2> QED
    BY <1>1, <1>5, <1>10, <1>11, <2>1, OneDecoded
<1>13. Starts' = Starts /\ Before(from)' = Before(n) /\ Before(n)' = Before(n)
  BY <1>1, <1>9 DEF Starts, EscapeAt, Before
<1>14. /\ from' \in Starts' \cup {Len(source') + 1} /\ to' = Cardinality(Before(from)') + 1
       /\ Decoded(Before(from))'
  BY <1>1, <1>8, <1>9, <1>12, <1>13 DEF Decoded
<1>15. DecodeMatchesReference'
  BY <1>1 DEF DecodeMatchesReference
<1> QED
  BY <1>1, <1>14, <1>15 DEF DecodeInv

(* A write behind the starts leaves what is decoded as it is.              *)
LEMMA DecodedStays ==
  ASSUME TypeOK, Decoded(Starts), Cardinality(Starts) < to,
         UNCHANGED source, buf' = [buf EXCEPT ![to] = 0] \/ buf' = buf
  PROVE  /\ Starts' = Starts /\ Decoded(Starts)'
         /\ \A k \in 1..Len(buf) : k # to => buf'[k] = buf[k]
         /\ buf'[to] = 0 \/ buf' = buf
<1>1. /\ source \in Seq(Letter) /\ DOMAIN buf = 1..Len(buf) /\ to \in 1..Len(buf) /\ Len(buf) \in Nat
  BY DEF TypeOK
<1>2. /\ Starts' = Starts
      /\ \A i : UpTo(i)' = UpTo(i) /\ Meaning(i)' = Meaning(i)
  BY DEF Starts, EscapeAt, UpTo, Meaning
<1>3. /\ \A k \in 1..Len(buf) : k # to => buf'[k] = buf[k]
      /\ buf'[to] = 0 \/ buf' = buf
  BY <1>1
<1>4. Cardinality(Starts) \in Nat
  BY <1>1, StartsFinite, FS_CardinalityType
<1>5. \A k \in 1..Cardinality(Starts) : k \in 1..Len(buf) /\ k # to
  BY <1>1, <1>4
<1> QED
  BY <1>2, <1>3, <1>5 DEF Decoded

(* The read pointer is on the terminator when all is decoded ...           *)
LEMMA DecodeTerminates ==
  ASSUME TypeOK, Unread, DecodeInv, Terminate
  PROVE  DecodeInv'
<1>1. /\ pc = "decode" /\ pc' = "clear" /\ buf[from] = 0 /\ UNCHANGED <<source, to, from>>
      /\ buf' = [buf EXCEPT ![to] = 0]
  BY DEF Terminate
<1>2. /\ source \in Seq(Letter) /\ Len(source) \in Nat /\ Len(buf) = Len(source) + 1
      /\ from \in 1..Len(buf) /\ to \in 1..from
      /\ \A i \in from..Len(source) : buf[i] # 0
  BY <1>1 DEF TypeOK, Unread
<1>3. from = Len(source) + 1
  BY <1>1, <1>2
<1>4. Before(from) = Starts
  <2>1. \A j \in Starts : j < from
    BY <1>2, <1>3 DEF Starts
  <2> QED
    BY <2>1 DEF Before
<1>5. to = Cardinality(Starts) + 1 /\ Decoded(Starts)
  BY <1>1, <1>4 DEF DecodeInv
<1>6. Cardinality(Starts) \in Nat
  BY <1>2, StartsFinite, FS_CardinalityType
<1>7. /\ Starts' = Starts /\ Decoded(Starts)'
      /\ \A k \in 1..Len(buf) : k # to => buf'[k] = buf[k]
      /\ buf'[to] = 0 \/ buf' = buf
  BY <1>1, <1>5, <1>6, DecodedStays
<1>8. buf'[from'] = 0
  BY <1>1, <1>2, <1>7
<1>9. DecodeMatchesReference'
  BY <1>1 DEF DecodeMatchesReference
<1> QED
  BY <1>1, <1>3, <1>5, <1>6, <1>7, <1>8, <1>9 DEF DecodeInv

(* ... and the pointers meet when nothing is left behind it.               *)
LEMMA DecodeClears ==
  ASSUME TypeOK, DecodeInv, ClearTail
  PROVE  DecodeInv'
<1>1. /\ pc = "clear" /\ UNCHANGED <<source, from>> /\ (buf' = [buf EXCEPT ![to] = 0] \/ buf' = buf)
      /\ from = Len(source) + 1 /\ buf[from] = 0 /\ Cardinality(Starts) < to /\ Decoded(Starts)
      /\ \A k \in Cardinality(Starts) + 1 .. to - 1 : buf[k] = 0
  BY DEF ClearTail, DecodeInv
<1>2. /\ source \in Seq(Letter) /\ Len(source) \in Nat /\ Len(buf) = Len(source) + 1
      /\ from \in 1..Len(buf) /\ to \in 1..from /\ DOMAIN buf = 1..Len(buf)
  BY DEF TypeOK
<1>3. Cardinality(Starts) \in Nat
  BY <1>2, StartsFinite, FS_CardinalityType
<1>4. /\ Starts' = Starts /\ Decoded(Starts)'
      /\ \A k \in 1..Len(buf) : k # to => buf'[k] = buf[k]
      /\ buf'[to] = 0 \/ buf' = buf
  BY <1>1, DecodedStays
<1>5. buf'[from'] = 0
  BY <1>1, <1>2, <1>4
<1>6. CASE to # from
  <2>1. pc' = "clear" /\ to' = to + 1 /\ buf' = [buf EXCEPT ![to] = 0]
    BY <1>6 DEF ClearTail
  <2>2. buf'[to] = 0
    BY <1>2, <2>1
  <2>3. ASSUME NEW k \in Cardinality(Starts) + 1 .. to' - 1 PROVE buf'[k] = 0
    <3>1. k = to \/ (k \in Cardinality(Starts) + 1 .. to - 1 /\ k \in 1..Len(buf) /\ k # to)
      BY <1>2, <1>3, <2>1
    <3> QED
      BY <1>1, <1>4, <2>2, <3>1
  <2>4. DecodeMatchesReference'
    BY <2>1 DEF DecodeMatchesReference
  <2>5. Cardinality(Starts) < to'
    BY <1>1, <1>2, <1>3, <2>1
  <2> QED
    BY <1>1, <1>4, <1>5, <2>1, <2>3, <2>4, <2>5 DEF DecodeInv
<1>7. CASE to = from
  <2>1. pc' = "stat" /\ buf' = buf
    BY <1>7 DEF ClearTail
  <2>2. ASSUME NEW k \in 1..Len(buf')
        PROVE  IF k > Cardinality(Starts) THEN buf'[k] = 0
               ELSE \E i \in Starts : Cardinality({j \in Starts : j <= i}) = k /\ buf'[k] = Meaning(i)
    <3>1. CASE k > Cardinality(Starts)
      <4>1. k = from \/ k \in Cardinality(Starts) + 1 .. to - 1
        BY <1>1, <1>2, <1>3, <1>7, <2>1, <3>1
      <4> QED
        BY <1>1, <2>1, <3>1, <4>1
    <3>2. CASE ~(k > Cardinality(Starts))
      <4>1. k \in 1..Cardinality(Starts)
        BY <1>2, <1>3, <2>1, <3>2
      <4> QED
        BY <1>1, <2>1, <3>2, <4>1 DEF Decoded, UpTo
    <3> QED
      BY <3>1, <3>2
  <2>3. \A i : Meaning(i)' = Meaning(i)
    BY <1>1 DEF Meaning, EscapeAt
  <2>4. DecodeMatchesReference'
    BY <1>4, <2>2, <2>3 DEF DecodeMatchesReference
  <2> QED
    BY <2>1, <2>4 DEF DecodeInv
<1> QED
  BY <1>6, <1>7

(* Nobody touches the name after that.                                     *)
LEMMA DecodeNext == TypeOK /\ TypeOK' /\ Unread /\ DecodeInv /\ [Next]_vars => DecodeInv'
<1> SUFFICES ASSUME TypeOK, TypeOK', Unread, DecodeInv, [Next]_vars PROVE DecodeInv'
  OBVIOUS
<1>1. ASSUME UNCHANGED <<source, buf>>, pc \notin {"start", "decode", "clear", "crashed", "closed"},
             pc' \notin {"decode", "clear"}
      PROVE  DecodeInv'
  <2>1. Starts' = Starts /\ \A i : Meaning(i)' = Meaning(i)
    BY <1>1 DEF Starts, EscapeAt, Meaning
  <2>2. DecodeMatchesReference'
    BY <1>1, <2>1 DEF DecodeInv, DecodeMatchesReference
  <2> QED
    BY <1>1, <2>2 DEF DecodeInv
<1>2. ASSUME NotFound \/ SendContent \/ Scandir \/ AddName \/ SendChunk \/ EndOfList PROVE DecodeInv'
  BY <1>1, <1>2 DEF NotFound, SendContent, Scandir, AddName, SendChunk, EndOfList
<1>3. ASSUME NoLine \/ NotSupported \/ ScandirFails PROVE DecodeInv'
  BY <1>3 DEF NoLine, NotSupported, ScandirFails, DecodeInv, DecodeMatchesReference
<1>4. ASSUME UNCHANGED vars PROVE DecodeInv'
  <2>1. Starts' = Starts /\ \A i : UpTo(i)' = UpTo(i) /\ Meaning(i)' = Meaning(i)
    BY <1>4 DEF vars, Starts, EscapeAt, Meaning, UpTo
  <2>2. Before(from)' = Before(from)
    BY <1>4, <2>1 DEF vars, Before
  <2>3. (Decoded(Before(from)) => Decoded(Before(from))') /\ (Decoded(Starts) => Decoded(Starts)')
    BY <1>4, <2>1, <2>2 DEF vars, Decoded
  <2>4. DecodeMatchesReference'
    BY <1>4, <2>1 DEF vars, DecodeInv, DecodeMatchesReference
  <2> QED
    BY <1>4, <2>1, <2>2, <2>3, <2>4 DEF vars, DecodeInv
<1> QED
  BY <1>2, <1>3, <1>4, DecodeBegins, DecodeCopies, DecodeDecodes, DecodeTerminates, DecodeClears
     DEF Next, http_request, Finished

(* For a name of any length and any escapes in it, stat and open get the   *)
(* name that the request means, and nothing of the request is behind it.   *)
THEOREM DecodesAsMeant == Spec => []DecodeMatchesReference
<1>1. Init => DecodeInv
  BY DEF Init, DecodeInv, DecodeMatchesReference
<1>2. DecodeInv => DecodeMatchesReference
  BY DEF DecodeInv
<1> QED
  BY <1>1, <1>2, InvInit, InvNext, DecodeNext, PTL DEF Spec
=============================================================================
