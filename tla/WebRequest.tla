----------------------------- MODULE WebRequest -----------------------------
(***************************************************************************)
(* One request of the web server, from the bytes that recv returned to the *)
(* last send: http_request, strdecode, hextod and sendFile of              *)
(* WebServer/src/webServer.cpp.  strdecode works in place, with two        *)
(* pointers into one array; a directory is listed through dirBuf, which    *)
(* takes ChunkSize names at a time.                                        *)
(*                                                                         *)
(* A character is its code.  Array indices start at 1: to = 1 is pFile.    *)
(* The method, the version and the name fit the arrays sscanf fills, and   *)
(* ChunkSize names fit dirBuf.                                             *)
(***************************************************************************)
EXTENDS Integers, Sequences, FiniteSets

CONSTANTS
  Char,         \* codes that a name may contain
  MaxName,      \* bound: characters after the leading slash
  MaxFiles,     \* bound: names in a directory
  ChunkSize     \* 10 in the source

Percent == 37
Digits == 48..57
Upper == 65..70
Lower == 97..102
HexDigit == Digits \cup Upper \cup Lower    \* isxdigit
Slash == 47
Dot == 46

ASSUME WebRequestAssumption ==
  /\ Char \subseteq 1..255
  /\ MaxName \in Nat /\ MaxFiles \in Nat /\ ChunkSize \in Nat \ {0}

VARIABLES
  source,       \* the name in the request, without its first character
  buf,          \* pFile up to its terminator
  to, from,     \* the pointers of strdecode
  fileNums,     \* the index of the next name in namelist, counted from 0
  files,        \* how many names scandir found
  dirBuf,       \* the names in it
  listed,       \* the names in the chunks that were sent
  answer,       \* the pieces that were sent
  pc

dirVars == <<fileNums, files, dirBuf, listed>>
vars == <<source, buf, to, from, dirVars, answer, pc>>

Letter == Char \cup {Dot, Slash}
Byte == 0..255
Piece == {"404", "200", "error.html", "content", "dir_header.html", "chunk", "dir_tail.html"}

(* to follows from and neither leaves the name: *to overwrites what was    *)
(* read, and the terminator is the last that from reaches.  A chunk is     *)
(* never longer than dirBuf is made for.                                   *)
TypeOK ==
  /\ source \in Seq(Letter)
  /\ buf \in Seq(Byte) /\ Len(buf) = Len(source) + 1
  /\ to \in 1..from /\ from \in 1..Len(buf)
  /\ files \in Nat /\ fileNums \in -1 .. files - 1
  /\ dirBuf \in Seq(Nat) /\ Len(dirBuf) <= ChunkSize
  /\ listed \in Seq(Nat) /\ answer \in Seq(Piece)
  /\ pc \in {"start", "decode", "clear", "stat", "list", "done", "closed", "crashed"}

Init ==
  /\ source \in UNION {[1..n -> Char] : n \in 0..MaxName}
  /\ buf = source \o <<0>> /\ to = 1 /\ from = 1
  /\ fileNums = -1 /\ files = 0 /\ dirBuf = <<>> /\ listed = <<>>
  /\ answer = <<>> /\ pc = "start"

-----------------------------------------------------------------------------
(* The request line                                                        *)

(* Nothing but delimiters: strtok finds no line, and lines[0] of an empty  *)
(* vector is read through a null pointer.                                  *)
NoLine ==
  /\ pc = "start" /\ pc' = "crashed"
  /\ UNCHANGED <<source, buf, to, from, dirVars, answer>>

(* Another method, another version, or fields that are missing.            *)
NotSupported ==
  /\ pc = "start" /\ pc' = "closed"
  /\ UNCHANGED <<source, buf, to, from, dirVars, answer>>

(* A name of one character stands for the root, whatever it is: pFile is   *)
(* the whole array then, and "./" is what strdecode works on.              *)
RequestLine ==
  /\ pc = "start" /\ pc' = "decode"
  /\ source' = IF source = <<>> THEN <<Dot, Slash>> ELSE source
  /\ buf' = source' \o <<0>>
  /\ UNCHANGED <<to, from, dirVars, answer>>

-----------------------------------------------------------------------------
(* strdecode                                                               *)

(* hextod.  Nobody calls it with another character.                        *)
hextod(c) ==
  CASE c \in Digits -> c - 48
    [] c \in Lower -> c - 97 + 10
    [] c \in Upper -> c - 65 + 10

(* The test of the three characters stops at the first one that fails, so  *)
(* that it never passes the terminator.                                    *)
AtEscape == buf[from] = Percent /\ buf[from + 1] \in HexDigit /\ buf[from + 2] \in HexDigit

DecodeEscapeSkipsTwo ==
  /\ pc = "decode" /\ buf[from] # 0 /\ AtEscape
  /\ buf' = [buf EXCEPT ![to] = (hextod(buf[from + 1]) * 16 + hextod(buf[from + 2])) % 256]
  /\ to' = to + 1 /\ from' = from + 2
  /\ UNCHANGED <<source, dirVars, answer, pc>>
DecodeEscape ==
  /\ pc = "decode" /\ buf[from] # 0 /\ AtEscape
  /\ buf' = [buf EXCEPT ![to] = (hextod(buf[from + 1]) * 16 + hextod(buf[from + 2])) % 256]
  /\ to' = to + 1 /\ from' = from + 3
  /\ UNCHANGED <<source, dirVars, answer, pc>>

CopyCharacter ==
  /\ pc = "decode" /\ buf[from] # 0 /\ ~AtEscape
  /\ buf' = [buf EXCEPT ![to] = buf[from]]
  /\ to' = to + 1 /\ from' = from + 1
  /\ UNCHANGED <<source, dirVars, answer, pc>>

Terminate ==
  /\ pc = "decode" /\ buf[from] = 0
  /\ buf' = [buf EXCEPT ![to] = 0] /\ pc' = "clear"
  /\ UNCHANGED <<source, to, from, dirVars, answer>>

(* The loop behind it ends with to = from.                                 *)
ClearTailOneMore ==
  /\ pc = "clear"
  /\ \/ to <= from /\ buf' = [buf EXCEPT ![to] = 0] /\ to' = to + 1 /\ pc' = pc
     \/ to > from /\ pc' = "stat" /\ UNCHANGED <<buf, to>>
  /\ UNCHANGED <<source, from, dirVars, answer>>
ClearTail ==
  /\ pc = "clear"
  /\ \/ to # from /\ buf' = [buf EXCEPT ![to] = 0] /\ to' = to + 1 /\ pc' = pc
     \/ to = from /\ pc' = "stat" /\ UNCHANGED <<buf, to>>
  /\ UNCHANGED <<source, from, dirVars, answer>>

-----------------------------------------------------------------------------
(* The answer                                                              *)

(* sendHeader, then sendFile of a page that belongs to the site.           *)
NotFound ==
  /\ pc = "stat" /\ pc' = "done"
  /\ answer' = <<"404", "error.html">>
  /\ UNCHANGED <<source, buf, to, from, dirVars>>

(* sendFile, whose open may fail.                                          *)
SendContent ==
  /\ pc = "stat" /\ pc' = "done"
  /\ answer' \in {<<"200", "content">>, <<"200">>}
  /\ UNCHANGED <<source, buf, to, from, dirVars>>

(* The header of a directory goes out before scandir, which may fail, has  *)
(* looked at it.  . and .. are among the names.                            *)
ScandirFails ==
  /\ pc = "stat" /\ pc' = "closed"
  /\ answer' = <<"200", "dir_header.html">>
  /\ UNCHANGED <<source, buf, to, from, dirVars>>

Scandir ==
  /\ pc = "stat" /\ pc' = "list"
  /\ answer' = <<"200", "dir_header.html">>
  /\ files' \in 2..MaxFiles /\ fileNums' = files' - 1
  /\ UNCHANGED <<source, buf, to, from, dirBuf, listed>>

(* The inner loop: the name is written to dirBuf and freed.                *)
AddName ==
  /\ pc = "list" /\ Len(dirBuf) < ChunkSize /\ fileNums >= 0
  /\ dirBuf' = Append(dirBuf, fileNums) /\ fileNums' = fileNums - 1
  /\ UNCHANGED <<source, buf, to, from, files, listed, answer, pc>>

(* send, and memset when the outer loop goes on.                           *)
SendChunkUncleared ==
  /\ pc = "list" /\ dirBuf # <<>> /\ (Len(dirBuf) = ChunkSize \/ fileNums < 0)
  /\ listed' = listed \o dirBuf /\ answer' = Append(answer, "chunk")
  /\ UNCHANGED <<source, buf, to, from, fileNums, files, dirBuf, pc>>
SendChunk ==
  /\ pc = "list" /\ dirBuf # <<>> /\ (Len(dirBuf) = ChunkSize \/ fileNums < 0)
  /\ listed' = listed \o dirBuf /\ answer' = Append(answer, "chunk")
  /\ dirBuf' = <<>>
  /\ UNCHANGED <<source, buf, to, from, fileNums, files, pc>>

EndOfList ==
  /\ pc = "list" /\ fileNums < 0 /\ dirBuf = <<>>
  /\ answer' = Append(answer, "dir_tail.html") /\ pc' = "done"
  /\ UNCHANGED <<source, buf, to, from, dirVars>>

http_request ==
  \/ NoLine
  \/ NotSupported
  \/ RequestLine
  \/ DecodeEscape
  \/ CopyCharacter
  \/ Terminate
  \/ ClearTail
  \/ NotFound
  \/ SendContent
  \/ ScandirFails
  \/ Scandir
  \/ AddName
  \/ SendChunk
  \/ EndOfList

Finished == pc \in {"done", "closed", "crashed"} /\ UNCHANGED vars

Next == http_request \/ Finished

Spec == Init /\ [][Next]_vars

-----------------------------------------------------------------------------
(* Properties                                                              *)

(* What decoding means, said without pointers: a percent sign and two      *)
(* hexadecimal digits are one character, every other character is itself.  *)
EscapeAt(i) ==
  /\ i >= 1 /\ i + 2 <= Len(source)
  /\ source[i] = Percent /\ source[i + 1] \in HexDigit /\ source[i + 2] \in HexDigit

Starts == {i \in 1..Len(source) : ~EscapeAt(i - 1) /\ ~EscapeAt(i - 2)}

(* The digit's place in 0123456789ABCDEF or in 0123456789abcdef.           *)
Worth(c) ==
  CHOOSE v \in 0..15 : c \in (IF v <= 9 THEN {48 + v} ELSE {55 + v, 87 + v})

Meaning(i) ==
  IF EscapeAt(i) THEN 16 * Worth(source[i + 1]) + Worth(source[i + 2]) ELSE source[i]

(* stat and open get the name the client meant: the k-th character decoded *)
(* in place is the k-th that the request stands for, though the decoder    *)
(* overwrites what it reads, and nothing is left behind it.                *)
DecodeMatchesReference ==
  pc \notin {"start", "decode", "clear", "crashed", "closed"} =>
    \A k \in 1..Len(buf) :
      IF k > Cardinality(Starts) THEN buf[k] = 0
      ELSE \E i \in Starts : Cardinality({j \in Starts : j <= i}) = k /\ buf[k] = Meaning(i)

(* The chunks carry every name of the directory once, last name first, and *)
(* no chunk is sent for nothing, whatever the number of names is.          *)
ListingComplete ==
  /\ listed \o dirBuf = [k \in 1..(files - 1 - fileNums) |-> files - k]
  /\ pc = "done" /\ files > 0 =>
       /\ fileNums = -1
       /\ answer = <<"200", "dir_header.html">>
                     \o [k \in 1..((files + ChunkSize - 1) \div ChunkSize) |-> "chunk"]
                     \o <<"dir_tail.html">>
=============================================================================
