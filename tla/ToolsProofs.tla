------------------------------ MODULE ToolsProofs ------------------------------
(***************************************************************************)
(* Proofs about the small programs, each as a specification of its own.    *)
(***************************************************************************)
EXTENDS TopInstances, Telnet, TextConverter, ArchiveFinder, DataLemmas

(* A sequence is put together from what it begins and what it ends with.   *)
LEMMA PutTogether ==
    ASSUME NEW S, NEW a \in Seq(S), NEW b \in Seq(S), NEW c \in Seq(S),
           Len(c) = Len(a) + Len(b),
           \A i \in 1 .. Len(a) : c[i] = a[i],
           \A i \in 1 .. Len(b) : c[i + Len(a)] = b[i]
    PROVE  a \o b = c
<1> Len(a) \in Nat /\ Len(b) \in Nat
  OBVIOUS
<1>1. /\ a \o b \in Seq(S) /\ Len(a \o b) = Len(a) + Len(b)
      /\ \A i \in 1 .. Len(a) + Len(b) : (a \o b)[i] = IF i <= Len(a) THEN a[i] ELSE b[i - Len(a)]
  BY ConcatProperties
<1>2. ASSUME NEW i \in 1 .. Len(c)
      PROVE  (a \o b)[i] = c[i]
  <2>1. CASE i <= Len(a)
    BY <1>1, <2>1
  <2>2. CASE ~(i <= Len(a))
    <3>1. i - Len(a) \in 1 .. Len(b) /\ (i - Len(a)) + Len(a) = i
      BY <2>2
    <3>2. c[(i - Len(a)) + Len(a)] = b[i - Len(a)]
      BY <3>1
    <3>3. QED
      BY <1>1, <2>2, <3>1, <3>2
  <2>3. QED
    BY <2>1, <2>2
<1>3. QED
  BY <1>1, <1>2, SeqEqual

-----------------------------------------------------------------------------
(* hw12-TelnetIllustrator.                                                 *)

(* A beginning and the rest of a text.                                     *)
Beginning(message, k) == SubSeq(message, 1, k)
Rest(message, k) == SubSeq(message, k + 1, Len(message))
OneDot(message) == \A i \in 1 .. Len(message) - 1 : message[i] # "dot"

(* What the client has and has not received of the two texts, if there is  *)
(* no dot in them but that of the prompt.                                  *)
TelnetInv ==
    /\ banner \in Banners /\ answer \in Answers
    /\ OneDot(banner) /\ OneDot(answer) =>
        /\ step \in {"search", "connect"} => wire = <<>> /\ printed = <<>>
        /\ step = "start" => /\ \E k \in 0 .. Len(banner) - 1 : wire = Rest(banner, k)
                             /\ printed = <<>>
        /\ step = "command" => wire = <<>> /\ printed = <<>>
        /\ step = "result" => \E k \in 0 .. Len(answer) - 1 :
                                  wire = Rest(answer, k) /\ printed = Beginning(answer, k)
        /\ step = "done" => printed = Body(answer)

(* A piece of what is left of a text is taken for one that ends in the     *)
(* prompt exactly if it is all that is left.                               *)
LEMMA LastPiece ==
    ASSUME NEW message \in Seq(STRING), Len(message) > 1, OneDot(message),
           SubSeq(message, Len(message) - 1, Len(message)) = Prompt,
           NEW k \in 0 .. Len(message) - 1, NEW len \in 1 .. Len(message) - k
    PROVE  LET piece == SubSeq(Rest(message, k), 1, len) IN
           /\ ServerWaitsForNewCommand(piece) <=> k + len = Len(message)
           /\ Len(piece) = len
           /\ SubSeq(Rest(message, k), len + 1, Len(Rest(message, k))) = Rest(message, k + len)
           /\ Beginning(message, k) \o piece = Beginning(message, k + len)
           /\ k + len = Len(message) => Beginning(message, k) \o Body(piece) = Body(message)
<1> DEFINE rest == Rest(message, k)
           piece == SubSeq(rest, 1, len)
           n == Len(message)
<1>1. n \in Nat /\ k \in Nat /\ len \in Nat /\ k + len <= n /\ len >= 1 /\ k <= n - 1
  OBVIOUS
<1>2. rest \in Seq(STRING) /\ Len(rest) = n - k /\ \A i \in 1 .. n - k : rest[i] = message[i + k]
  BY <1>1 DEF Rest
<1>3. piece \in Seq(STRING) /\ Len(piece) = len /\ \A i \in 1 .. len : piece[i] = message[i + k]
  <2> HIDE DEF rest
  <2>1. QED
    BY <1>1, <1>2
<1>4. message[n - 1] = "nl" /\ message[n] = "dot"
  <2>1. Prompt[1] = "nl" /\ Prompt[2] = "dot"
    BY DEF Prompt
  <2>2. SubSeq(message, n - 1, n)[1] = message[n - 1] /\ SubSeq(message, n - 1, n)[2] = message[n]
    BY <1>1
  <2>3. QED
    BY <2>1, <2>2
<1>5. ServerWaitsForNewCommand(piece) <=> k + len = n
  <2> HIDE DEF rest, piece
  <2>1. CASE len = 1
    <3>1. piece[1] = message[1 + k]
      BY <1>3, <2>1
    <3>2. QED
      BY <1>1, <1>3, <1>4, <2>1, <3>1 DEF ServerWaitsForNewCommand, OneDot
  <2>2. CASE len > 1 /\ k + len = n
    <3>1. SubSeq(piece, len - 1, len) = Prompt
      <4>1. PICK m : m = len - 1
        OBVIOUS
      <4>2. m \in Nat /\ m + 1 = len /\ m \in 1 .. Len(piece) /\ m + 1 \in 1 .. Len(piece)
            /\ m + k = n - 1 /\ (m + 1) + k = n
        BY <1>1, <1>3, <2>2, <4>1
      <4>3. PICK o : o = n - 1
        OBVIOUS
      <4>4. o \in Nat /\ o + 1 = n /\ o \in 1 .. n /\ o = m + k
        BY <1>1, <2>2, <4>2, <4>3
      <4>5. \A q \in Seq(STRING) : \A a \in Nat : a \in 1 .. Len(q) /\ a + 1 \in 1 .. Len(q) =>
                /\ SubSeq(q, a, a + 1) \in Seq(STRING) /\ Len(SubSeq(q, a, a + 1)) = 2
                /\ SubSeq(q, a, a + 1)[1] = q[a] /\ SubSeq(q, a, a + 1)[2] = q[a + 1]
        OBVIOUS
      <4> HIDE DEF piece, rest
      <4>6. /\ SubSeq(piece, m, m + 1) \in Seq(STRING) /\ Len(SubSeq(piece, m, m + 1)) = 2
            /\ SubSeq(piece, m, m + 1)[1] = message[n - 1]
            /\ SubSeq(piece, m, m + 1)[2] = message[n]
        <5>1. piece[m] = message[m + k] /\ piece[m + 1] = message[(m + 1) + k]
          BY <1>3, <4>2
        <5>2. piece[m] = message[n - 1] /\ piece[m + 1] = message[n]
          BY <4>2, <5>1
        <5>3. QED
          BY <1>3, <4>2, <4>5, <5>2
      <4>7. /\ SubSeq(message, o, o + 1) \in Seq(STRING) /\ Len(SubSeq(message, o, o + 1)) = 2
            /\ SubSeq(message, o, o + 1)[1] = message[n - 1]
            /\ SubSeq(message, o, o + 1)[2] = message[n]
        BY <1>1, <4>3, <4>4, <4>5
      <4>8. SubSeq(piece, m, m + 1) = SubSeq(message, o, o + 1)
        <5>1. \A p \in Seq(STRING) : \A q \in Seq(STRING) :
                 Len(p) = 2 /\ Len(q) = 2 /\ p[1] = q[1] /\ p[2] = q[2] => p = q
          BY SeqEqual
        <5>2. QED
          BY <4>6, <4>7, <5>1
      <4>9. QED
        BY <4>1, <4>2, <4>3, <4>4, <4>8
    <3>2. QED
      BY <1>1, <1>3, <2>2, <3>1 DEF ServerWaitsForNewCommand
  <2>3. CASE len > 1 /\ k + len < n
    <3>1. SubSeq(piece, len - 1, len)[2] = piece[len]
      BY <1>1, <1>3, <2>3
    <3>2. piece[len] = message[k + len] /\ message[k + len] # "dot"
      BY <1>1, <1>3, <2>3 DEF OneDot
    <3>3. Prompt[2] = "dot"
      BY DEF Prompt
    <3>4. QED
      BY <1>1, <1>3, <2>3, <3>1, <3>2, <3>3 DEF ServerWaitsForNewCommand
  <2>4. QED
    BY <1>1, <2>1, <2>2, <2>3
<1>6. SubSeq(rest, len + 1, Len(rest)) = Rest(message, k + len)
  <2> DEFINE a == SubSeq(rest, len + 1, Len(rest))
             b == Rest(message, k + len)
  <2>1. a \in Seq(STRING) /\ Len(a) = n - k - len /\ \A i \in 1 .. n - k - len : a[i] = message[i + k + len]
    <3>1. PICK s \in Seq(STRING) : s = rest /\ Len(s) = n - k /\ \A i \in 1 .. n - k : s[i] = message[i + k]
      BY <1>2
    <3>2. SubSeq(s, len + 1, Len(s)) \in Seq(STRING) /\ Len(SubSeq(s, len + 1, Len(s))) = n - k - len
      BY <1>1, <3>1
    <3>3. ASSUME NEW i \in 1 .. n - k - len
          PROVE  SubSeq(s, len + 1, Len(s))[i] = message[i + k + len]
      <4>1. i + len \in 1 .. n - k /\ (i + len) + k = i + k + len
        BY <1>1
      <4>2. SubSeq(s, len + 1, Len(s))[i] = s[i + len]
        BY <1>1, <3>1
      <4>3. s[i + len] = message[(i + len) + k]
        BY <3>1, <4>1
      <4>4. QED
        BY <4>1, <4>2, <4>3
    <3>4. QED
      BY <3>1, <3>2, <3>3
  <2>2. b \in Seq(STRING) /\ Len(b) = n - k - len /\ \A i \in 1 .. n - k - len : b[i] = message[i + k + len]
    BY <1>1 DEF Rest
  <2> HIDE DEF a, b
  <2>3. a = b
    BY <1>1, <2>1, <2>2, SeqEqual
  <2>4. QED
    BY <2>3 DEF a, b
<1>7. Beginning(message, k) \o piece = Beginning(message, k + len)
  <2> DEFINE a == Beginning(message, k)
             b == Beginning(message, k + len)
  <2>1. a \in Seq(STRING) /\ Len(a) = k /\ \A i \in 1 .. k : a[i] = message[i]
    BY <1>1 DEF Beginning
  <2>2. b \in Seq(STRING) /\ Len(b) = k + len /\ \A i \in 1 .. k + len : b[i] = message[i]
    BY <1>1 DEF Beginning
  <2> HIDE DEF a, b, rest, piece
  <2>3. /\ Len(b) = Len(a) + Len(piece)
        /\ \A i \in 1 .. Len(a) : b[i] = a[i]
        /\ \A i \in 1 .. Len(piece) : b[i + Len(a)] = piece[i]
    <3>1. ASSUME NEW i \in 1 .. len
          PROVE  b[i + k] = piece[i]
      <4>1. i + k \in 1 .. k + len
        BY <1>1
      <4>2. QED
        BY <1>3, <2>2, <4>1
    <3>2. Len(b) = Len(a) + Len(piece)
      BY <1>1, <1>3, <2>1, <2>2
    <3>3. \A i \in 1 .. k : b[i] = a[i]
      BY <1>1, <1>3, <2>1, <2>2
    <3>4. QED
      BY <1>3, <2>1, <3>1, <3>2, <3>3
  <2>4. a \o piece = b
    BY <1>3, <2>1, <2>2, <2>3, PutTogether
  <2>5. QED
    BY <2>4 DEF a, b, piece
<1>8. ASSUME k + len = n
      PROVE  Beginning(message, k) \o Body(piece) = Body(message)
  <2> DEFINE a == Beginning(message, k)
             b == Body(piece)
             c == Body(message)
  <2>1. a \in Seq(STRING) /\ Len(a) = k /\ \A i \in 1 .. k : a[i] = message[i]
    BY <1>1 DEF Beginning
  <2>2. c \in Seq(STRING) /\ Len(c) = n - 1 /\ \A i \in 1 .. n - 1 : c[i] = message[i]
    BY <1>1 DEF Body
  <2>3. b \in Seq(STRING) /\ Len(b) = len - 1 /\ \A i \in 1 .. len - 1 : b[i] = message[i + k]
    <3> HIDE DEF piece
    <3>1. QED
      BY <1>1, <1>3 DEF Body
  <2> HIDE DEF a, b, c, rest, piece
  <2>4. /\ Len(c) = Len(a) + Len(b)
        /\ \A i \in 1 .. Len(a) : c[i] = a[i]
        /\ \A i \in 1 .. Len(b) : c[i + Len(a)] = b[i]
    <3>1. ASSUME NEW i \in 1 .. len - 1
          PROVE  c[i + k] = b[i]
      <4>1. i + k \in 1 .. n - 1
        BY <1>1, <1>8
      <4>2. QED
        BY <2>2, <2>3, <4>1
    <3>2. Len(c) = Len(a) + Len(b)
      BY <1>1, <1>8, <2>1, <2>2, <2>3
    <3>3. ASSUME NEW i \in 1 .. k
          PROVE  c[i] = a[i]
      <4>1. i \in 1 .. n - 1
        BY <1>1
      <4>2. QED
        BY <2>1, <2>2, <4>1
    <3>4. Len(a) = k /\ Len(b) = len - 1
      BY <2>1, <2>3
    <3>5. QED
      BY <3>1, <3>2, <3>3, <3>4
  <2>5. a \o b = c
    BY <2>1, <2>2, <2>3, <2>4, PutTogether
  <2>6. QED
    BY <2>5 DEF a, b, c
<1>9. QED
  BY <1>3, <1>5, <1>6, <1>7, <1>8

(* What a recv takes is such a piece.                                      *)
LEMMA PieceTaken ==
    ASSUME NEW message \in Seq(STRING), Len(message) > 1, NEW k \in 0 .. Len(message) - 1,
           wire = Rest(message, k), NEW piece \in Pieces
    PROVE  \E len \in 1 .. Len(message) - k :
              piece = SubSeq(Rest(message, k), 1, len) /\ Len(piece) = len
<1>1. Len(Rest(message, k)) = Len(message) - k /\ Rest(message, k) \in Seq(STRING)
  BY DEF Rest
<1>2. PICK len \in {m \in 1 .. MAX_BUFFER_LEN : m <= Len(wire)} : piece = SubSeq(wire, 1, len)
  BY DEF Pieces
<1>3. len \in 1 .. Len(message) - k /\ len <= Len(wire) /\ wire \in Seq(STRING)
  BY <1>1, <1>2, TelnetAssumption
<1>4. Len(SubSeq(wire, 1, len)) = len
  BY <1>3
<1>5. QED
  BY <1>2, <1>3, <1>4

(* The invariant holds of every state: what was received and what is still *)
(* under way are the text that the server sent, in order.                  *)
THEOREM TelnetInvariant == TelnetSpec => []TelnetInv
<1>1. TelnetInit => TelnetInv
  BY DEF TelnetInit, TelnetInv
<1>2. TelnetInv /\ [TelnetNext]_telnetVars => TelnetInv'
  <2> SUFFICES ASSUME TelnetInv, [TelnetNext]_telnetVars
               PROVE  TelnetInv'
    OBVIOUS
  <2>0. /\ banner \in Seq(STRING) /\ Len(banner) > 1
        /\ SubSeq(banner, Len(banner) - 1, Len(banner)) = Prompt
        /\ answer \in Seq(STRING) /\ Len(answer) > 1
        /\ SubSeq(answer, Len(answer) - 1, Len(answer)) = Prompt
    BY TelnetTexts DEF TelnetInv
  <2>1. CASE Search
    BY <2>1 DEF Search, Says, TelnetInv
  <2>2. CASE GetTelehackAddr
    BY <2>2 DEF GetTelehackAddr, Says, TelnetInv
  <2>3. CASE Connect
    <3>1. 0 \in 0 .. Len(banner) - 1 /\ banner = Rest(banner, 0)
      BY <2>0 DEF Rest
    <3>2. QED
      BY <2>3, <3>1 DEF Connect, Says, TelnetInv
  <2>4. CASE ReadStartMessage
    <3> SUFFICES ASSUME OneDot(banner), OneDot(answer)
                 PROVE  /\ step' = "start" => /\ \E k \in 0 .. Len(banner) - 1 : wire' = Rest(banner, k)
                                              /\ printed = <<>>
                        /\ step' = "command" => wire' = <<>> /\ printed = <<>>
                        /\ step' \in {"start", "command"}
      BY <2>4 DEF ReadStartMessage, Says, HandleStart, TelnetInv
    <3>1. PICK k \in 0 .. Len(banner) - 1 : wire = Rest(banner, k) /\ printed = <<>>
      BY <2>4 DEF ReadStartMessage, TelnetInv
    <3>2. PICK piece \in Pieces : Recv(piece) /\ HandleStart(piece)
      BY <2>4 DEF ReadStartMessage
    <3>3. PICK len \in 1 .. Len(banner) - k : piece = SubSeq(Rest(banner, k), 1, len) /\ Len(piece) = len
      BY <2>0, <3>1, PieceTaken
    <3>4. /\ ServerWaitsForNewCommand(piece) <=> k + len = Len(banner)
          /\ SubSeq(Rest(banner, k), len + 1, Len(Rest(banner, k))) = Rest(banner, k + len)
      BY <2>0, <3>3, LastPiece
    <3>5. wire' = Rest(banner, k + len)
      BY <3>1, <3>2, <3>3, <3>4 DEF Recv
    <3>6. CASE k + len = Len(banner)
      <4>1. Rest(banner, k + len) = <<>>
        BY <2>0, <3>6 DEF Rest
      <4>2. QED
        BY <3>1, <3>2, <3>4, <3>5, <3>6, <4>1 DEF HandleStart
    <3>7. CASE k + len # Len(banner)
      <4>1. k + len \in 0 .. Len(banner) - 1
        BY <2>0, <3>7
      <4>2. QED
        BY <3>1, <3>2, <3>4, <3>5, <3>7, <4>1 DEF HandleStart
    <3>8. QED
      BY <3>6, <3>7
  <2>5. CASE SendFigletCommand
    <3> SUFFICES ASSUME OneDot(banner), OneDot(answer)
                 PROVE  \E k \in 0 .. Len(answer) - 1 :
                            wire' = Rest(answer, k) /\ printed' = Beginning(answer, k)
      BY <2>5 DEF SendFigletCommand, Says, TelnetInv
    <3>1. wire = <<>> /\ printed = <<>> /\ printed' = printed /\ wire' = wire \o answer
      BY <2>5 DEF SendFigletCommand, TelnetInv
    <3>2. 0 \in 0 .. Len(answer) - 1 /\ answer = Rest(answer, 0) /\ <<>> = Beginning(answer, 0)
      BY <2>0 DEF Rest, Beginning
    <3>3. <<>> \o answer = answer
      BY <2>0
    <3>4. QED
      BY <3>1, <3>2, <3>3
  <2>6. CASE ReadResultResponse
    <3> SUFFICES ASSUME OneDot(banner), OneDot(answer)
                 PROVE  /\ step' = "result" => \E k \in 0 .. Len(answer) - 1 :
                                  wire' = Rest(answer, k) /\ printed' = Beginning(answer, k)
                        /\ step' = "done" => printed' = Body(answer)
                        /\ step' \in {"result", "done"}
      <4>1. step' \in {"result", "done"}
        BY <2>6 DEF ReadResultResponse, HandleResult
      <4>2. QED
        BY <2>6, <4>1 DEF ReadResultResponse, Says, TelnetInv
    <3>1. PICK k \in 0 .. Len(answer) - 1 : wire = Rest(answer, k) /\ printed = Beginning(answer, k)
      BY <2>6 DEF ReadResultResponse, TelnetInv
    <3>2. PICK piece \in Pieces : Recv(piece) /\ HandleResult(piece)
      BY <2>6 DEF ReadResultResponse
    <3>3. PICK len \in 1 .. Len(answer) - k : piece = SubSeq(Rest(answer, k), 1, len) /\ Len(piece) = len
      BY <2>0, <3>1, PieceTaken
    <3>4. /\ ServerWaitsForNewCommand(piece) <=> k + len = Len(answer)
          /\ SubSeq(Rest(answer, k), len + 1, Len(Rest(answer, k))) = Rest(answer, k + len)
          /\ Beginning(answer, k) \o piece = Beginning(answer, k + len)
          /\ k + len = Len(answer) => Beginning(answer, k) \o Body(piece) = Body(answer)
      BY <2>0, <3>3, LastPiece
    <3>5. wire' = Rest(answer, k + len)
      BY <3>1, <3>2, <3>3, <3>4 DEF Recv
    <3>6. CASE k + len = Len(answer)
      BY <3>1, <3>2, <3>4, <3>6 DEF HandleResult
    <3>7. CASE k + len # Len(answer)
      <4>1. k + len \in 0 .. Len(answer) - 1
        BY <2>0, <3>7
      <4>2. step = "result"
        BY <2>6 DEF ReadResultResponse
      <4>3. QED
        BY <3>1, <3>2, <3>4, <3>5, <3>7, <4>1, <4>2 DEF HandleResult
    <3>8. QED
      BY <3>6, <3>7
  <2>7. CASE TelnetFails
    BY <2>7 DEF TelnetFails, Says, TelnetInv
  <2>8. CASE UNCHANGED telnetVars
    BY <2>8 DEF telnetVars, TelnetInv
  <2>9. QED
    BY <2>1, <2>2, <2>3, <2>4, <2>5, <2>6, <2>7, <2>8 DEF TelnetNext, Client
<1>3. QED
  BY <1>1, <1>2, PTL DEF TelnetSpec

(* However the network and the buffer cut the banner and the answer, and   *)
(* however long they are, the client prints the answer and nothing else,   *)
(* if the only dot of each is that of its prompt (ReadResultResponse and   *)
(* ServerWaitsForNewCommand in main.c).                                    *)
THEOREM TheAnswerIsPrinted == TelnetSpec => []AnswerIsPrinted
<1>1. TelnetInv => AnswerIsPrinted
  <2> SUFFICES ASSUME TelnetInv, step = "done",
                      {i \in DOMAIN Body(banner) : Body(banner)[i] = "dot"} = {},
                      {i \in DOMAIN Body(answer) : Body(answer)[i] = "dot"} = {}
               PROVE  printed = Body(answer)
    BY DEF AnswerIsPrinted
  <2>1. ASSUME NEW message \in Banners \union Answers,
               {i \in DOMAIN Body(message) : Body(message)[i] = "dot"} = {}
        PROVE  OneDot(message)
    <3>1. message \in Seq(STRING) /\ Len(message) > 1
      BY TelnetTexts
    <3>2. DOMAIN Body(message) = 1 .. Len(message) - 1 /\ \A i \in 1 .. Len(message) - 1 : Body(message)[i] = message[i]
      BY <3>1 DEF Body
    <3>3. QED
      BY <2>1, <3>2 DEF OneDot
  <2>2. OneDot(banner) /\ OneDot(answer)
    BY <2>1 DEF TelnetInv
  <2>3. QED
    BY <2>2 DEF TelnetInv
<1>2. QED
  BY <1>1, TelnetInvariant, PTL

-----------------------------------------------------------------------------
(* The report of hw11-ParsingLogs.                                         *)

(* A set from which one can go into 1 .. k, or into which one can go from  *)
(* there, and never twice to the same place.                               *)
LEMMA AtMost ==
    ASSUME NEW S, NEW k \in Nat, NEW g \in [S -> 1 .. k],
           \A d, e \in S : g[d] = g[e] => d = e
    PROVE  Cardinality(S) \in Nat /\ Cardinality(S) <= k
<1>1. IsFiniteSet(1 .. k) /\ Cardinality(1 .. k) = k
  <2>1. 1 \in Int /\ k \in Int
    OBVIOUS
  <2>2. QED
    BY <2>1, FS_Interval
<1>2. g \in Injection(S, 1 .. k)
  BY DEF Injection, IsInjective
<1>3. IsFiniteSet(S) /\ Cardinality(S) <= Cardinality(1 .. k)
  BY <1>1, <1>2, FS_Injection
<1>4. QED
  BY <1>1, <1>3, FS_CardinalityType
(* A finite set into which k numbers map one to one has at least k         *)
(* members.                                                                *)
LEMMA AtLeast ==
    ASSUME NEW S, IsFiniteSet(S), NEW k \in Nat, NEW g \in [1 .. k -> S],
           \A r, s \in 1 .. k : g[r] = g[s] => r = s
    PROVE  Cardinality(S) \in Nat /\ Cardinality(S) >= k
<1>1. IsFiniteSet(1 .. k) /\ Cardinality(1 .. k) = k
  <2>1. 1 \in Int /\ k \in Int
    OBVIOUS
  <2>2. QED
    BY <2>1, FS_Interval
<1>2. g \in Injection(1 .. k, S)
  BY DEF Injection, IsInjective
<1>3. Cardinality(1 .. k) <= Cardinality(S)
  BY <1>2, FS_Injection
<1>4. Cardinality(S) \in Nat
  BY FS_CardinalityType
<1>5. QED
  BY <1>1, <1>3, <1>4

(* A table of the first n words: what it has, and what it may have lost.   *)
Table(t, n) ==
    /\ t \in [Slots -> 0 .. n]
    /\ \A r, s \in Slots : t[r] = t[s] /\ t[r] # NULL => r = s
    /\ n <= Length => \A d \in 1 .. n : \E s \in Slots : t[s] = d
    /\ n >= Length => \A s \in Slots : t[s] # NULL
Lost(t, n) == {d \in 1 .. n : \A s \in Slots : t[s] # d}
(* Only one slot may have a word that is less than one that was lost: the  *)
(* slot of the word that came last, if it was the least.                   *)
OneWrong(t, n) ==
    \E x \in Slots : \A s \in Slots \ {x} : \A d \in Lost(t, n) : buckets[d] <= buckets[t[s]]
TopInv ==
    /\ buckets \in Seq(Nat) /\ node \in 1 .. Len(buckets) + 1
    /\ filled = "fill" =>
        /\ Table(top, node - 1)
        /\ node - 1 <= Length => top = [s \in Slots |-> IF s < node THEN s ELSE NULL]
        /\ node - 1 > Length => OneWrong(top, node - 1)
    /\ UpperPlacesRight

(* The first of a set of slots.                                            *)
LEMMA FirstOfIsFirst ==
    ASSUME NEW S, S \subseteq Slots, S # {}
    PROVE  FirstOf(S) \in S /\ \A r \in S : FirstOf(S) <= r
<1>1. S \subseteq Nat
  BY DEF Slots
<1>2. \E s \in S : \A r \in S : s <= r
  BY <1>1, LeastNumber
<1>3. QED
  BY <1>2 DEF FirstOf

(* A sorted table has the words in their places.                           *)
LEMMA SortedIsRight ==
    ASSUME buckets \in Seq(Nat), NEW t, Table(t, Len(buckets)),
           Len(buckets) > Length => OneWrong(t, Len(buckets)),
           \A r, s \in Slots : r < s => InOrder(t[r], t[s]),
           NEW s \in Slots, s < Length \/ Len(buckets) <= Length
    PROVE  IF s <= Len(buckets) THEN t[s] # NULL /\ HasRank(s, buckets[t[s]]) ELSE t[s] = NULL
<1> DEFINE n == Len(buckets)
<1>0. n \in Nat /\ Length \in Nat /\ s \in Nat /\ s >= 1 /\ s <= Length /\ Slots = 1 .. Length
  BY LengthAssumption DEF Slots
<1>1. /\ t \in [Slots -> 0 .. n]
      /\ \A q, r \in Slots : t[q] = t[r] /\ t[q] # 0 => q = r
      /\ n <= Length => \A d \in 1 .. n : \E r \in Slots : t[r] = d
      /\ n >= Length => \A r \in Slots : t[r] # 0
  BY DEF Table, NULL
<1>2. \A d \in 1 .. n : buckets[d] \in Nat
  OBVIOUS
<1>3. \A q, r \in Slots : q < r /\ t[r] # 0 => t[q] # 0 /\ buckets[t[q]] >= buckets[t[r]]
  BY DEF InOrder, NULL
<1> HIDE DEF n
<1>4. ASSUME s <= n
      PROVE  t[s] # 0
  <2> SUFFICES ASSUME t[s] = 0
               PROVE  FALSE
    OBVIOUS
  <2>1. n < Length /\ n <= Length
    BY <1>0, <1>1
  <2>2. ASSUME NEW d \in 1 .. n
        PROVE  \E r \in 1 .. s - 1 : t[r] = d
    <3>1. PICK r \in Slots : t[r] = d
      <4>1. \A e \in 1 .. n : \E r \in Slots : t[r] = e
        BY <1>1, <2>1
      <4>2. QED
        BY ONLY <4>1, d \in 1 .. n
    <3>2. ~(s < r) /\ s # r
      BY <1>0, <1>3, <3>1
    <3>3. r \in 1 .. s - 1
      BY <1>0, <3>1, <3>2
    <3>4. QED
      BY <3>1, <3>3
  <2> DEFINE g == [d \in 1 .. n |-> CHOOSE r \in 1 .. s - 1 : t[r] = d]
  <2>3. \A d \in 1 .. n : g[d] \in 1 .. s - 1 /\ t[g[d]] = d
    BY <2>2
  <2>4. g \in [1 .. n -> 1 .. s - 1] /\ \A d, e \in 1 .. n : g[d] = g[e] => d = e
    BY <2>3
  <2>5. s - 1 \in Nat
    BY <1>0
  <2> HIDE DEF g
  <2>6. Cardinality(1 .. n) <= s - 1
    BY <2>4, <2>5, AtMost
  <2>7. Cardinality(1 .. n) = n
    <3>1. 1 \in Int /\ n \in Int
      BY <1>0
    <3>2. QED
      BY <1>0, <3>1, FS_Interval
  <2>8. QED
    BY <1>0, <1>4, <2>6, <2>7
<1>5. ASSUME t[s] # 0
      PROVE  \A r \in 1 .. s : t[r] \in 1 .. n /\ buckets[t[r]] >= buckets[t[s]]
  <2> TAKE r \in 1 .. s
  <2>1. r \in Slots
    BY <1>0
  <2>2. t[r] # 0 /\ (r # s => buckets[t[r]] >= buckets[t[s]])
    BY <1>0, <1>3, <1>5, <2>1
  <2>3. t[r] \in 1 .. n
    BY <1>0, <1>1, <2>1, <2>2
  <2>4. QED
    BY <1>2, <2>2, <2>3
<1>6. ASSUME ~(s <= n)
      PROVE  t[s] = 0
  <2> SUFFICES ASSUME t[s] # 0
               PROVE  FALSE
    OBVIOUS
  <2> DEFINE g == [r \in 1 .. s |-> t[r]]
  <2>1. g \in [1 .. s -> 1 .. n]
    BY <1>5
  <2>2. \A q, r \in 1 .. s : g[q] = g[r] => q = r
    <3>1. \A r \in 1 .. s : r \in Slots /\ t[r] # 0
      BY <1>0, <1>5
    <3>2. QED
      BY <1>1, <3>1
  <2> HIDE DEF g
  <2>3. Cardinality(1 .. s) <= n
    BY <1>0, <2>1, <2>2, AtMost
  <2>4. Cardinality(1 .. s) = s
    <3>1. 1 \in Int /\ s \in Int
      BY <1>0
    <3>2. QED
      BY <1>0, <3>1, FS_Interval
  <2>5. QED
    BY <1>0, <1>6, <2>3, <2>4
<1>7. ASSUME s <= n
      PROVE  HasRank(s, buckets[t[s]])
  <2> DEFINE c == buckets[t[s]]
             More == {d \in DOMAIN buckets : buckets[d] > c}
             AsMany == {d \in DOMAIN buckets : buckets[d] >= c}
  <2>0. t[s] # 0 /\ t[s] \in 1 .. n /\ c \in Nat /\ DOMAIN buckets = 1 .. n
    BY <1>0, <1>2, <1>4, <1>5, <1>7 DEF n
  <2>1. Cardinality(AsMany) >= s
    <3> DEFINE g == [r \in 1 .. s |-> t[r]]
    <3>1. g \in [1 .. s -> AsMany]
      BY <1>5, <2>0
    <3>2. \A q, r \in 1 .. s : g[q] = g[r] => q = r
      <4>1. \A r \in 1 .. s : r \in Slots /\ t[r] # 0
        BY <1>0, <1>5, <2>0
      <4>2. QED
        BY <1>1, <4>1
    <3>3. IsFiniteSet(AsMany)
      <4>1. 1 \in Int /\ n \in Int
        BY <1>0
      <4>2. IsFiniteSet(1 .. n) /\ AsMany \subseteq 1 .. n
        BY <2>0, <4>1, FS_Interval
      <4>3. QED
        BY <4>2, FS_Subset
    <3> HIDE DEF g, AsMany
    <3>4. QED
      BY <1>0, <3>1, <3>2, <3>3, AtLeast
  <2>2. ASSUME NEW d \in More
        PROVE  \E r \in 1 .. s - 1 : t[r] = d
    <3>0. d \in 1 .. n /\ buckets[d] \in Nat /\ buckets[d] > c
      BY <1>2, <2>0
    <3>1. \E r \in Slots : t[r] = d
      <4>1. CASE n <= Length
        BY <1>1, <3>0, <4>1
      <4>2. CASE ~(n <= Length)
        <5> SUFFICES ASSUME d \in Lost(t, n)
                     PROVE  FALSE
          BY <3>0 DEF Lost
        <5>1. n > Length /\ s < Length
          BY <1>0, <4>2 DEF n
        <5>2. PICK x \in Slots : \A r \in Slots \ {x} : buckets[d] <= buckets[t[r]]
          BY <5>1 DEF OneWrong, n
        <5>3. s # x => FALSE
          BY <2>0, <3>0, <5>2
        <5>4. s + 1 \in Slots /\ s < s + 1 /\ s + 1 # s
          BY <1>0, <5>1
        <5>5. t[s + 1] # 0 /\ t[s + 1] \in 1 .. n
          BY <1>0, <1>1, <5>1, <5>4
        <5>6. buckets[t[s + 1]] <= c
          BY <1>2, <1>3, <2>0, <5>4, <5>5
        <5>7. s = x => buckets[d] <= buckets[t[s + 1]]
          BY <5>2, <5>4
        <5>8. QED
          BY <1>2, <2>0, <3>0, <5>3, <5>5, <5>6, <5>7
      <4>3. QED
        BY <4>1, <4>2
    <3>2. PICK r \in Slots : t[r] = d
      BY <3>1
    <3>3. r # s /\ t[r] # 0
      BY <2>0, <3>0, <3>2
    <3>4. ~(s < r)
      BY <1>3, <2>0, <3>0, <3>2, <3>3
    <3>5. r \in 1 .. s - 1
      BY <1>0, <3>2, <3>3, <3>4
    <3>6. QED
      BY <3>2, <3>5
  <2>3. Cardinality(More) \in Nat /\ Cardinality(More) <= s - 1
    <3> DEFINE g == [d \in More |-> CHOOSE r \in 1 .. s - 1 : t[r] = d]
    <3> HIDE DEF More
    <3>1. \A d \in More : g[d] \in 1 .. s - 1 /\ t[g[d]] = d
      BY <2>2
    <3>2. g \in [More -> 1 .. s - 1] /\ \A d, e \in More : g[d] = g[e] => d = e
      BY <3>1
    <3>3. s - 1 \in Nat
      BY <1>0
    <3> HIDE DEF g
    <3>4. QED
      BY <3>2, <3>3, AtMost
  <2>4. QED
    BY <1>0, <2>1, <2>3 DEF HasRank
<1>8. QED
  BY <1>4, <1>6, <1>7 DEF NULL, n

(* A round of the loop with a full table loses the least of its words.     *)
LEMMA FullRound ==
    ASSUME buckets \in Seq(Nat), NEW n \in Nat, n >= Length, n < Len(buckets),
           Table(top, n), n > Length => OneWrong(top, n),
           n = Length => \A s \in Slots : top[s] = s,
           NEW m \in Slots, \A s \in Slots : Cnt(m) <= Cnt(s)
    PROVE  /\ Table([top EXCEPT ![m] = n + 1], n + 1)
           /\ OneWrong([top EXCEPT ![m] = n + 1], n + 1)
<1> DEFINE u == [top EXCEPT ![m] = n + 1]
<1>0. Length \in Nat /\ Length >= 1 /\ Slots = 1 .. Length /\ n + 1 \in 1 .. Len(buckets) /\ ~(n + 1 <= Length)
  BY LengthAssumption DEF Slots
<1>1. /\ top \in [Slots -> 0 .. n]
      /\ \A q, r \in Slots : top[q] = top[r] /\ top[q] # 0 => q = r
      /\ \A r \in Slots : top[r] # 0
  BY DEF Table, NULL
<1>2. \A r \in Slots : top[r] \in 1 .. n
  BY <1>1
<1>3. \A d \in 1 .. n + 1 : buckets[d] \in Nat
  BY <1>0
<1>4. /\ DOMAIN u = Slots /\ u[m] = n + 1
      /\ \A r \in Slots : r # m => u[r] = top[r] /\ u[r] \in 1 .. n /\ u[r] # n + 1
  BY <1>1, <1>2
<1>5. u \in [Slots -> 0 .. n + 1]
  BY <1>1, <1>4
<1>6. Table(u, n + 1)
  <2> HIDE DEF u
  <2>1. \A q, r \in Slots : u[q] = u[r] /\ u[q] # 0 => q = r
    BY <1>1, <1>4
  <2>2. \A r \in Slots : u[r] # 0
    BY <1>4
  <2>3. QED
    BY <1>0, <1>5, <2>1, <2>2 DEF Table, NULL
<1>7. ASSUME NEW s \in Slots, s # m, NEW d \in Lost(u, n + 1)
      PROVE  buckets[d] <= buckets[u[s]]
  <2> HIDE DEF u
  <2>1. d \in 1 .. n + 1 /\ \A r \in Slots : u[r] # d
    BY DEF Lost
  <2>2. d \in 1 .. n /\ buckets[d] \in Nat
    BY <1>3, <1>4, <2>1
  <2>3. u[s] = top[s] /\ top[s] \in 1 .. n /\ buckets[top[s]] \in Nat
        /\ top[m] \in 1 .. n /\ buckets[top[m]] \in Nat /\ buckets[top[m]] <= buckets[top[s]]
    BY <1>2, <1>3, <1>4, <1>7 DEF Cnt
  <2>4. CASE d = top[m]
    BY <2>3, <2>4
  <2>5. CASE d # top[m]
    <3>1. d \in Lost(top, n)
      BY <1>4, <2>1, <2>2, <2>5 DEF Lost
    <3>2. n > Length
      <4>1. CASE n = Length
        <5>1. d \in Slots /\ top[d] = d
          BY <1>0, <2>2, <4>1
        <5>2. QED
          BY <3>1, <5>1 DEF Lost
      <4>2. QED
        BY <1>0, <4>1
    <3>3. PICK x \in Slots : \A r \in Slots \ {x} : buckets[d] <= buckets[top[r]]
      BY <3>1, <3>2 DEF OneWrong
    <3>4. CASE x = s
      <4>1. m \in Slots \ {x}
        BY <1>7, <3>4
      <4>2. buckets[d] <= buckets[top[m]]
        BY <3>3, <4>1
      <4>3. \A i, j, k \in Nat : i <= j /\ j <= k => i <= k
        OBVIOUS
      <4>4. QED
        BY ONLY <2>2, <2>3, <4>2, <4>3
    <3>5. CASE x # s
      BY <2>3, <3>3, <3>5
    <3>6. QED
      BY <3>4, <3>5
  <2>6. QED
    BY <2>4, <2>5
<1>8. OneWrong(u, n + 1)
  <2> HIDE DEF u
  <2>1. QED
    BY <1>7 DEF OneWrong
<1>9. QED
  BY <1>6, <1>8

(* The invariant holds of every state of the program.                      *)
THEOREM TopInvariant == TopSpec => []TopInv
<1>0. Length \in Nat /\ Length >= 1 /\ Slots = 1 .. Length
  BY LengthAssumption DEF Slots
<1>1. TopInit => TopInv
  <2> SUFFICES ASSUME TopInit
               PROVE  TopInv
    OBVIOUS
  <2>1. buckets \in Seq(Nat)
    <3>1. PICK n \in 0 .. MaxWords : buckets \in [1 .. n -> 1 .. MaxCnt]
      BY DEF TopInit, Lists
    <3>2. n \in Nat /\ buckets \in [1 .. n -> Nat]
      BY <3>1, BoundsAssumption
    <3>3. QED
      BY <3>2
  <2>2. node = 1 /\ top = [s \in Slots |-> NULL] /\ filled = "fill"
    BY DEF TopInit
  <2>3. Len(buckets) \in Nat
    BY <2>1
  <2>4. Table(top, node - 1)
    BY <1>0, <2>2 DEF Table, NULL
  <2>5. top = [s \in Slots |-> IF s < node THEN s ELSE NULL]
    BY <1>0, <2>2
  <2>6. QED
    BY <1>0, <2>1, <2>2, <2>3, <2>4, <2>5 DEF TopInv, UpperPlacesRight
<1>2. TopInv /\ [TopNext]_topVars => TopInv'
  <2> SUFFICES ASSUME TopInv, [TopNext]_topVars
               PROVE  TopInv'
    OBVIOUS
  <2>0. buckets \in Seq(Nat) /\ Len(buckets) \in Nat /\ node \in 1 .. Len(buckets) + 1
    BY DEF TopInv
  <2>1. CASE Fill
    <3>1. /\ Table(top, node - 1)
          /\ node - 1 <= Length => top = [s \in Slots |-> IF s < node THEN s ELSE NULL]
          /\ node - 1 > Length => OneWrong(top, node - 1)
      BY <2>1 DEF Fill, TopInv
    <3>2. /\ filled = "fill" /\ node <= Len(buckets) /\ top' = [top EXCEPT ![Pos] = node]
          /\ node' = node + 1 /\ buckets' = buckets /\ filled' = filled
      BY <2>1 DEF Fill
    <3>3. node \in Nat /\ node' - 1 = node /\ node' \in 1 .. Len(buckets) + 1 /\ node - 1 \in Nat
          /\ (node - 1) + 1 = node
      BY <2>0, <3>2
    <3>4. top \in [Slots -> 0 .. node - 1]
      BY <3>1 DEF Table
    <3>5. CASE node - 1 < Length
      <4>1. top = [s \in Slots |-> IF s < node THEN s ELSE NULL] /\ node \in Slots
        BY <1>0, <3>1, <3>3, <3>5
      <4>2. EmptySlots = {s \in Slots : s >= node}
        BY <1>0, <3>3, <4>1 DEF EmptySlots, NULL
      <4>3. Pos = node
        <5>1. node \in EmptySlots /\ EmptySlots \subseteq Slots
          BY <1>0, <3>3, <4>1, <4>2
        <5>2. FirstOf(EmptySlots) \in EmptySlots /\ FirstOf(EmptySlots) <= node
          BY <5>1, FirstOfIsFirst
        <5>3. FirstOf(EmptySlots) = node
          BY <1>0, <3>3, <4>2, <5>2
        <5>4. QED
          BY <5>1, <5>3 DEF Pos
      <4>4. top' = [s \in Slots |-> IF s < node' THEN s ELSE NULL]
        <5>1. \A s \in Slots : s < node + 1 <=> s < node \/ s = node
          BY <1>0, <3>3
        <5>2. QED
          BY <3>2, <3>4, <4>1, <4>3, <5>1
      <4>5. Table(top', node)
        <5>1. \A s \in Slots : top'[s] = IF s <= node THEN s ELSE 0
          BY <1>0, <3>2, <3>3, <4>4 DEF NULL
        <5>2. top' \in [Slots -> 0 .. node]
          <6>1. \A s \in Slots : top'[s] \in 0 .. node
            BY <1>0, <3>3, <5>1
          <6>2. QED
            BY <4>4, <6>1
        <5>3. \A q, r \in Slots : top'[q] = top'[r] /\ top'[q] # 0 => q = r
          BY <1>0, <5>1
        <5>4. \A d \in 1 .. node : d \in Slots /\ top'[d] = d
          BY <1>0, <3>3, <3>5, <5>1
        <5>5. node >= Length => \A s \in Slots : top'[s] # 0
          BY <1>0, <3>3, <5>1
        <5>6. QED
          BY <5>2, <5>3, <5>4, <5>5 DEF Table, NULL
      <4>6. node <= Length
        BY <1>0, <3>3, <3>5
      <4>7. Table(top', node' - 1) /\ ~(node' - 1 > Length)
        <5>1. Table(top', node' - 1)
          BY <3>3, <4>5
        <5>2. ~(node > Length)
          BY <1>0, <3>3, <4>6
        <5>3. ~(node' - 1 > Length)
          BY <3>3, <5>2
        <5>4. QED
          BY <5>1, <5>3
      <4>8. UpperPlacesRight'
        BY <3>2 DEF UpperPlacesRight
      <4>9. QED
        BY <2>0, <3>2, <3>3, <4>4, <4>7, <4>8 DEF TopInv, Table
    <3>6. CASE ~(node - 1 < Length)
      <4>1. \A s \in Slots : top[s] # NULL /\ top[s] \in 1 .. node - 1
        BY <1>0, <3>1, <3>3, <3>4, <3>6 DEF Table, NULL
      <4>2. EmptySlots = {}
        BY <4>1 DEF EmptySlots
      <4>3. Pos \in Slots /\ \A r \in Slots : Cnt(Pos) <= Cnt(r)
        <5> DEFINE Least == {s \in Slots : \A r \in Slots : Cnt(s) <= Cnt(r)}
        <5>1. \A s \in Slots : Cnt(s) \in Nat
          BY <2>0, <3>2, <3>3, <4>1 DEF Cnt
        <5>2. Least # {}
          <6> DEFINE C == {Cnt(s) : s \in Slots}
          <6>1. C \subseteq Nat /\ C # {}
            BY <1>0, <5>1
          <6>2. PICK c \in C : \A d \in C : c <= d
            <7> HIDE DEF C
            <7>1. QED
              BY <6>1, LeastNumber
          <6>3. PICK s \in Slots : c = Cnt(s)
            BY <6>2
          <6>4. QED
            BY <6>2, <6>3
        <5>3. FirstOf(Least) \in Least
          <6>1. Least \subseteq Slots
            OBVIOUS
          <6> HIDE DEF Least
          <6>2. QED
            BY <5>2, <6>1, FirstOfIsFirst
        <5>4. Pos = FirstOf(Least)
          BY <4>2 DEF Pos
        <5>5. QED
          BY <5>3, <5>4
      <4>4. Table(top', node) /\ OneWrong(top', node)
        <5>1. PICK n \in Nat : n = node - 1 /\ n + 1 = node /\ n >= Length /\ n < Len(buckets)
          BY <1>0, <2>0, <3>2, <3>3, <3>6
        <5>2. n = Length => \A s \in Slots : top[s] = s
          BY <1>0, <3>1, <3>3, <5>1
        <5>3. PICK m \in Slots : m = Pos /\ \A s \in Slots : Cnt(m) <= Cnt(s)
          BY <4>3
        <5>4. Table([top EXCEPT ![m] = n + 1], n + 1) /\ OneWrong([top EXCEPT ![m] = n + 1], n + 1)
          BY <2>0, <3>1, <5>1, <5>2, <5>3, FullRound
        <5>5. QED
          BY <3>2, <5>1, <5>3, <5>4
      <4>5. ~(node <= Length)
        BY <1>0, <3>3, <3>6
      <4>6. Table(top', node' - 1) /\ ~(node' - 1 <= Length)
        BY ONLY <1>0, <3>3, <4>4, <4>5
      <4>7. OneWrong(top, node - 1)'
        BY <3>2, <3>3, <4>4 DEF OneWrong, Lost
      <4>8. UpperPlacesRight'
        BY <3>2 DEF UpperPlacesRight
      <4>9. filled' = "fill" /\ buckets' \in Seq(Nat) /\ node' \in 1 .. Len(buckets') + 1
        BY <2>0, <3>2, <3>3
      <4>10. Table(top, node - 1)' /\ ~(node - 1 <= Length)'
        BY <4>6 DEF Table
      <4>11. QED
        BY <4>7, <4>8, <4>9, <4>10 DEF TopInv
    <3>7. QED
      BY <3>5, <3>6
  <2>2. CASE Sort
    <3>1. /\ Table(top, node - 1)
          /\ node - 1 > Length => OneWrong(top, node - 1)
          /\ node - 1 = Len(buckets)
      BY <2>0, <2>2 DEF Sort, TopInv
    <3>2. PICK p \in [Slots -> Slots] :
              /\ \A r, s \in Slots : r # s => p[r] # p[s]
              /\ top' = [s \in Slots |-> top[p[s]]]
              /\ \A r, s \in Slots : r < s => InOrder(top'[r], top'[s])
      BY <2>2 DEF Sort
    <3>3. \A x \in Slots : \E y \in Slots : p[y] = x
      <4>1. 1 \in Int /\ Length \in Int
        BY <1>0
      <4>2. IsFiniteSet(Slots)
        BY <1>0, <4>1, FS_Interval
      <4>3. p \in Injection(Slots, Slots)
        BY <3>2 DEF Injection, IsInjective
      <4>4. p \in Surjection(Slots, Slots)
        BY <4>2, <4>3, FS_Injection
      <4>5. QED
        BY <4>4 DEF Surjection
    <3>4. PICK n \in Nat : n = Len(buckets) /\ n = node - 1
      BY <2>0, <3>1
    <3>5. Table(top, n) /\ (n > Length => OneWrong(top, n))
      BY <3>1, <3>4
    <3>6. PICK t : t = top'
      OBVIOUS
    <3>7. DOMAIN t = Slots /\ \A s \in Slots : p[s] \in Slots /\ t[s] = top[p[s]]
      BY <3>2, <3>6
    <3>8. Table(t, n)
      <4>1. t \in [Slots -> 0 .. n]
        BY <3>2, <3>5, <3>6 DEF Table
      <4>2. \A r, s \in Slots : t[r] = t[s] /\ t[r] # NULL => r = s
        BY <3>2, <3>5, <3>7 DEF Table
      <4>3. n <= Length => \A d \in 1 .. n : \E s \in Slots : t[s] = d
        BY <3>3, <3>5, <3>7 DEF Table
      <4>4. n >= Length => \A s \in Slots : t[s] # NULL
        BY <3>5, <3>7 DEF Table
      <4>5. QED
        BY <4>1, <4>2, <4>3, <4>4 DEF Table
    <3>9. n > Length => OneWrong(t, n)
      <4> SUFFICES ASSUME n > Length
                   PROVE  OneWrong(t, n)
        OBVIOUS
      <4>1. PICK x \in Slots : \A s \in Slots \ {x} : \A d \in Lost(top, n) : buckets[d] <= buckets[top[s]]
        BY <3>5 DEF OneWrong
      <4>2. PICK y \in Slots : p[y] = x
        BY <3>3
      <4>3. Lost(t, n) \subseteq Lost(top, n)
        BY <3>3, <3>7 DEF Lost
      <4>4. \A s \in Slots \ {y} : p[s] \in Slots \ {x}
        BY <3>2, <3>7, <4>2
      <4>5. QED
        BY <3>7, <4>1, <4>3, <4>4 DEF OneWrong
    <3>10. \A r, s \in Slots : r < s => InOrder(t[r], t[s])
      <4>1. \A v, w : InOrder(v, w)' <=> InOrder(v, w)
        BY <2>2 DEF Sort, InOrder
      <4>2. \A r, s \in Slots : r < s => InOrder(top'[r], top'[s])
        BY <3>2
      <4>3. QED
        BY <3>6, <4>2
    <3>11. ASSUME NEW s \in Slots, s < Length \/ Len(buckets) <= Length
           PROVE  IF s <= Len(buckets) THEN t[s] # NULL /\ HasRank(s, buckets[t[s]]) ELSE t[s] = NULL
      BY <2>0, <3>4, <3>8, <3>9, <3>10, <3>11, SortedIsRight
    <3>12. UpperPlacesRight'
      <4>1. buckets' = buckets
        BY <2>2 DEF Sort
      <4>2. \A s \in Slots : s < Length \/ Len(buckets) <= Length => RightAt(s)'
        BY <3>6, <3>11, <4>1 DEF RightAt, HasRank, Cnt
      <4>3. QED
        BY <4>1, <4>2 DEF UpperPlacesRight
    <3>13. QED
      BY <2>0, <2>2, <3>12 DEF Sort, TopInv
  <2>3. CASE UNCHANGED topVars
    BY <2>3 DEF topVars, TopInv, Table, OneWrong, Lost, UpperPlacesRight, RightAt, HasRank, Cnt
  <2>4. QED
    BY <2>1, <2>2, <2>3 DEF TopNext
<1>3. QED
  BY <1>1, <1>2, PTL DEF TopSpec

(* For any length of the report and any list of words: all places but the  *)
(* last show the right counts, and the last one does, too, when the words  *)
(* fit (GetTopInstances, however qsort orders equal words).                *)
THEOREM UpperPlacesAreRight == TopSpec => []UpperPlacesRight
<1>1. TopInv => UpperPlacesRight
  BY DEF TopInv
<1>2. QED
  BY <1>1, TopInvariant, PTL
-----------------------------------------------------------------------------
(* hw1-rarjpeg.                                                            *)

(* The pieces of the directory.                                            *)
LEMMA EntryBytes ==
    ASSUME NEW size \in Nat
    PROVE  /\ Entry(size) \in Seq(Signatures) /\ Len(Entry(size)) = HeaderSize + size
           /\ \A i \in 1 .. HeaderSize + size : Entry(size)[i] = IF i = 1 THEN "header" ELSE "none"
<1> DEFINE a == Struct("header", HeaderSize)
           b == [n \in 1 .. size |-> "none"]
<1>0. HeaderSize \in Nat /\ HeaderSize >= 1
  BY ArchiveAssumption
<1>1. a \in Seq(Signatures) /\ Len(a) = HeaderSize
      /\ \A i \in 1 .. HeaderSize : a[i] = IF i = 1 THEN "header" ELSE "none"
  BY <1>0 DEF Struct, Signatures
<1>2. b \in Seq(Signatures) /\ Len(b) = size /\ \A i \in 1 .. size : b[i] = "none"
  BY DEF Signatures
<1>3. Entry(size) = a \o b
  BY DEF Entry
<1> HIDE DEF a, b
<1>4. /\ a \o b \in Seq(Signatures) /\ Len(a \o b) = HeaderSize + size
      /\ \A i \in 1 .. HeaderSize + size : (a \o b)[i] = IF i <= HeaderSize THEN a[i] ELSE b[i - HeaderSize]
  <2>1. /\ a \o b \in Seq(Signatures) /\ Len(a \o b) = Len(a) + Len(b)
        /\ \A i \in 1 .. Len(a) + Len(b) : (a \o b)[i] = IF i <= Len(a) THEN a[i] ELSE b[i - Len(a)]
    <3>1. a \in Seq(Signatures) /\ b \in Seq(Signatures)
      BY <1>1, <1>2
    <3>2. QED
      BY ONLY <3>1, ConcatProperties
  <2>2. Len(a) = HeaderSize /\ Len(b) = size
    BY <1>1, <1>2
  <2>3. QED
    BY ONLY <2>1, <2>2
<1>5. ASSUME NEW i \in 1 .. HeaderSize + size
      PROVE  (a \o b)[i] = IF i = 1 THEN "header" ELSE "none"
  <2>1. CASE i <= HeaderSize
    BY <1>0, <1>1, <1>4, <2>1
  <2>2. CASE ~(i <= HeaderSize)
    <3>1. i - HeaderSize \in 1 .. size /\ i # 1
      BY <1>0, <2>2
    <3>2. (a \o b)[i] = b[i - HeaderSize]
      BY <1>4, <2>2
    <3>3. QED
      BY <1>2, <3>1, <3>2
  <2>3. QED
    BY <2>1, <2>2
<1>6. QED
  BY <1>3, <1>4, <1>5

(* The function by which the directory is defined.                         *)
Grows(names, g, n) ==
    /\ g \in [0 .. n -> Seq(Signatures)] /\ g[0] = <<>>
    /\ \A k \in 1 .. n : g[k] = g[k - 1] \o Entry(names[k])
(* The recursion of Directory has a solution: a function that starts empty *)
(* and adds one entry at a time, up to any number of entries.              *)
LEMMA GrowsExists ==
    ASSUME NEW names \in Seq(Nat), NEW n \in 0 .. Len(names)
    PROVE  \E g : Grows(names, g, n)
<1> DEFINE None == {m \in 0 .. Len(names) : ~\E g : Grows(names, g, m)}
<1> SUFFICES ASSUME None # {}
             PROVE  FALSE
  OBVIOUS
<1>1. PICK m \in None : \A y \in None : m <= y
  <2>1. None \subseteq Nat
    OBVIOUS
  <2> HIDE DEF None
  <2>2. QED
    BY <2>1, LeastNumber
<1>2. CASE m = 0
  <2>1. PICK g : g = [k \in 0 .. 0 |-> <<>>]
    OBVIOUS
  <2>2. Grows(names, g, 0)
    BY <2>1 DEF Grows
  <2>3. QED
    BY <1>1, <1>2, <2>2
<1>3. CASE m # 0
  <2>1. m \in 1 .. Len(names) /\ m - 1 \in 0 .. Len(names) /\ ~(m <= m - 1) /\ m - 1 \in Nat
    BY <1>1, <1>3
  <2>2. PICK g : Grows(names, g, m - 1)
    BY <1>1, <2>1
  <2>3. Entry(names[m]) \in Seq(Signatures)
    <3>1. names[m] \in Nat
      BY <2>1
    <3>2. QED
      BY <3>1, EntryBytes
  <2>4. PICK h : h = [k \in 0 .. m |-> IF k = m THEN g[m - 1] \o Entry(names[m]) ELSE g[k]]
    OBVIOUS
  <2>5. g \in [0 .. m - 1 -> Seq(Signatures)] /\ g[0] = <<>>
    BY <2>2 DEF Grows
  <2>6. g[m - 1] \o Entry(names[m]) \in Seq(Signatures)
    <3>1. m - 1 \in 0 .. m - 1
      BY <2>1
    <3>2. QED
      BY <2>3, <2>5, <3>1
  <2>7. h \in [0 .. m -> Seq(Signatures)] /\ h[0] = <<>>
    <3>1. \A k \in 0 .. m : k # m => k \in 0 .. m - 1
      BY <2>1
    <3>2. 0 \in 0 .. m /\ 0 # m
      BY <2>1
    <3>3. QED
      BY <2>4, <2>5, <2>6, <3>1, <3>2
  <2>8. ASSUME NEW k \in 1 .. m
        PROVE  h[k] = h[k - 1] \o Entry(names[k])
    <3>1. h[k - 1] = g[k - 1]
      <4>1. k - 1 \in 0 .. m /\ k - 1 # m
        BY <2>1
      <4>2. QED
        BY <2>4, <4>1
    <3>2. CASE k = m
      <4>1. h[m] = g[m - 1] \o Entry(names[m])
        BY <2>1, <2>4
      <4>2. QED
        BY <3>1, <3>2, <4>1
    <3>3. CASE k # m
      <4>1. k \in 1 .. m - 1
        BY <2>1, <3>3
      <4>2. g[k] = g[k - 1] \o Entry(names[k])
        BY <2>2, <4>1 DEF Grows
      <4>3. k \in 0 .. m
        BY <2>1
      <4>4. h[k] = g[k]
        BY <2>4, <3>3, <4>3
      <4>5. QED
        BY <3>1, <4>2, <4>4
    <3>4. QED
      BY <3>2, <3>3
  <2>9. Grows(names, h, m)
    BY <2>7, <2>8 DEF Grows
  <2>10. QED
    BY <1>1, <2>9
<1>4. QED
  BY <1>2, <1>3

(* Directory is the last value of such a function.                         *)
LEMMA DirectoryGrows ==
    ASSUME NEW names \in Seq(Nat)
    PROVE  \E g : Grows(names, g, Len(names)) /\ Directory(names) = g[Len(names)]
<1> DEFINE n == Len(names)
           Is(g) == g = [k \in 0 .. n |-> IF k = 0 THEN <<>> ELSE g[k - 1] \o Entry(names[k])]
           upTo == CHOOSE g : Is(g)
<1>0. n \in Nat
  OBVIOUS
<1>1. PICK f : Grows(names, f, n)
  BY GrowsExists
<1>2. Is(f)
  BY <1>1 DEF Grows
<1>3. Is(upTo)
  BY <1>2
<1>4. Directory(names) = upTo[n]
  BY DEF Directory
<1> HIDE DEF upTo
<1>5. \A k \in 0 .. n : upTo[k] = f[k]
  <2> DEFINE Differ == {k \in 0 .. n : upTo[k] # f[k]}
  <2> SUFFICES ASSUME Differ # {}
               PROVE  FALSE
    OBVIOUS
  <2>1. PICK k \in Differ : \A y \in Differ : k <= y
    <3>1. Differ \subseteq Nat
      OBVIOUS
    <3> HIDE DEF Differ
    <3>2. QED
      BY <3>1, LeastNumber
  <2>2. k \in 0 .. n /\ upTo[k] # f[k]
    BY <2>1
  <2>3. k # 0
    BY <1>1, <1>3, <2>2 DEF Grows
  <2>4. k \in 1 .. n /\ k - 1 \in 0 .. n /\ ~(k <= k - 1)
    BY <1>0, <2>2, <2>3
  <2>5. upTo[k - 1] = f[k - 1]
    BY <2>1, <2>4
  <2>6. upTo[k] = upTo[k - 1] \o Entry(names[k])
    BY <1>3, <2>2, <2>3
  <2>7. f[k] = f[k - 1] \o Entry(names[k])
    BY <1>1, <2>4 DEF Grows
  <2>8. QED
    BY <2>2, <2>5, <2>6, <2>7
<1>6. QED
  BY <1>0, <1>1, <1>4, <1>5

(* What the first k headers and their names take.                          *)
First(names, k) == Directory(SubSeq(names, 1, k))
(* The first k entries of a directory are the first k - 1 and the entry of *)
(* the k-th name.                                                          *)
LEMMA FirstGrows ==
    ASSUME NEW names \in Seq(Nat)
    PROVE  /\ First(names, 0) = <<>>
           /\ First(names, Len(names)) = Directory(names)
           /\ \A k \in 0 .. Len(names) : First(names, k) \in Seq(Signatures)
           /\ \A k \in 1 .. Len(names) : First(names, k) = First(names, k - 1) \o Entry(names[k])
<1> DEFINE n == Len(names)
<1>0. n \in Nat
  OBVIOUS
<1>1. PICK f : Grows(names, f, n)
  BY GrowsExists
<1>2. ASSUME NEW k \in 0 .. n
      PROVE  First(names, k) = f[k]
  <2> DEFINE part == SubSeq(names, 1, k)
  <2>1. part \in Seq(Nat) /\ Len(part) = k /\ \A i \in 1 .. k : part[i] = names[i]
    BY <1>0
  <2> HIDE DEF part
  <2>2. PICK g : Grows(part, g, k) /\ Directory(part) = g[k]
    BY <2>1, DirectoryGrows
  <2> DEFINE Differ == {i \in 0 .. k : g[i] # f[i]}
  <2>3. Differ = {}
    <3> SUFFICES ASSUME Differ # {}
                 PROVE  FALSE
      OBVIOUS
    <3>1. PICK i \in Differ : \A y \in Differ : i <= y
      <4>1. Differ \subseteq Nat
        OBVIOUS
      <4> HIDE DEF Differ
      <4>2. QED
        BY <4>1, LeastNumber
    <3>2. i \in 0 .. k /\ g[i] # f[i]
      BY <3>1
    <3>3. i # 0
      BY <1>1, <2>2, <3>2 DEF Grows
    <3>4. i \in 1 .. k /\ i \in 1 .. n /\ i - 1 \in 0 .. k /\ ~(i <= i - 1)
      BY <1>0, <3>2, <3>3
    <3>5. g[i - 1] = f[i - 1]
      BY <3>1, <3>4
    <3>6. g[i] = g[i - 1] \o Entry(names[i])
      BY <2>1, <2>2, <3>4 DEF Grows
    <3>7. f[i] = f[i - 1] \o Entry(names[i])
      BY <1>1, <3>4 DEF Grows
    <3>8. QED
      BY <3>2, <3>5, <3>6, <3>7
  <2>4. k \in 0 .. k
    OBVIOUS
  <2>5. QED
    BY <2>2, <2>3, <2>4 DEF First, part
<1>3. SubSeq(names, 1, n) = names
  BY <1>0
<1>4. f \in [0 .. n -> Seq(Signatures)] /\ f[0] = <<>>
      /\ \A k \in 1 .. n : f[k] = f[k - 1] \o Entry(names[k])
  BY <1>1 DEF Grows
<1>5. \A k \in 1 .. n : k - 1 \in 0 .. n /\ k \in 0 .. n
  BY <1>0
<1>6. 0 \in 0 .. n /\ n \in 0 .. n
  BY <1>0
<1>7. First(names, n) = Directory(names)
  BY <1>3 DEF First
<1> HIDE DEF n
<1>8. QED
  BY <1>2, <1>4, <1>5, <1>6, <1>7 DEF n

(* Two sequences, one behind the other.                                    *)
LEMMA Behind ==
    ASSUME NEW S, NEW a \in Seq(S), NEW b \in Seq(S)
    PROVE  /\ a \o b \in Seq(S) /\ Len(a \o b) = Len(a) + Len(b)
           /\ \A i \in 1 .. Len(a) : (a \o b)[i] = a[i]
           /\ \A i \in 1 .. Len(b) : (a \o b)[Len(a) + i] = b[i]
<1>1. Len(a) \in Nat /\ Len(b) \in Nat
  OBVIOUS
<1>2. /\ a \o b \in Seq(S) /\ Len(a \o b) = Len(a) + Len(b)
      /\ \A i \in 1 .. Len(a) + Len(b) : (a \o b)[i] = IF i <= Len(a) THEN a[i] ELSE b[i - Len(a)]
  BY ConcatProperties
<1>3. \A i \in 1 .. Len(a) : i \in 1 .. Len(a) + Len(b) /\ i <= Len(a)
  BY <1>1
<1>4. \A i \in 1 .. Len(b) : Len(a) + i \in 1 .. Len(a) + Len(b) /\ ~(Len(a) + i <= Len(a))
                                /\ (Len(a) + i) - Len(a) = i
  BY <1>1
<1>5. QED
  BY ONLY <1>2, <1>3, <1>4

(* Where a header begins, counted from the first one.                      *)
Size(names, k) == Len(First(names, k))
(* How long the first k entries are; what the first k - 1 hold stays where *)
(* it is.                                                                  *)
LEMMA SizeGrows ==
    ASSUME NEW names \in Seq(Nat)
    PROVE  /\ Size(names, 0) = 0 /\ Size(names, Len(names)) = Len(Directory(names))
           /\ \A k \in 0 .. Len(names) : Size(names, k) \in Nat
           /\ \A k \in 1 .. Len(names) :
                 /\ Size(names, k) = Size(names, k - 1) + HeaderSize + names[k]
                 /\ \A i \in 1 .. Size(names, k - 1) : First(names, k)[i] = First(names, k - 1)[i]
                 /\ \A i \in 1 .. HeaderSize + names[k] :
                       First(names, k)[Size(names, k - 1) + i] = IF i = 1 THEN "header" ELSE "none"
<1>1. /\ First(names, 0) = <<>>
      /\ First(names, Len(names)) = Directory(names)
      /\ \A k \in 0 .. Len(names) : First(names, k) \in Seq(Signatures)
      /\ \A k \in 1 .. Len(names) : First(names, k) = First(names, k - 1) \o Entry(names[k])
  BY FirstGrows
<1>2. \A k \in 0 .. Len(names) : Size(names, k) \in Nat
  BY <1>1 DEF Size
<1>3. ASSUME NEW k \in 1 .. Len(names)
      PROVE  /\ Size(names, k) = Size(names, k - 1) + HeaderSize + names[k]
             /\ \A i \in 1 .. Size(names, k - 1) : First(names, k)[i] = First(names, k - 1)[i]
             /\ \A i \in 1 .. HeaderSize + names[k] :
                   First(names, k)[Size(names, k - 1) + i] = IF i = 1 THEN "header" ELSE "none"
  <2>1. names[k] \in Nat /\ k - 1 \in 0 .. Len(names) /\ HeaderSize \in Nat
    BY ArchiveAssumption
  <2>2. PICK a, b : a = First(names, k - 1) /\ b = Entry(names[k])
    OBVIOUS
  <2>3. a \in Seq(Signatures) /\ First(names, k) = a \o b
    BY <1>1, <2>1, <2>2
  <2>4. /\ b \in Seq(Signatures) /\ Len(b) = HeaderSize + names[k]
        /\ \A i \in 1 .. HeaderSize + names[k] : b[i] = IF i = 1 THEN "header" ELSE "none"
    BY <2>1, <2>2, EntryBytes
  <2>5. /\ Len(a \o b) = Len(a) + Len(b)
        /\ \A i \in 1 .. Len(a) : (a \o b)[i] = a[i]
        /\ \A i \in 1 .. Len(b) : (a \o b)[Len(a) + i] = b[i]
    <3>1. a \in Seq(Signatures) /\ b \in Seq(Signatures)
      BY <2>3, <2>4
    <3>2. QED
      BY ONLY <3>1, Behind
  <2>6. Size(names, k - 1) = Len(a) /\ Len(a) \in Nat /\ Size(names, k) = Len(a \o b)
    BY <2>2, <2>3 DEF Size
  <2>7. Size(names, k) = Size(names, k - 1) + HeaderSize + names[k]
    BY <2>1, <2>4, <2>5, <2>6
  <2>8. \A i \in 1 .. Size(names, k - 1) : First(names, k)[i] = First(names, k - 1)[i]
    BY ONLY <2>2, <2>3, <2>5, <2>6
  <2>9. ASSUME NEW i \in 1 .. HeaderSize + names[k]
        PROVE  First(names, k)[Size(names, k - 1) + i] = IF i = 1 THEN "header" ELSE "none"
    <3>1. First(names, k)[Size(names, k - 1) + i] = b[i]
      BY ONLY <2>3, <2>4, <2>5, <2>6, i \in 1 .. HeaderSize + names[k]
    <3>2. b[i] = IF i = 1 THEN "header" ELSE "none"
      BY <2>4
    <3>3. QED
      BY ONLY <3>1, <3>2
  <2>10. QED
    BY <2>7, <2>8, <2>9
<1>4. QED
  BY <1>1, <1>2, <1>3 DEF Size

(* One header at least lies between the beginnings of two entries.         *)
LEMMA SizeMonotone ==
    ASSUME NEW names \in Seq(Nat), NEW j \in 0 .. Len(names), NEW k \in 0 .. Len(names), j < k
    PROVE  Size(names, j) + HeaderSize <= Size(names, k)
<1> DEFINE Bad == {m \in j + 1 .. Len(names) : ~(Size(names, j) + HeaderSize <= Size(names, m))}
<1>0. /\ HeaderSize \in Nat /\ j \in Nat /\ Len(names) \in Nat
      /\ \A m \in 0 .. Len(names) : Size(names, m) \in Nat
      /\ \A m \in 1 .. Len(names) : names[m] \in Nat
      /\ \A m \in 1 .. Len(names) : Size(names, m) = Size(names, m - 1) + HeaderSize + names[m]
  <2>1. \A m \in 1 .. Len(names) : names[m] \in Nat
    OBVIOUS
  <2>2. HeaderSize \in Nat /\ j \in Nat /\ Len(names) \in Nat
    BY ArchiveAssumption
  <2>3. QED
    BY <2>1, <2>2, SizeGrows
<1>1. Bad = {}
  <2> SUFFICES ASSUME Bad # {}
               PROVE  FALSE
    OBVIOUS
  <2>1. PICK m \in Bad : \A y \in Bad : m <= y
    <3>1. Bad \subseteq Nat
      BY <1>0
    <3> HIDE DEF Bad
    <3>2. QED
      BY <3>1, LeastNumber
  <2>2. m \in 1 .. Len(names) /\ m - 1 \in 0 .. Len(names) /\ m \in 0 .. Len(names) /\ m - 1 >= j /\ ~(m <= m - 1)
    BY <1>0, <2>1
  <2>3. Size(names, m) = Size(names, m - 1) + HeaderSize + names[m] /\ names[m] \in Nat
        /\ Size(names, m - 1) \in Nat /\ Size(names, j) \in Nat
    BY <1>0, <2>2
  <2>4. CASE m - 1 = j
    <3>1. Size(names, m - 1) = Size(names, j)
      BY <2>4
    <3>2. Size(names, j) + HeaderSize <= Size(names, m)
      <4>1. \A x, y, z, h \in Nat : x = y /\ h \in Nat => x + h <= y + h + z
        OBVIOUS
      <4>2. HeaderSize \in Nat
        BY <1>0
      <4>3. QED
        BY ONLY <2>3, <3>1, <4>1, <4>2
    <3>3. QED
      BY <2>1, <3>2
  <2>5. CASE m - 1 # j
    <3>1. m - 1 \in j + 1 .. Len(names) /\ m - 1 \notin Bad
      BY <1>0, <2>1, <2>2, <2>5
    <3>2. Size(names, j) + HeaderSize <= Size(names, m - 1)
      BY <3>1
    <3>3. QED
      <4>1. \A w, x, y, h \in Nat : w + h <= x => w + h <= x + h + y
        OBVIOUS
      <4>2. HeaderSize \in Nat
        BY <1>0
      <4>3. Size(names, j) + HeaderSize <= Size(names, m)
        BY ONLY <2>3, <3>2, <4>1, <4>2
      <4>4. QED
        BY <2>1, <4>3
  <2>6. QED
    BY <2>4, <2>5
<1>2. k \in j + 1 .. Len(names)
  BY <1>0
<1>3. QED
  BY <1>1, <1>2

(* The signatures of headers stand where headers begin and nowhere else.   *)
LEMMA HeadersOf ==
    ASSUME NEW names \in Seq(Nat), NEW k \in 0 .. Len(names)
    PROVE  \A i \in 1 .. Size(names, k) :
              First(names, k)[i] = "header" <=> \E j \in 1 .. k : i = Size(names, j - 1) + 1
<1> DEFINE Right(m) == \A i \in 1 .. Size(names, m) :
              First(names, m)[i] = "header" <=> \E j \in 1 .. m : i = Size(names, j - 1) + 1
           Bad == {m \in 0 .. Len(names) : ~Right(m)}
<1>0. /\ HeaderSize \in Nat /\ HeaderSize >= 1 /\ Len(names) \in Nat /\ Size(names, 0) = 0
      /\ \A m \in 0 .. Len(names) : Size(names, m) \in Nat
      /\ \A m \in 1 .. Len(names) :
            /\ names[m] \in Nat
            /\ Size(names, m) = Size(names, m - 1) + HeaderSize + names[m]
            /\ \A i \in 1 .. Size(names, m - 1) : First(names, m)[i] = First(names, m - 1)[i]
            /\ \A i \in 1 .. HeaderSize + names[m] :
                  First(names, m)[Size(names, m - 1) + i] = IF i = 1 THEN "header" ELSE "none"
  <2>1. HeaderSize \in Nat /\ HeaderSize >= 1
    BY ArchiveAssumption
  <2>2. Len(names) \in Nat /\ \A m \in 1 .. Len(names) : names[m] \in Nat
    OBVIOUS
  <2>3. QED
    BY <2>1, <2>2, SizeGrows
<1> SUFFICES ASSUME Bad # {}
             PROVE  FALSE
  OBVIOUS
<1>1. PICK m \in Bad : \A y \in Bad : m <= y
  <2>1. Bad \subseteq Nat
    OBVIOUS
  <2> HIDE DEF Bad
  <2>2. QED
    BY <2>1, LeastNumber
<1>2. m \in 0 .. Len(names) /\ ~Right(m)
  BY <1>1
<1>3. m # 0
  BY <1>0, <1>2
<1>4. m \in 1 .. Len(names) /\ m - 1 \in 0 .. Len(names) /\ ~(m <= m - 1) /\ m \in Nat
  BY <1>0, <1>2, <1>3
<1>5. Right(m - 1)
  BY <1>1, <1>4
<1>6. PICK s \in Nat : s = Size(names, m - 1)
  BY <1>0, <1>4
<1>7. ASSUME NEW i \in 1 .. Size(names, m)
      PROVE  First(names, m)[i] = "header" <=> \E j \in 1 .. m : i = Size(names, j - 1) + 1
  <2>1. CASE i <= s
    <3>1. i \in 1 .. Size(names, m - 1)
      BY <1>6, <2>1
    <3>2. First(names, m)[i] = First(names, m - 1)[i]
      BY <1>0, <1>4, <3>1
    <3>3. \A j \in 1 .. m : i = Size(names, j - 1) + 1 => j \in 1 .. m - 1
      <4>1. \A j \in 1 .. m : j # m => j \in 1 .. m - 1
        BY <1>4
      <4>2. i # s + 1
        BY <1>6, <2>1
      <4>3. QED
        BY <1>6, <4>1, <4>2
    <3>4. 1 .. m - 1 \subseteq 1 .. m
      BY <1>4
    <3>5. QED
      BY <1>5, <3>1, <3>2, <3>3, <3>4
  <2>2. CASE ~(i <= s)
    <3>1. PICK e \in Int : e = i - s
      BY <1>6
    <3>2. e \in 1 .. HeaderSize + names[m] /\ s + e = i
      <4>1. Size(names, m) = s + HeaderSize + names[m] /\ names[m] \in Nat /\ Size(names, m) \in Nat
        BY <1>0, <1>2, <1>4, <1>6
      <4>2. i \in Int /\ i <= Size(names, m) /\ i >= 1
        BY <4>1
      <4>3. HeaderSize \in Nat /\ s \in Nat
        BY <1>0, <1>6
      <4>4. QED
        BY ONLY <2>2, <3>1, <4>1, <4>2, <4>3
    <3>3. First(names, m)[i] = IF e = 1 THEN "header" ELSE "none"
      BY <1>0, <1>4, <1>6, <3>2
    <3>4. ASSUME NEW j \in 1 .. m, i = Size(names, j - 1) + 1
          PROVE  e = 1
      <4>1. CASE j = m
        BY <1>6, <3>1, <3>4, <4>1
      <4>2. CASE j # m
        <5>1. j - 1 \in 0 .. Len(names) /\ j - 1 < m - 1
          BY <1>4, <4>2
        <5>2. PICK a \in 0 .. Len(names) : a = j - 1
          BY <5>1
        <5>3. PICK b \in 0 .. Len(names) : b = m - 1
          BY <1>4
        <5>4. Size(names, a) + HeaderSize <= Size(names, b)
          BY <5>1, <5>2, <5>3, SizeMonotone
        <5>5. Size(names, a) \in Nat /\ i = Size(names, a) + 1 /\ Size(names, b) = s
          BY <1>0, <1>6, <3>4, <5>2, <5>3
        <5>6. QED
          BY <1>0, <2>2, <5>4, <5>5
      <4>3. QED
        BY <4>1, <4>2
    <3>5. e = 1 => i = Size(names, m - 1) + 1 /\ m \in 1 .. m
      BY <1>4, <1>6, <3>2
    <3>6. QED
      BY <3>3, <3>4, <3>5
  <2>3. QED
    BY <1>6, <2>1, <2>2
<1>8. QED
  BY <1>2, <1>7

(* The bytes of an archive.                                                *)
LEMMA ArchiveBytes ==
    ASSUME NEW f \in Inputs, f.zip
    PROVE  LET a == Len(f.front)  d == Len(Directory(f.names))  c == Len(f.comment) IN
           /\ a \in Nat /\ d \in Nat /\ c \in 0 .. UINT16_MAX
           /\ Len(Bytes(f)) = a + d + RecordSize + c
           /\ \A i \in 1 .. a : Bytes(f)[i] = f.front[i]
           /\ \A i \in 1 .. d : Bytes(f)[a + i] = Directory(f.names)[i]
           /\ \A i \in 1 .. RecordSize : Bytes(f)[a + d + i] = IF i = 1 THEN "end" ELSE "none"
           /\ \A i \in 1 .. c : Bytes(f)[a + d + RecordSize + i] = f.comment[i]
<1>1. /\ f.front \in Seq(Signatures) /\ f.names \in Seq(Nat) /\ f.comment \in Seq(Signatures)
      /\ Len(f.comment) <= UINT16_MAX /\ RecordSize \in Nat /\ UINT16_MAX \in Nat
  BY ArchiveAssumption
<1>2. Directory(f.names) \in Seq(Signatures)
  <2>1. Len(f.names) \in 0 .. Len(f.names)
    BY <1>1
  <2>2. QED
    BY <1>1, <2>1, FirstGrows
<1>3. PICK p, q, r, s : p = f.front /\ q = Directory(f.names) /\ r = Struct("end", RecordSize) /\ s = f.comment
  OBVIOUS
<1>4. Bytes(f) = (p \o (q \o r)) \o s
  BY <1>3 DEF Bytes
<1>5. /\ r \in Seq(Signatures) /\ Len(r) = RecordSize
      /\ \A i \in 1 .. RecordSize : r[i] = IF i = 1 THEN "end" ELSE "none"
  BY <1>1, <1>3 DEF Struct, Signatures
<1>6. p \in Seq(Signatures) /\ q \in Seq(Signatures) /\ s \in Seq(Signatures)
  BY <1>1, <1>2, <1>3
<1>7. PICK a \in Nat, d \in Nat, c \in Nat : a = Len(p) /\ d = Len(q) /\ c = Len(s)
  BY <1>6
<1>8. PICK u : u = q \o r
  OBVIOUS
<1>9. /\ u \in Seq(Signatures) /\ Len(u) = d + RecordSize
      /\ \A i \in 1 .. d : u[i] = q[i]
      /\ \A i \in 1 .. RecordSize : u[d + i] = r[i]
  BY ONLY <1>5, <1>6, <1>7, <1>8, Behind
<1>10. PICK v : v = p \o u
  OBVIOUS
<1>11. /\ v \in Seq(Signatures) /\ Len(v) = a + (d + RecordSize)
       /\ \A i \in 1 .. a : v[i] = p[i]
       /\ \A i \in 1 .. d + RecordSize : v[a + i] = u[i]
  BY ONLY <1>6, <1>7, <1>9, <1>10, Behind
<1>12. PICK w : w = v \o s
  OBVIOUS
<1>13. /\ Len(w) = (a + (d + RecordSize)) + c
       /\ \A i \in 1 .. a + (d + RecordSize) : w[i] = v[i]
       /\ \A i \in 1 .. c : w[(a + (d + RecordSize)) + i] = s[i]
  <2>1. v \in Seq(Signatures) /\ s \in Seq(Signatures)
    BY <1>6, <1>11
  <2>2. /\ Len(w) = Len(v) + Len(s)
        /\ \A i \in 1 .. Len(v) : w[i] = v[i]
        /\ \A i \in 1 .. Len(s) : w[Len(v) + i] = s[i]
    BY ONLY <1>12, <2>1, Behind
  <2>3. Len(v) = a + (d + RecordSize) /\ Len(s) = c
    BY <1>7, <1>11
  <2>4. QED
    BY ONLY <2>2, <2>3
<1>14. Bytes(f) = w
  BY <1>4, <1>8, <1>10, <1>12
<1>15. Len(w) = a + d + RecordSize + c
  BY <1>1, <1>7, <1>13
<1>16. \A i \in 1 .. a : w[i] = p[i]
  <2>1. \A i \in 1 .. a : i \in 1 .. a + (d + RecordSize)
    BY <1>1, <1>7
  <2>2. QED
    BY <1>11, <1>13, <2>1
<1>17. \A i \in 1 .. d : w[a + i] = q[i]
  <2>1. \A i \in 1 .. d : i \in 1 .. d + RecordSize /\ a + i \in 1 .. a + (d + RecordSize)
    BY <1>1, <1>7
  <2>2. QED
    BY <1>9, <1>11, <1>13, <2>1
<1>18. \A i \in 1 .. RecordSize : w[a + d + i] = IF i = 1 THEN "end" ELSE "none"
  <2>1. \A i \in 1 .. RecordSize : d + i \in 1 .. d + RecordSize /\ a + d + i \in 1 .. a + (d + RecordSize)
                                       /\ a + d + i = a + (d + i)
    BY <1>1, <1>7
  <2>2. QED
    BY <1>5, <1>9, <1>11, <1>13, <2>1
<1>19. \A i \in 1 .. c : w[a + d + RecordSize + i] = s[i]
  <2>1. \A i \in 1 .. c : a + d + RecordSize + i = (a + (d + RecordSize)) + i
    BY <1>1, <1>7
  <2>2. QED
    BY <1>13, <2>1
<1>20. c \in 0 .. UINT16_MAX
  BY <1>1, <1>3, <1>7
<1>21. QED
  BY <1>3, <1>7, <1>14, <1>15, <1>16, <1>17, <1>18, <1>19, <1>20

(* There is no header but those of the directory.                          *)
NoStray(f) == ~("header" \in Range(f.front) \union Range(f.comment))
Offset(f, k) == Len(f.front) + Size(f.names, k - 1)
(* In a whole file: when neither the front nor the comment has a header, a *)
(* header begins exactly where an entry of the directory does, and all of  *)
(* it is in the file.                                                      *)
LEMMA HeadersOfArchive ==
    ASSUME NEW f \in Inputs, f.zip, NoStray(f), NEW p \in 0 .. Len(Bytes(f)) - 1
    PROVE  /\ Bytes(f)[p + 1] = "header" <=> \E k \in 1 .. Len(f.names) : p = Offset(f, k)
           /\ Bytes(f)[p + 1] = "header" => p + HeaderSize <= Len(Bytes(f))
<1>1. /\ f.front \in Seq(Signatures) /\ f.names \in Seq(Nat) /\ f.comment \in Seq(Signatures)
      /\ RecordSize \in Nat /\ RecordSize >= 1 /\ HeaderSize \in Nat /\ HeaderSize >= 1
  BY ArchiveAssumption
<1>2. PICK a \in Nat, d \in Nat, c \in Nat, n \in Nat :
          a = Len(f.front) /\ d = Len(Directory(f.names)) /\ c = Len(f.comment) /\ n = Len(f.names)
  <2>1. Len(f.front) \in Nat /\ Len(f.comment) \in Nat /\ Len(f.names) \in Nat
    BY <1>1
  <2>2. Len(Directory(f.names)) \in Nat
    BY ArchiveBytes
  <2>3. QED
    BY <2>1, <2>2
<1>3. /\ Len(Bytes(f)) = a + d + RecordSize + c
      /\ \A i \in 1 .. a : Bytes(f)[i] = f.front[i]
      /\ \A i \in 1 .. d : Bytes(f)[a + i] = Directory(f.names)[i]
      /\ \A i \in 1 .. RecordSize : Bytes(f)[a + d + i] = IF i = 1 THEN "end" ELSE "none"
      /\ \A i \in 1 .. c : Bytes(f)[a + d + RecordSize + i] = f.comment[i]
  BY <1>2, ArchiveBytes
<1>4. /\ Size(f.names, 0) = 0 /\ Size(f.names, n) = d /\ First(f.names, n) = Directory(f.names)
      /\ \A k \in 0 .. n : Size(f.names, k) \in Nat
  BY <1>1, <1>2, SizeGrows, FirstGrows
<1>5. \A i \in 1 .. d : Directory(f.names)[i] = "header" <=> \E k \in 1 .. n : i = Size(f.names, k - 1) + 1
  <2>1. n \in 0 .. Len(f.names)
    BY <1>2
  <2>2. QED
    <3>1. PICK names \in Seq(Nat) : names = f.names
      BY <1>1
    <3>2. \A i \in 1 .. Size(names, n) :
              First(names, n)[i] = "header" <=> \E j \in 1 .. n : i = Size(names, j - 1) + 1
      BY <2>1, <3>1, HeadersOf
    <3>3. QED
      BY ONLY <1>4, <3>1, <3>2
<1>6. ASSUME NEW k \in 1 .. n
      PROVE  Size(f.names, k - 1) \in Nat /\ Size(f.names, k - 1) + HeaderSize <= d
  <2>1. PICK j \in 0 .. Len(f.names) : j = k - 1 /\ j < n
    BY <1>2
  <2>2. n \in 0 .. Len(f.names)
    BY <1>2
  <2>3. Size(f.names, j) + HeaderSize <= Size(f.names, n)
    BY <1>1, <2>1, <2>2, SizeMonotone
  <2>4. QED
    BY <1>2, <1>4, <2>1, <2>3
<1>7. \A k \in 1 .. n : Offset(f, k) = a + Size(f.names, k - 1)
  BY <1>2 DEF Offset
<1>8. /\ \A i \in 1 .. a : f.front[i] # "header"
      /\ \A i \in 1 .. c : f.comment[i] # "header"
  BY <1>1, <1>2 DEF NoStray, Range
<1>9. p \in Nat /\ p < a + d + RecordSize + c
  BY <1>1, <1>3
<1>10. ASSUME p < a
       PROVE  Bytes(f)[p + 1] # "header" /\ \A k \in 1 .. n : p # Offset(f, k)
  <2>1. p + 1 \in 1 .. a
    BY <1>9, <1>10
  <2>2. QED
    BY <1>3, <1>6, <1>7, <1>8, <1>10, <2>1
<1>11. ASSUME p >= a, p < a + d
       PROVE  /\ Bytes(f)[p + 1] = "header" <=> \E k \in 1 .. n : p = Offset(f, k)
              /\ Bytes(f)[p + 1] = "header" => p + HeaderSize <= a + d
  <2>1. PICK i \in Nat : i = p - a + 1
    BY <1>9, <1>11
  <2>2. i \in 1 .. d /\ a + i = p + 1
    BY <1>9, <1>11, <2>1
  <2>3. Bytes(f)[p + 1] = Directory(f.names)[i]
    BY <1>3, <2>2
  <2>4. \A k \in 1 .. n : p = Offset(f, k) <=> i = Size(f.names, k - 1) + 1
    <3> TAKE k \in 1 .. n
    <3>1. PICK z \in Nat : z = Size(f.names, k - 1) /\ Offset(f, k) = a + z
      BY <1>6, <1>7
    <3>2. p = a + z <=> i = z + 1
      BY <1>9, <2>1
    <3>3. QED
      BY <3>1, <3>2
  <2>5. Bytes(f)[p + 1] = "header" <=> \E k \in 1 .. n : p = Offset(f, k)
    BY <1>5, <2>2, <2>3, <2>4
  <2>6. ASSUME NEW k \in 1 .. n, p = Offset(f, k)
        PROVE  p + HeaderSize <= a + d
    <3>1. PICK z \in Nat : z = Size(f.names, k - 1) /\ z + HeaderSize <= d /\ p = a + z
      BY <1>6, <1>7, <2>6
    <3>2. QED
      BY <1>1, <3>1
  <2>7. QED
    BY <2>5, <2>6
<1>12. ASSUME p >= a + d
       PROVE  Bytes(f)[p + 1] # "header" /\ \A k \in 1 .. n : p # Offset(f, k)
  <2>1. \A k \in 1 .. n : p # Offset(f, k)
    <3> SUFFICES ASSUME NEW k \in 1 .. n, p = Offset(f, k)
                 PROVE  FALSE
      OBVIOUS
    <3>1. PICK z \in Nat : z = Size(f.names, k - 1) /\ z + HeaderSize <= d /\ p = a + z
      BY <1>6, <1>7
    <3>2. QED
      BY <1>1, <1>12, <3>1
  <2>2. CASE p < a + d + RecordSize
    <3>1. PICK i \in Nat : i = p - a - d + 1
      BY <1>9, <1>12
    <3>2. i \in 1 .. RecordSize /\ a + d + i = p + 1
      BY <1>1, <1>9, <1>12, <2>2, <3>1
    <3>3. Bytes(f)[p + 1] = IF i = 1 THEN "end" ELSE "none"
      BY <1>3, <3>2
    <3>4. QED
      BY <2>1, <3>3
  <2>3. CASE ~(p < a + d + RecordSize)
    <3>1. PICK i \in Nat : i = p - a - d - RecordSize + 1
      BY <1>1, <1>9, <2>3
    <3>2. i \in 1 .. c /\ a + d + RecordSize + i = p + 1
      BY <1>1, <1>9, <2>3, <3>1
    <3>3. Bytes(f)[p + 1] = f.comment[i]
      BY <1>3, <3>2
    <3>4. QED
      BY <1>8, <2>1, <3>2, <3>3
  <2>4. QED
    BY <2>2, <2>3
<1>13. a + d <= Len(Bytes(f))
  BY <1>1, <1>3
<1>14. QED
  <2>1. CASE p < a
    BY <1>2, <1>10, <2>1
  <2>2. CASE p >= a /\ p < a + d
    <3>1. PICK z \in Nat : z = Len(Bytes(f))
      BY <1>1, <1>3
    <3>2. p + HeaderSize <= a + d => p + HeaderSize <= z
      BY <1>1, <1>9, <1>13, <3>1
    <3>3. QED
      BY <1>2, <1>11, <2>2, <3>1, <3>2
  <2>3. CASE p >= a + d
    BY <1>2, <1>12, <2>3
  <2>4. QED
    BY <1>9, <2>1, <2>2, <2>3

(* The headers before a place have been listed, and no others.             *)
ListedBefore(f, seq, p) ==
    /\ Len(seq) <= Len(f.names)
    /\ \A k \in 1 .. Len(seq) : seq[k] = Offset(f, k)
    /\ \A k \in 1 .. Len(f.names) : Offset(f, k) < p <=> k <= Len(seq)
ArchiveInv ==
    /\ input \in Inputs /\ place \in Nat /\ listed \in Seq(Nat)
    /\ phase = "search" => listed = <<>> /\ (input.zip => place <= Len(input.comment))
    /\ phase = "not PKZip" => ~input.zip
    /\ phase \in {"list", "listed"} =>
          /\ input.zip \/ "end" \in Range(input.front)
          /\ place <= file_size
          /\ input.zip /\ NoStray(input) => ListedBefore(input, listed, place)
    /\ phase = "listed" => place = file_size

(* The entries begin one behind the other, and within the file.            *)
LEMMA OffsetsGrow ==
    ASSUME NEW f \in Inputs, NEW j \in 1 .. Len(f.names), NEW k \in 1 .. Len(f.names)
    PROVE  /\ Offset(f, j) \in Nat
           /\ j < k => Offset(f, j) < Offset(f, k)
           /\ f.zip => Offset(f, j) < Len(Bytes(f))
<1>1. /\ f.front \in Seq(Signatures) /\ f.names \in Seq(Nat) /\ RecordSize \in Nat
      /\ HeaderSize \in Nat /\ HeaderSize >= 1
  BY ArchiveAssumption
<1>2. PICK a \in Nat, n \in Nat : a = Len(f.front) /\ n = Len(f.names)
  BY <1>1
<1>3. \A i \in 0 .. n : Size(f.names, i) \in Nat
  BY <1>1, <1>2, SizeGrows
<1>4. PICK u \in 0 .. Len(f.names), v \in 0 .. Len(f.names) : u = j - 1 /\ v = k - 1
  BY <1>2
<1>5. u < n /\ n \in 0 .. Len(f.names)
  BY <1>2, <1>4
<1>6. Size(f.names, u) + HeaderSize <= Size(f.names, n)
  BY <1>1, <1>2, <1>5, SizeMonotone
<1>7. u < v => Size(f.names, u) + HeaderSize <= Size(f.names, v)
  BY <1>1, SizeMonotone
<1>8. Offset(f, j) = a + Size(f.names, u) /\ Offset(f, k) = a + Size(f.names, v)
  BY <1>2, <1>4 DEF Offset
<1>9. PICK x \in Nat, y \in Nat, z \in Nat : x = Size(f.names, u) /\ y = Size(f.names, v) /\ z = Size(f.names, n)
  BY <1>2, <1>3
<1>10. ASSUME f.zip
       PROVE  Offset(f, j) < Len(Bytes(f))
  <2>1. PICK d \in Nat, c \in Nat : d = Len(Directory(f.names)) /\ c = Len(f.comment)
                                    /\ Len(Bytes(f)) = a + d + RecordSize + c
    <3>1. Len(Directory(f.names)) \in Nat /\ Len(f.comment) \in Nat
      BY <1>10, ArchiveBytes
    <3>2. QED
      <4>1. Len(Bytes(f)) = Len(f.front) + Len(Directory(f.names)) + RecordSize + Len(f.comment)
        BY <1>10, ArchiveBytes
      <4>2. QED
        BY <1>2, <3>1, <4>1
  <2>2. z = d
    BY <1>1, <1>2, <1>9, <2>1, SizeGrows
  <2>3. x + HeaderSize <= z
    BY <1>6, <1>9
  <2>4. a + x < a + d + RecordSize + c
    BY <1>1, <2>2, <2>3
  <2>5. QED
    BY <1>8, <1>9, <2>1, <2>4
<1>11. j < k => Offset(f, j) < Offset(f, k)
  <2>1. j < k => u < v
    BY <1>2, <1>4
  <2>2. x + HeaderSize <= y => a + x < a + y
    BY <1>1
  <2>3. QED
    BY <1>7, <1>8, <1>9, <2>1, <2>2
<1>12. Offset(f, j) \in Nat
  BY <1>8, <1>9
<1>13. QED
  BY <1>10, <1>11, <1>12

(* What the parts of an input file are, and how long it is.                *)
LEMMA InputTypes ==
  ASSUME NEW f \in Inputs
  PROVE  /\ f.front \in Seq(Signatures) /\ Len(f.front) \in Nat
         /\ Len(f.names) \in Nat
         /\ Len(f.comment) \in Nat /\ Len(f.comment) <= UINT16_MAX
         /\ ~f.zip => Bytes(f) = f.front
         /\ Len(Bytes(f)) \in Nat
<1>1. /\ f.front \in Seq(Signatures) /\ f.zip \in BOOLEAN /\ f.names \in Seq(Nat)
      /\ f.comment \in Seq(Signatures) /\ Len(f.comment) <= UINT16_MAX
      /\ f.zip \/ f.comment = <<>>
  BY ArchiveAssumption
<1>2. Len(f.front) \in Nat /\ Len(f.names) \in Nat /\ Len(f.comment) \in Nat
  BY <1>1
<1>3. ASSUME ~f.zip
      PROVE  Bytes(f) = f.front
  <2>1. Bytes(f) = (f.front \o <<>>) \o <<>>
    BY <1>1, <1>3 DEF Bytes
  <2>2. PICK front \in Seq(Signatures) : front = f.front
    BY <1>1
  <2>3. (front \o <<>>) \o <<>> = front
    OBVIOUS
  <2>4. QED
    BY <2>1, <2>2, <2>3
<1>4. Len(Bytes(f)) \in Nat
  <2>1. CASE f.zip
    <3>1. Len(Directory(f.names)) \in Nat
      BY <2>1, ArchiveBytes
    <3>2. Len(Bytes(f)) = Len(f.front) + Len(Directory(f.names)) + RecordSize + Len(f.comment)
      BY <2>1, ArchiveBytes
    <3>3. RecordSize \in Nat
      BY ArchiveAssumption
    <3>4. PICK a \in Nat, d \in Nat, c \in Nat :
             a = Len(f.front) /\ d = Len(Directory(f.names)) /\ c = Len(f.comment)
      BY <1>2, <3>1
    <3>5. Len(Bytes(f)) = a + d + RecordSize + c
      BY <3>2, <3>4
    <3>6. a + d + RecordSize + c \in Nat
      BY <3>3
    <3>7. QED
      BY <3>5, <3>6
  <2>2. CASE ~f.zip
    BY <1>2, <1>3, <2>2
  <2>3. QED
    BY <2>1, <2>2
<1>5. QED
  BY <1>1, <1>2, <1>3, <1>4

(* The invariant holds of every state: while the record is searched the    *)
(* comment of an archive has not been passed, and while the headers are    *)
(* listed exactly those before the present place are.                      *)
THEOREM ArchiveInvariant == ArchiveSpec => []ArchiveInv
<1>0. /\ RecordSize \in Nat /\ RecordSize >= 1 /\ HeaderSize \in Nat /\ HeaderSize >= 1 /\ UINT16_MAX \in Nat
  BY ArchiveAssumption
<1>1. ArchiveInit => ArchiveInv
  <2> SUFFICES ASSUME ArchiveInit
               PROVE  ArchiveInv
    OBVIOUS
  <2>1. input \in Inputs /\ place = 0 /\ listed = <<>> /\ phase = "search"
    BY DEF ArchiveInit
  <2>2. Len(input.comment) \in Nat /\ listed \in Seq(Nat)
    BY <2>1, InputTypes
  <2>3. QED
    BY <2>1, <2>2 DEF ArchiveInv
<1>2. ArchiveInv /\ [ArchiveNext]_archiveVars => ArchiveInv'
  <2> SUFFICES ASSUME ArchiveInv, [ArchiveNext]_archiveVars
               PROVE  ArchiveInv'
    OBVIOUS
  <2>1. CASE FindRecord
    <3>1. /\ input \in Inputs /\ place \in Nat /\ listed = <<>> /\ listed \in Seq(Nat) /\ place <= UINT16_MAX
          /\ input.zip => place <= Len(input.comment)
          /\ phase = "search" /\ input' = input /\ listed' = listed
      BY <2>1 DEF FindRecord, ArchiveInv, LongestComment
    <3>2. CASE ReadsSignature(file_size - place - RecordSize, RecordSize, "end")
      <4>1. phase' = "list" /\ place' = 0
        BY <2>1, <3>2 DEF FindRecord
      <4>2. input.zip \/ "end" \in Range(input.front)
        <5> SUFFICES ASSUME ~input.zip
                     PROVE  "end" \in Range(input.front)
          OBVIOUS
        <5>1. PICK front \in Seq(Signatures) : front = input.front
          BY <3>1, InputTypes
        <5>2. Bytes(input) = front
          BY <3>1, <5>1, InputTypes
        <5>3. PICK n \in Nat : n = Len(front) /\ file_size = n
          BY <5>1, <5>2 DEF file_size
        <5>4. PICK o \in Int : o = file_size - place - RecordSize
          <6>1. n - place - RecordSize \in Int
            BY <1>0, <3>1, <5>3
          <6>2. QED
            BY <5>3, <6>1
        <5>5. o >= 0 /\ o + RecordSize <= n /\ front[o + 1] = "end"
          BY <3>2, <5>2, <5>3, <5>4 DEF ReadsSignature
        <5>6. o + 1 \in 1 .. n
          BY <1>0, <5>3, <5>5
        <5>7. QED
          BY <5>1, <5>3, <5>5, <5>6 DEF Range
      <4>3. 0 <= file_size
        <5>1. Len(Bytes(input)) \in Nat
          BY <3>1, InputTypes
        <5>2. QED
          BY <5>1 DEF file_size
      <4>4. input.zip => ListedBefore(input, <<>>, 0)
        <5>1. \A k \in 1 .. Len(input.names) : Offset(input, k) \in Nat
          BY <3>1, OffsetsGrow
        <5>2. Len(input.names) \in Nat
          BY <3>1, InputTypes
        <5>3. \A k \in 1 .. Len(input.names) : ~(Offset(input, k) < 0) /\ ~(k <= 0)
          BY <5>1, <5>2
        <5>4. Len(<<>>) = 0
          OBVIOUS
        <5>5. QED
          BY <5>2, <5>3, <5>4 DEF ListedBefore
      <4>5. QED
        BY <3>1, <4>1, <4>2, <4>3, <4>4 DEF ArchiveInv, file_size
    <3>3. CASE ~ReadsSignature(file_size - place - RecordSize, RecordSize, "end")
      <4>1. phase' = "search" /\ place' = place + 1
        BY <2>1, <3>1, <3>3 DEF FindRecord
      <4>2. ASSUME input.zip
            PROVE  place + 1 <= Len(input.comment)
        <5>1. PICK a \in Nat, d \in Nat, c \in Nat :
                 a = Len(input.front) /\ d = Len(Directory(input.names)) /\ c = Len(input.comment)
          <6>1. Len(input.front) \in Nat /\ Len(input.comment) \in Nat
            BY <3>1, InputTypes
          <6>2. Len(Directory(input.names)) \in Nat
            BY <3>1, <4>2, ArchiveBytes
          <6>3. QED
            BY <6>1, <6>2
        <5>2. /\ file_size = a + d + RecordSize + c
              /\ \A i \in 1 .. RecordSize : Bytes(input)[a + d + i] = IF i = 1 THEN "end" ELSE "none"
          BY <3>1, <4>2, <5>1, ArchiveBytes DEF file_size
        <5>3. Bytes(input)[a + d + 1] = "end"
          BY <1>0, <5>2
        <5>4. place # c
          <6> SUFFICES ASSUME place = c
                       PROVE  FALSE
            OBVIOUS
          <6>1. file_size - place - RecordSize = a + d
            BY <1>0, <5>2
          <6>2. a + d >= 0 /\ a + d + RecordSize <= file_size
            BY <1>0, <5>2
          <6>3. QED
            BY <3>3, <5>3, <6>1, <6>2 DEF ReadsSignature
        <5>5. QED
          BY <3>1, <4>2, <5>1, <5>4
      <4>3. QED
        BY <3>1, <4>1, <4>2 DEF ArchiveInv
    <3>4. QED
      BY <3>2, <3>3
  <2>2. CASE NotPKZip
    <3>1. /\ input \in Inputs /\ place \in Nat /\ ~(place <= UINT16_MAX)
          /\ input.zip => place <= Len(input.comment)
      <4>1. phase = "search" /\ place > UINT16_MAX
        BY <2>2 DEF NotPKZip, LongestComment
      <4>2. input \in Inputs /\ place \in Nat /\ (input.zip => place <= Len(input.comment))
        BY <4>1 DEF ArchiveInv
      <4>3. ~(place <= UINT16_MAX)
        BY <1>0, <4>1, <4>2
      <4>4. QED
        BY <4>2, <4>3
    <3>2. Len(input.comment) \in Nat /\ Len(input.comment) <= UINT16_MAX
      BY <3>1, InputTypes
    <3>3. ~input.zip
      BY <1>0, <3>1, <3>2
    <3>4. QED
      BY <2>2, <3>3 DEF NotPKZip, ArchiveInv
  <2>3. CASE ListHeader
    <3>1. /\ input \in Inputs /\ place \in Nat /\ listed \in Seq(Nat) /\ place < file_size
          /\ input.zip \/ "end" \in Range(input.front)
          /\ input.zip /\ NoStray(input) => ListedBefore(input, listed, place)
          /\ phase = "list" /\ phase' = phase /\ input' = input /\ place' = place + 1
          /\ listed' = IF ReadsSignature(place, HeaderSize, "header") THEN Append(listed, place) ELSE listed
      BY <2>3 DEF ListHeader, ArchiveInv
    <3>2. file_size \in Nat
      BY <3>1, InputTypes DEF file_size
    <3>3. place + 1 <= file_size /\ place + 1 \in Nat /\ listed' \in Seq(Nat)
      BY <3>1, <3>2
    <3>4. ASSUME input.zip, NoStray(input)
          PROVE  ListedBefore(input, listed', place + 1)
      <4>1. PICK n \in Nat, m \in Nat : n = Len(input.names) /\ m = Len(listed)
        <5>1. Len(input.names) \in Nat /\ Len(listed) \in Nat
          BY <3>1, InputTypes
        <5>2. QED
          BY <5>1
      <4>2. /\ m <= n
            /\ \A k \in 1 .. m : listed[k] = Offset(input, k)
            /\ \A k \in 1 .. n : Offset(input, k) < place <=> k <= m
        BY <3>1, <3>4, <4>1 DEF ListedBefore
      <4>3. /\ \A k \in 1 .. n : Offset(input, k) \in Nat
            /\ \A j, k \in 1 .. n : j < k => Offset(input, j) < Offset(input, k)
        BY <3>1, <4>1, OffsetsGrow
      <4>4. /\ Bytes(input)[place + 1] = "header" <=> \E k \in 1 .. n : place = Offset(input, k)
            /\ Bytes(input)[place + 1] = "header" => place + HeaderSize <= Len(Bytes(input))
        <5>1. place \in 0 .. Len(Bytes(input)) - 1
          BY <3>1, <3>2 DEF file_size
        <5>2. QED
          BY <3>1, <3>4, <4>1, <5>1, HeadersOfArchive
      <4>5. ReadsSignature(place, HeaderSize, "header") <=> \E k \in 1 .. n : place = Offset(input, k)
        <5>1. place >= 0
          BY <3>1
        <5>2. QED
          BY <4>4, <5>1 DEF ReadsSignature, file_size
      <4>6. CASE \E k \in 1 .. n : place = Offset(input, k)
        <5>1. PICK k \in 1 .. n : place = Offset(input, k)
          BY <4>6
        <5>2. k = m + 1
          <6>1. ~(k <= m)
            BY <4>2, <4>3, <5>1
          <6>2. m + 1 \in 1 .. n /\ ~(m + 1 <= m)
            BY <4>1, <6>1
          <6>3. ~(Offset(input, m + 1) < place)
            BY <4>2, <6>2
          <6>4. ~(m + 1 < k)
            BY <4>3, <5>1, <6>2, <6>3
          <6>5. QED
            BY <4>1, <6>1, <6>4
        <5>3. listed' = Append(listed, place)
          BY <3>1, <4>5, <4>6
        <5>4. Len(listed') = m + 1 /\ listed'[m + 1] = place /\ \A i \in 1 .. m : listed'[i] = listed[i]
          BY <3>1, <4>1, <5>3
        <5>5. m + 1 <= n
          BY <4>1, <5>2
        <5>6. \A i \in 1 .. m + 1 : listed'[i] = Offset(input, i)
          <6>1. \A i \in 1 .. m + 1 : i \in 1 .. m \/ i = m + 1
            BY <4>1
          <6>2. QED
            BY <4>2, <5>1, <5>2, <5>4, <6>1
        <5>7. ASSUME NEW i \in 1 .. n
              PROVE  Offset(input, i) < place + 1 <=> i <= m + 1
          <6>1. PICK x \in Nat : x = Offset(input, i)
            BY <4>3
          <6>2. x < place <=> i <= m
            BY <4>2, <6>1
          <6>3. i > m + 1 => place < x
            BY <4>3, <5>1, <5>2, <6>1
          <6>4. i = m + 1 => x = place
            BY <5>1, <5>2, <6>1
          <6>5. x < place + 1 <=> i <= m + 1
            BY <3>1, <4>1, <6>2, <6>3, <6>4
          <6>6. QED
            BY <6>1, <6>5
        <5>8. QED
          BY <4>1, <5>4, <5>5, <5>6, <5>7 DEF ListedBefore
      <4>7. CASE ~\E k \in 1 .. n : place = Offset(input, k)
        <5>1. listed' = listed
          BY <3>1, <4>5, <4>7
        <5>2. ASSUME NEW i \in 1 .. n
              PROVE  Offset(input, i) < place + 1 <=> i <= m
          <6>1. PICK x \in Nat : x = Offset(input, i) /\ x # place
            BY <4>3, <4>7
          <6>2. x < place + 1 <=> x < place
            BY <3>1, <6>1
          <6>3. QED
            BY <4>2, <6>1, <6>2
        <5>3. QED
          BY <4>1, <4>2, <5>1, <5>2 DEF ListedBefore
      <4>8. QED
        BY <4>6, <4>7
    <3>5. QED
      BY <3>1, <3>3, <3>4 DEF ArchiveInv, file_size
  <2>4. CASE ListEnd
    BY <2>4 DEF ListEnd, ArchiveInv, file_size
  <2>5. CASE UNCHANGED archiveVars
    BY <2>5 DEF archiveVars, ArchiveInv, file_size
  <2>6. QED
    BY <2>1, <2>2, <2>3, <2>4, <2>5 DEF ArchiveNext
<1>3. QED
  BY <1>1, <1>2, PTL DEF ArchiveSpec

(* Whatever stands in front of it, whatever its names and its comment: an  *)
(* archive is found, and the headers of its directory are listed, once and *)
(* in order, unless there are headers elsewhere (main.c of hw1-rarjpeg).   *)
THEOREM AllEntriesAreListed == ArchiveSpec => []EntriesAreListed
<1>1. ArchiveInv => EntriesAreListed
  <2> SUFFICES ASSUME ArchiveInv
               PROVE  EntriesAreListed
    OBVIOUS
  <2>1. ASSUME phase = "listed", input.zip, NoStray(input)
        PROVE  /\ Len(listed) = Len(input.names)
               /\ \A k \in DOMAIN listed :
                     listed[k] = Len(input.front) + Len(Directory(SubSeq(input.names, 1, k - 1)))
    <3>1. input \in Inputs /\ listed \in Seq(Nat) /\ place = file_size /\ ListedBefore(input, listed, place)
      BY <2>1 DEF ArchiveInv
    <3>2. PICK n \in Nat, m \in Nat : n = Len(input.names) /\ m = Len(listed)
      BY <3>1, ArchiveAssumption
    <3>3. /\ m <= n /\ \A k \in 1 .. m : listed[k] = Offset(input, k)
          /\ \A k \in 1 .. n : Offset(input, k) < file_size <=> k <= m
      BY <3>1, <3>2 DEF ListedBefore
    <3>4. \A k \in 1 .. n : Offset(input, k) < file_size
      BY <2>1, <3>1, <3>2, OffsetsGrow DEF file_size
    <3>5. m = n
      <4>1. n \in 1 .. n => n <= m
        BY <3>3, <3>4
      <4>2. QED
        BY <3>2, <3>3, <4>1
    <3>6. DOMAIN listed = 1 .. m
      BY <3>1, <3>2
    <3>7. \A k \in 1 .. m : Offset(input, k) = Len(input.front) + Len(Directory(SubSeq(input.names, 1, k - 1)))
      BY DEF Offset, Size, First
    <3>8. QED
      BY <3>2, <3>3, <3>5, <3>6, <3>7
  <2>2. phase = "not PKZip" => ~input.zip
    BY DEF ArchiveInv
  <2>3. phase = "listed" => input.zip \/ "end" \in Range(input.front)
    BY DEF ArchiveInv
  <2>4. QED
    BY <2>1, <2>2, <2>3 DEF EntriesAreListed, NoStray
<1>2. QED
  BY <1>1, ArchiveInvariant, PTL

-----------------------------------------------------------------------------
(* The text converter.  A code of at most 16 bits.                         *)
Short(c) == c \in Nat /\ c <= \hFFFF

(* Every entry of the table of CP1251 is such a code.                      *)
LEMMA CodesOfCP1251 ==
    \A i \in 1 .. 128 : Short(CP1251toUnicode[i])
<1>1. \A i \in 1 .. 64 : CP1251toUnicode[i] \in Nat
  BY SMT DEF CP1251toUnicode
<1>2. \A i \in 1 .. 64 : CP1251toUnicode[i] <= 65535
  BY SMT DEF CP1251toUnicode
<1>3. \A i \in 65 .. 128 : CP1251toUnicode[i] = \h410 + i - 65
  BY SMT DEF CP1251toUnicode
<1>4. QED
  BY <1>1, <1>2, <1>3 DEF Short

(* Every entry of the table of KOI8-R is such a code.                      *)
LEMMA CodesOfKOI8 ==
    \A i \in 1 .. 128 : Short(KOI8toUnicode[i])
<1>1. \A i \in 1 .. 128 : KOI8toUnicode[i] \in Nat
  BY SMT DEF KOI8toUnicode
<1>2. \A i \in 1 .. 128 : KOI8toUnicode[i] <= 65535
  BY SMT DEF KOI8toUnicode
<1>3. QED
  BY <1>1, <1>2 DEF Short

(* Every entry that InitISO8859Encoding makes is such a code.              *)
LEMMA CodesOfISO8859 ==
    \A i \in 1 .. 128 : Short(iso8859toUnicode[i])
<1>1. \A i \in 1 .. 33 : iso8859toUnicode[i] = \h80 + i - 1
  BY SMT DEF iso8859toUnicode
<1>2. \A i \in 34 .. 112 : iso8859toUnicode[i] = \h401 + i - 34
  BY SMT DEF iso8859toUnicode
<1>3. \A i \in 113 .. 128 : iso8859toUnicode[i] \in Nat
  BY SMT DEF iso8859toUnicode
<1>4. \A i \in 113 .. 128 : iso8859toUnicode[i] <= 65535
  BY SMT DEF iso8859toUnicode
<1>5. QED
  BY <1>1, <1>2, <1>3, <1>4 DEF Short

(* So every byte has one, below 128 its own value.                         *)
LEMMA CodesOfBytes ==
    ASSUME NEW e \in DOMAIN Encodings, NEW c \in OneByte
    PROVE  Short(ToUnicode(e, c))
<1>1. e \in {"cp1251", "koi8", "iso8859"}
  BY DEF Encodings
<1>c. c \in Nat /\ c < 256
  BY DEF OneByte
<1>2. CASE c < 128
  BY <1>2, <1>c DEF ToUnicode, Short
<1>3. CASE ~(c < 128)
  <2>1. c - 127 \in 1 .. 128 /\ ToUnicode(e, c) = Encodings[e][c - 127]
    BY <1>3, <1>c DEF ToUnicode
  <2>2. Encodings[e] \in {CP1251toUnicode, KOI8toUnicode, iso8859toUnicode}
    BY <1>1 DEF Encodings
  <2>3. QED
    BY <2>1, <2>2, CodesOfCP1251, CodesOfKOI8, CodesOfISO8859
<1>4. QED
  BY <1>2, <1>3

(* The table of KOI8-R has every letter of the alphabet but one.           *)
LEMMA LettersOfKOI8 ==
    \A letter \in Alphabet : letter # Sha <=> \E i \in 1 .. 128 : KOI8toUnicode[i] = letter
<1>1. \A letter \in Alphabet : letter # Sha => \E i \in 1 .. 128 : KOI8toUnicode[i] = letter
  BY SMT DEF KOI8toUnicode, Alphabet, Sha
<1>2. \A i \in 1 .. 128 : KOI8toUnicode[i] # Sha
  BY SMT DEF KOI8toUnicode, Sha
<1>3. QED
  BY <1>1, <1>2

(* Each encoding has every letter of the alphabet, but for that one of     *)
(* KOI8-R.                                                                 *)
LEMMA LettersOfEncodings ==
    ASSUME NEW e \in DOMAIN Encodings, NEW letter \in Alphabet
    PROVE  (e = "koi8" /\ letter = Sha) # (\E c \in 128 .. 255 : ToUnicode(e, c) = letter)
<1> DEFINE Has == \E c \in 128 .. 255 : ToUnicode(e, c) = letter
<1>1. Has <=> \E i \in 1 .. 128 : Encodings[e][i] = letter
  <2>1. ASSUME NEW c \in 128 .. 255
        PROVE  c - 127 \in 1 .. 128 /\ ToUnicode(e, c) = Encodings[e][c - 127]
    BY DEF ToUnicode
  <2>2. ASSUME NEW i \in 1 .. 128
        PROVE  i + 127 \in 128 .. 255 /\ ToUnicode(e, i + 127) = Encodings[e][i]
    <3>1. i + 127 \in 128 .. 255 /\ (i + 127) - 127 = i
      OBVIOUS
    <3>2. QED
      BY <3>1, <2>1
  <2>3. QED
    BY <2>1, <2>2
<1>2. letter \in \h410 .. \h44F
  BY DEF Alphabet
<1>3. CASE e = "cp1251"
  <2>1. Encodings[e] = CP1251toUnicode
    BY <1>3 DEF Encodings
  <2>2. letter - \h410 + 65 \in 65 .. 128 /\ \h410 + (letter - \h410 + 65) - 65 = letter
    BY <1>2
  <2>3. CP1251toUnicode[letter - \h410 + 65] = letter
    <3>1. \A i \in 65 .. 128 : CP1251toUnicode[i] = \h410 + i - 65
      BY SMT DEF CP1251toUnicode
    <3>2. QED
      BY <2>2, <3>1
  <2>4. Has
    BY <1>1, <2>1, <2>2, <2>3
  <2>5. QED
    BY <1>3, <2>4
<1>4. CASE e = "iso8859"
  <2>1. Encodings[e] = iso8859toUnicode
    BY <1>4 DEF Encodings
  <2>2. letter - \h401 + 34 \in 34 .. 112 /\ \h401 + (letter - \h401 + 34) - 34 = letter
    BY <1>2
  <2>3. iso8859toUnicode[letter - \h401 + 34] = letter
    <3>1. \A i \in 34 .. 112 : iso8859toUnicode[i] = \h401 + i - 34
      BY SMT DEF iso8859toUnicode
    <3>2. QED
      BY <2>2, <3>1
  <2>4. Has
    BY <1>1, <2>1, <2>2, <2>3
  <2>5. QED
    BY <1>4, <2>4
<1>5. CASE e = "koi8"
  <2>1. Encodings[e] = KOI8toUnicode
    BY <1>5 DEF Encodings
  <2>2. Has <=> letter # Sha
    BY <1>1, <2>1, LettersOfKOI8
  <2>3. QED
    BY <1>5, <2>2
<1>6. QED
  BY <1>3, <1>4, <1>5 DEF Encodings

(* The octets of a character, by the number of them.                       *)
Octets(c) ==
    IF c < 128 THEN <<c>>
    ELSE IF c < 2048 THEN <<192 + c \div 64, 128 + (c % 64)>>
    ELSE <<224 + c \div 4096, 128 + ((c \div 64) % 64), 128 + (c % 64)>>

(* The powers that stand for the shifts of the code.                       *)
LEMMA Powers ==
    /\ 256 ^ 0 = 1 /\ 256 ^ 1 = 256 /\ 256 ^ 2 = 65536
    /\ 64 ^ 0 = 1 /\ 64 ^ 1 = 64 /\ 64 ^ 2 = 4096 /\ 2 ^ 6 = 64 /\ 2 ^ 5 = 32
  OBVIOUS

(* What ConvertUnicodeToUTF8 computes: the recursion over the octets       *)
(* behind the first one is solved for each number of octets.               *)
LEMMA CodeInOctets ==
    ASSUME NEW c, Short(c)
    PROVE  LET two == (192 + c \div 64) * 256 + (128 + (c % 64))
               three == (224 + c \div 4096) * 65536 + ((128 + ((c \div 64) % 64)) * 256 + (128 + (c % 64)))
           IN ConvertUnicodeToUTF8(c) = IF c < 128 THEN c ELSE IF c < 2048 THEN two ELSE three
<1> DEFINE Low(k) == (128 + ((c \div 64 ^ (k - 1)) % 64)) * 256 ^ (k - 1)
           follow[k \in 0 .. 2] == IF k = 0 THEN 0 ELSE Low(k) + follow[k - 1]
           octets == GetNumberOfOctets(c)
           lead == (256 - 2 ^ (8 - octets)) + c \div 64 ^ (octets - 1)
<1>c. c \in Nat /\ c <= 65535
  BY DEF Short
<1>1. ConvertUnicodeToUTF8(c) = IF octets = 1 THEN c ELSE lead * 256 ^ (octets - 1) + follow[octets - 1]
  BY DEF ConvertUnicodeToUTF8
<1>2. Low(1) = 128 + (c % 64) /\ Low(2) = (128 + ((c \div 64) % 64)) * 256
  <2>1. 1 - 1 = 0 /\ 2 - 1 = 1 /\ c \div 1 = c
    BY <1>c
  <2>2. QED
    BY <1>c, <2>1, Powers
<1>3. follow[1] = Low(1) /\ follow[2] = Low(2) + Low(1)
  <2> DEFINE solution == [k \in 0 .. 2 |-> IF k = 0 THEN 0 ELSE IF k = 1 THEN Low(1) ELSE Low(2) + Low(1)]
  <2>1. Low(1) \in Nat /\ Low(2) \in Nat
    BY <1>2, <1>c
  <2>2. solution = [k \in 0 .. 2 |-> IF k = 0 THEN 0 ELSE Low(k) + solution[k - 1]]
    <3> HIDE DEF Low
    <3>1. QED
      BY <2>1
  <2>3. follow = [k \in 0 .. 2 |-> IF k = 0 THEN 0 ELSE Low(k) + follow[k - 1]]
    <3> HIDE DEF Low, solution
    <3>1. QED
      BY <2>2
  <2> HIDE DEF Low, follow
  <2>4. follow[0] = 0 /\ follow[1] = Low(1) + follow[0] /\ follow[2] = Low(2) + follow[1]
    BY <2>3
  <2>5. QED
    BY <2>1, <2>4
<1> HIDE DEF Low, follow
<1>4. octets = IF c < 128 THEN 1 ELSE IF c < 2048 THEN 2 ELSE 3
  BY <1>c DEF GetNumberOfOctets
<1> HIDE DEF octets
<1>5. CASE c < 128
  BY <1>1, <1>4, <1>5
<1>6. CASE ~(c < 128) /\ c < 2048
  <2>1. octets = 2 /\ 8 - octets = 6 /\ octets - 1 = 1
    BY <1>4, <1>6
  <2>2. lead = 192 + c \div 64
    BY <2>1, <1>c, Powers
  <2>3. QED
    BY <1>1, <1>2, <1>3, <1>6, <2>1, <2>2, <1>c, Powers
<1>7. CASE ~(c < 2048)
  <2>1. octets = 3 /\ 8 - octets = 5 /\ octets - 1 = 2 /\ ~(c < 128)
    BY <1>4, <1>7, <1>c
  <2>2. lead = 224 + c \div 4096
    BY <2>1, <1>c, Powers
  <2>3. QED
    BY <1>1, <1>2, <1>3, <1>7, <2>1, <2>2, <1>c, Powers
<1>8. QED
  BY <1>5, <1>6, <1>7

(* What the shifts of PrintUTF8Code bring out of an int made of octets.     *)
LEMMA TwoBytes ==
    ASSUME NEW h \in Nat, NEW l \in Nat, h < 256, l < 256, NEW x, x = h * 256 + l
    PROVE  (x \div 256) % 256 = h /\ x % 256 = l
<1>1. x \in Nat /\ x \div 256 = h
  OBVIOUS
<1>2. x % 256 = l
  OBVIOUS
<1>3. QED
  BY <1>1, <1>2

(* The same for an int of three octets.                                    *)
LEMMA ThreeBytes ==
    ASSUME NEW h \in Nat, NEW m \in Nat, NEW l \in Nat, h < 256, m < 256, l < 256,
           NEW x, x = h * 65536 + (m * 256 + l)
    PROVE  (x \div 65536) % 256 = h /\ (x \div 256) % 256 = m /\ x % 256 = l
<1>1. x \in Nat /\ x \div 65536 = h
  OBVIOUS
<1>2. x \div 256 = h * 256 + m
  OBVIOUS
<1>3. (h * 256 + m) % 256 = m
  OBVIOUS
<1>4. x % 256 = l
  OBVIOUS
<1>5. QED
  BY <1>1, <1>2, <1>3, <1>4

(* PrintUTF8Code writes the octets of a character, the first one first.    *)
LEMMA PrintedOctets ==
    ASSUME NEW c, Short(c)
    PROVE  PrintUTF8Code(ConvertUnicodeToUTF8(c)) = Octets(c)
<1> DEFINE x == ConvertUnicodeToUTF8(c)
           bytes == IF x < 256 THEN 1 ELSE IF x < 65536 THEN 2 ELSE 3
           Byte(i) == (x \div 256 ^ (bytes - i)) % 256
<1>c. c \in Nat /\ c <= 65535
  BY DEF Short
<1>1. PrintUTF8Code(x) = [i \in 1 .. bytes |-> Byte(i)]
  BY DEF PrintUTF8Code
<1>2. x = IF c < 128 THEN c
          ELSE IF c < 2048 THEN (192 + c \div 64) * 256 + (128 + (c % 64))
          ELSE (224 + c \div 4096) * 65536 + ((128 + ((c \div 64) % 64)) * 256 + (128 + (c % 64)))
  BY CodeInOctets
<1> HIDE DEF x
<1>3. CASE c < 128
  <2>1. x = c /\ bytes = 1 /\ 1 - 1 = 0
    BY <1>2, <1>3, <1>c
  <2>2. Byte(1) = c
    BY <2>1, <1>3, <1>c, Powers
  <2> HIDE DEF Byte
  <2>3. [i \in 1 .. 1 |-> Byte(i)] = <<c>>
    BY <2>2
  <2>4. QED
    BY <1>1, <1>3, <2>1, <2>3 DEF Octets, x
<1>4. CASE ~(c < 128) /\ c < 2048
  <2> DEFINE h == 192 + c \div 64
             l == 128 + (c % 64)
  <2>1. h \in Nat /\ l \in Nat /\ h < 256 /\ l < 256 /\ 1 <= h
    BY <1>4, <1>c
  <2>2. x = h * 256 + l
    BY <1>2, <1>4
  <2> HIDE DEF h, l
  <2>3. bytes = 2 /\ 2 - 1 = 1 /\ 2 - 2 = 0 /\ x \in Nat /\ x \div 1 = x
    BY <2>1, <2>2
  <2>4. (x \div 256) % 256 = h /\ x % 256 = l
    BY <2>1, <2>2, TwoBytes
  <2>5. Byte(1) = h /\ Byte(2) = l
    <3> HIDE DEF bytes
    <3>1. 256 ^ (bytes - 1) = 256 /\ 256 ^ (bytes - 2) = 1
      BY <2>3, Powers
    <3>2. QED
      BY <2>3, <2>4, <3>1
  <2> HIDE DEF Byte
  <2>6. [i \in 1 .. 2 |-> Byte(i)] = <<h, l>>
    BY <2>5
  <2>7. QED
    BY <1>1, <1>4, <2>3, <2>6 DEF Octets, x, h, l
<1>5. CASE ~(c < 2048)
  <2> DEFINE h == 224 + c \div 4096
             m == 128 + ((c \div 64) % 64)
             l == 128 + (c % 64)
  <2>1. h \in Nat /\ m \in Nat /\ l \in Nat /\ h < 256 /\ m < 256 /\ l < 256 /\ 1 <= h /\ ~(c < 128)
    BY <1>5, <1>c
  <2>2. x = h * 65536 + (m * 256 + l)
    BY <1>2, <1>5, <2>1
  <2> HIDE DEF h, m, l
  <2>3. bytes = 3 /\ 3 - 1 = 2 /\ 3 - 2 = 1 /\ 3 - 3 = 0 /\ x \in Nat /\ x \div 1 = x
    BY <2>1, <2>2
  <2>4. (x \div 65536) % 256 = h /\ (x \div 256) % 256 = m /\ x % 256 = l
    BY <2>1, <2>2, ThreeBytes
  <2>5. Byte(1) = h /\ Byte(2) = m /\ Byte(3) = l
    <3> HIDE DEF bytes
    <3>1. 256 ^ (bytes - 1) = 65536 /\ 256 ^ (bytes - 2) = 256 /\ 256 ^ (bytes - 3) = 1
      BY <2>3, Powers
    <3>2. QED
      BY <2>3, <2>4, <3>1
  <2> HIDE DEF Byte
  <2>6. [i \in 1 .. 3 |-> Byte(i)] = <<h, m, l>>
    BY <2>5
  <2>7. QED
    BY <1>1, <1>5, <2>1, <2>3, <2>6 DEF Octets, x, h, m, l
<1>6. QED
  BY <1>3, <1>4, <1>5

(* A reader that has read s, with k octets due.                            *)
Has(s, k) == [codes |-> s, due |-> k]

(* What an octet does to the reader.                                       *)
LEMMA FirstOctet ==
    ASSUME NEW s \in Seq(Nat), NEW b \in Nat
    PROVE  /\ b < 128 => ReadOctet(Has(s, 0), b) = Has(Append(s, b), 0)
           /\ b \in 194 .. 223 => ReadOctet(Has(s, 0), b) = Has(Append(s, b - 192), 1)
           /\ b \in 224 .. 239 => ReadOctet(Has(s, 0), b) = Has(Append(s, b - 224), 2)
<1>1. Has(s, 0).due = 0 /\ Has(s, 0).codes = s
  BY DEF Has
<1>2. CASE b < 128
  <2>1. ~(b \in 194 .. 223) /\ ~(b \in 224 .. 239)
    BY <1>2
  <2>2. QED
    BY <1>1, <1>2, <2>1 DEF ReadOctet, Has
<1>3. CASE b \in 194 .. 223
  <2>1. ~(b < 128) /\ ~(b \in 224 .. 239)
    BY <1>3
  <2>2. QED
    BY <1>1, <1>3, <2>1 DEF ReadOctet, Has
<1>4. CASE b \in 224 .. 239
  <2>1. ~(b < 128) /\ ~(b \in 194 .. 223)
    BY <1>4
  <2>2. QED
    BY <1>1, <1>4, <2>1 DEF ReadOctet, Has
<1>5. QED
  BY <1>2, <1>3, <1>4

(* An octet behind the first adds its six bits to the last character.      *)
LEMMA NextOctet ==
    ASSUME NEW s \in Seq(Nat), NEW x \in Nat, NEW k \in {1, 2}, NEW l \in Nat, l < 64
    PROVE  ReadOctet(Has(Append(s, x), k), 128 + l) = Has(Append(s, x * 64 + l), k - 1)
<1> DEFINE t == Append(s, x)
           b == 128 + l
<1>1. Last(t) = x
  BY DEF Last
<1>2. Front(t) = s
  BY DEF Front
<1>3. Has(t, k).due = k /\ Has(t, k).codes = t
  BY DEF Has
<1>4. b \in 128 .. 191 /\ b % 64 = l
  OBVIOUS
<1> HIDE DEF t, b
<1>5. ReadOctet(Has(t, k), b) = Has(Append(Front(t), Last(t) * 64 + (b % 64)), k - 1)
  BY <1>3, <1>4 DEF ReadOctet, Has
<1>6. QED
  BY <1>1, <1>2, <1>4, <1>5 DEF t, b

(* The recursion of Reader: it has a solution, and r is what every one of  *)
(* them has at the end of o.                                               *)
Reading(a, o) ==
    a = [n \in 0 .. Len(o) |-> IF n = 0 THEN Has(<<>>, 0) ELSE ReadOctet(a[n - 1], o[n])]
Reads(o, r) ==
    (\E a : Reading(a, o)) /\ \A a : Reading(a, o) => a[Len(o)] = r

(* The reader of an empty file has read nothing.                           *)
LEMMA ReadsNothing ==
    Reads(<<>>, Has(<<>>, 0))
<1>1. Len(<<>>) = 0
  OBVIOUS
<1>2. PICK a : a = [n \in 0 .. 0 |-> Has(<<>>, 0)]
  OBVIOUS
<1>3. Reading(a, <<>>)
  BY <1>1, <1>2 DEF Reading
<1>4. ASSUME NEW f, Reading(f, <<>>)
      PROVE  f[0] = Has(<<>>, 0)
  BY <1>1, <1>4 DEF Reading
<1>5. QED
  BY <1>1, <1>3, <1>4 DEF Reads

(* A solution for a file is one for a longer file, as far as the first     *)
(* one goes, and has one octet more.                                       *)
LEMMA ReadsOneMore ==
    ASSUME NEW o \in Seq(Nat), NEW r, Reads(o, r), NEW b \in Nat
    PROVE  Append(o, b) \in Seq(Nat) /\ Reads(Append(o, b), ReadOctet(r, b))
<1> DEFINE p == Append(o, b)
           n == Len(o)
<1>1. /\ p \in Seq(Nat) /\ Len(p) = n + 1 /\ n \in Nat /\ p[n + 1] = b
      /\ \A i \in 1 .. n : p[i] = o[i]
  OBVIOUS
<1> HIDE DEF p, n
<1>2. \E f : Reading(f, p)
  <2>1. PICK a : Reading(a, o)
    BY DEF Reads
  <2>2. a = [i \in 0 .. n |-> IF i = 0 THEN Has(<<>>, 0) ELSE ReadOctet(a[i - 1], o[i])]
    BY <2>1 DEF Reading, n
  <2>3. PICK f : f = [i \in 0 .. n + 1 |-> IF i = n + 1 THEN ReadOctet(a[n], b) ELSE a[i]]
    OBVIOUS
  <2>4. ASSUME NEW i \in 0 .. n + 1
        PROVE  f[i] = IF i = 0 THEN Has(<<>>, 0) ELSE ReadOctet(f[i - 1], p[i])
    <3>1. CASE i = 0
      <4>1. 0 \in 0 .. n /\ 0 \in 0 .. n + 1 /\ 0 # n + 1
        BY <1>1
      <4>2. QED
        BY <2>2, <2>3, <3>1, <4>1
    <3>2. CASE i \in 1 .. n
      <4>1. i \in 0 .. n /\ i # n + 1 /\ i # 0 /\ i - 1 \in 0 .. n + 1 /\ i - 1 # n + 1
        BY <1>1, <3>2
      <4>2. f[i] = a[i] /\ f[i - 1] = a[i - 1] /\ p[i] = o[i]
        BY <1>1, <2>3, <3>2, <4>1
      <4>3. a[i] = ReadOctet(a[i - 1], o[i])
        BY <2>2, <4>1
      <4>4. QED
        BY <4>1, <4>2, <4>3
    <3>3. CASE i = n + 1
      <4>1. n \in 0 .. n + 1 /\ n # n + 1 /\ n + 1 # 0 /\ (n + 1) - 1 = n /\ n + 1 \in 0 .. n + 1
        BY <1>1
      <4>2. f[n + 1] = ReadOctet(a[n], b) /\ f[n] = a[n]
        BY <2>3, <4>1
      <4>3. QED
        BY <1>1, <3>3, <4>1, <4>2
    <3>4. QED
      BY <1>1, <3>1, <3>2, <3>3
  <2>5. f = [i \in 0 .. n + 1 |-> IF i = 0 THEN Has(<<>>, 0) ELSE ReadOctet(f[i - 1], p[i])]
    <3>1. f = [i \in 0 .. n + 1 |-> f[i]]
      BY <2>3
    <3>2. QED
      BY <2>4, <3>1
  <2>6. QED
    BY <1>1, <2>5 DEF Reading
<1>3. ASSUME NEW f, Reading(f, p)
      PROVE  f[n + 1] = ReadOctet(r, b)
  <2>1. f = [i \in 0 .. n + 1 |-> IF i = 0 THEN Has(<<>>, 0) ELSE ReadOctet(f[i - 1], p[i])]
    BY <1>1, <1>3 DEF Reading
  <2>2. PICK a : a = [i \in 0 .. n |-> f[i]]
    OBVIOUS
  <2>3. ASSUME NEW i \in 0 .. n
        PROVE  a[i] = IF i = 0 THEN Has(<<>>, 0) ELSE ReadOctet(a[i - 1], o[i])
    <3>1. i \in 0 .. n + 1
      BY <1>1
    <3>2. f[i] = IF i = 0 THEN Has(<<>>, 0) ELSE ReadOctet(f[i - 1], p[i])
      BY <2>1, <3>1
    <3>3. CASE i = 0
      BY <2>2, <3>2, <3>3
    <3>4. CASE i # 0
      <4>1. i \in 1 .. n /\ i - 1 \in 0 .. n
        BY <1>1, <3>4
      <4>2. a[i] = f[i] /\ a[i - 1] = f[i - 1] /\ p[i] = o[i]
        BY <1>1, <2>2, <4>1
      <4>3. QED
        BY <3>2, <3>4, <4>2
    <3>5. QED
      BY <3>3, <3>4
  <2>4. Reading(a, o)
    <3>1. a = [i \in 0 .. n |-> a[i]]
      BY <2>2
    <3>2. a = [i \in 0 .. n |-> IF i = 0 THEN Has(<<>>, 0) ELSE ReadOctet(a[i - 1], o[i])]
      BY <2>3, <3>1
    <3>3. QED
      BY <3>2 DEF Reading, n
  <2>5. a[n] = r
    BY <2>4 DEF Reads, n
  <2>6. n \in 0 .. n /\ n + 1 \in 0 .. n + 1 /\ n + 1 # 0 /\ (n + 1) - 1 = n
    BY <1>1
  <2>7. f[n] = r
    BY <2>2, <2>5, <2>6
  <2>8. QED
    BY <1>1, <2>1, <2>6, <2>7
<1>4. QED
  BY <1>1, <1>2, <1>3 DEF Reads, p

(* Whatever the number of its octets, a character is read as it was.       *)
LEMMA ReadsCharacter ==
    ASSUME NEW o \in Seq(Nat), NEW s \in Seq(Nat), Reads(o, Has(s, 0)), NEW c, Short(c)
    PROVE  o \o Octets(c) \in Seq(Nat) /\ Reads(o \o Octets(c), Has(Append(s, c), 0))
<1>c. c \in Nat /\ c <= 65535
  BY DEF Short
<1>1. CASE c < 128
  <2>1. o \o Octets(c) = Append(o, c)
    BY <1>1, <1>c DEF Octets
  <2>2. ReadOctet(Has(s, 0), c) = Has(Append(s, c), 0)
    BY <1>1, <1>c, FirstOctet
  <2>3. QED
    BY <2>1, <2>2, <1>c, ReadsOneMore
<1>2. CASE ~(c < 128) /\ c < 2048
  <2> DEFINE h == 192 + c \div 64
             l == c % 64
             x == c \div 64
  <2>1. /\ h \in Nat /\ l \in Nat /\ l < 64 /\ h \in 194 .. 223 /\ x \in Nat
        /\ h - 192 = x /\ x * 64 + l = c /\ 128 + l \in Nat
    BY <1>2, <1>c
  <2>2. Octets(c) = <<h, 128 + l>>
    BY <1>2 DEF Octets
  <2> HIDE DEF h, l, x
  <2>3. o \o Octets(c) = Append(Append(o, h), 128 + l)
    BY <2>1, <2>2
  <2>4. Append(o, h) \in Seq(Nat) /\ Reads(Append(o, h), Has(Append(s, x), 1))
    <3>1. ReadOctet(Has(s, 0), h) = Has(Append(s, x), 1)
      BY <2>1, FirstOctet
    <3>2. QED
      BY <2>1, <3>1, ReadsOneMore
  <2>5. ReadOctet(Has(Append(s, x), 1), 128 + l) = Has(Append(s, c), 0)
    <3>1. ReadOctet(Has(Append(s, x), 1), 128 + l) = Has(Append(s, x * 64 + l), 1 - 1)
      BY <2>1, NextOctet
    <3>2. QED
      BY <2>1, <3>1
  <2> DEFINE p == Append(o, h)
  <2> HIDE DEF p
  <2>6. p \in Seq(Nat) /\ Reads(p, Has(Append(s, x), 1))
    BY <2>4 DEF p
  <2>7. Append(p, 128 + l) \in Seq(Nat) /\ Reads(Append(p, 128 + l), Has(Append(s, c), 0))
    BY <2>1, <2>5, <2>6, ReadsOneMore
  <2>8. QED
    BY <2>3, <2>7 DEF p
<1>3. CASE ~(c < 2048)
  <2> DEFINE h == 224 + c \div 4096
             m == (c \div 64) % 64
             l == c % 64
             x == c \div 4096
             y == c \div 64
  <2>1. /\ h \in Nat /\ l \in Nat /\ l < 64 /\ h \in 224 .. 239 /\ x \in Nat /\ h - 224 = x
        /\ m \in Nat /\ m < 64 /\ y \in Nat /\ x * 64 + m = y /\ y * 64 + l = c
        /\ 128 + m \in Nat /\ 128 + l \in Nat
    <3>1. y \in Nat /\ l \in Nat /\ l < 64 /\ y * 64 + l = c
      BY <1>c
    <3>2. x \in 0 .. 15 /\ x = y \div 64
      BY <1>c
    <3>3. m \in Nat /\ m < 64 /\ x * 64 + m = y
      <4> HIDE DEF x, y
      <4>1. QED
        BY <3>1, <3>2
    <3>4. h \in Nat /\ h \in 224 .. 239 /\ h - 224 = x
      <4>1. \A u \in 0 .. 15 : 224 + u \in Nat /\ 224 + u \in 224 .. 239 /\ (224 + u) - 224 = u
        OBVIOUS
      <4>2. h = 224 + x
        OBVIOUS
      <4>3. x \in 0 .. 15
        BY <3>2
      <4> HIDE DEF x, h
      <4>4. QED
        BY ONLY <4>1, <4>2, <4>3
    <3> HIDE DEF h, m, l, x, y
    <3>5. QED
      BY <3>1, <3>2, <3>3, <3>4
  <2>2. Octets(c) = <<h, 128 + m, 128 + l>>
    BY <1>3, <1>c DEF Octets
  <2> HIDE DEF h, l, m, x, y
  <2>3. o \o Octets(c) = Append(Append(Append(o, h), 128 + m), 128 + l)
    BY <2>1, <2>2
  <2>4. Append(o, h) \in Seq(Nat) /\ Reads(Append(o, h), Has(Append(s, x), 2))
    <3>1. ReadOctet(Has(s, 0), h) = Has(Append(s, x), 2)
      BY <2>1, FirstOctet
    <3>2. QED
      BY <2>1, <3>1, ReadsOneMore
  <2> DEFINE p == Append(o, h)
             q == Append(p, 128 + m)
  <2> HIDE DEF p
  <2>5. q \in Seq(Nat) /\ Reads(q, Has(Append(s, y), 1))
    <3>1. ReadOctet(Has(Append(s, x), 2), 128 + m) = Has(Append(s, x * 64 + m), 2 - 1)
      BY <2>1, NextOctet
    <3>2. ReadOctet(Has(Append(s, x), 2), 128 + m) = Has(Append(s, y), 1)
      BY <2>1, <3>1
    <3>3. p \in Seq(Nat) /\ Reads(p, Has(Append(s, x), 2))
      BY <2>4 DEF p
    <3>4. QED
      BY <2>1, <3>2, <3>3, ReadsOneMore
  <2> HIDE DEF q
  <2>6. ReadOctet(Has(Append(s, y), 1), 128 + l) = Has(Append(s, c), 0)
    <3>1. ReadOctet(Has(Append(s, y), 1), 128 + l) = Has(Append(s, y * 64 + l), 1 - 1)
      BY <2>1, NextOctet
    <3>2. QED
      BY <2>1, <3>1
  <2>7. Append(q, 128 + l) \in Seq(Nat) /\ Reads(Append(q, 128 + l), Has(Append(s, c), 0))
    BY <2>1, <2>5, <2>6, ReadsOneMore
  <2>8. QED
    BY <2>3, <2>7 DEF p, q
<1>4. QED
  BY <1>1, <1>2, <1>3

(* The characters of the mark and of what was read, which are what a       *)
(* reader has read of the output, with no octet due.                       *)
Characters == <<\hFEFF>> \o [i \in 1 .. read |-> ToUnicode(encoding, text[i])]
ConverterInv ==
    /\ encoding \in DOMAIN Encodings /\ text \in Seq(OneByte) /\ read \in 0 .. Len(text)
    /\ output \in Seq(Nat) /\ Characters \in Seq(Nat) /\ Reads(output, Has(Characters, 0))

(* The program begins with the mark of byte order, which is a character.   *)
LEMMA ConverterStarts ==
    ASSUME ConverterInit
    PROVE  ConverterInv
<1>1. /\ encoding \in DOMAIN Encodings /\ text \in Seq(OneByte) /\ read = 0
      /\ output = PrintUTF8Code(kUTF8BOM)
  BY TextAssumption DEF ConverterInit
<1>2. Short(\hFEFF)
  BY DEF Short
<1>3. kUTF8BOM = ConvertUnicodeToUTF8(\hFEFF)
  <2>1. /\ ~(\hFEFF < 128) /\ ~(\hFEFF < 2048)
        /\ (224 + \hFEFF \div 4096) * 65536
             + ((128 + ((\hFEFF \div 64) % 64)) * 256 + (128 + (\hFEFF % 64))) = 15711167
    OBVIOUS
  <2>2. QED
    BY <1>2, <2>1, CodeInOctets DEF kUTF8BOM
<1>4. output = <<>> \o Octets(\hFEFF) 
  <2>1. output = Octets(\hFEFF)
    BY <1>1, <1>2, <1>3, PrintedOctets
  <2>2. Octets(\hFEFF) \in Seq(Int)
    BY DEF Octets
  <2>3. QED
    BY <2>1, <2>2
<1>5. Characters = Append(<<>>, \hFEFF)
  BY <1>1 DEF Characters
<1>6. output \in Seq(Nat) /\ Reads(output, Has(Characters, 0))
  <2> DEFINE mark == \hFEFF
             none == <<>>
  <2>1. Short(mark) /\ none \in Seq(Nat) /\ Reads(none, Has(none, 0))
    BY <1>2, ReadsNothing
  <2>2. output = none \o Octets(mark) /\ Characters = Append(none, mark)
    BY <1>4, <1>5
  <2> HIDE DEF mark, none
  <2>3. none \o Octets(mark) \in Seq(Nat) /\ Reads(none \o Octets(mark), Has(Append(none, mark), 0))
    BY <2>1, ReadsCharacter
  <2>4. QED
    BY <2>2, <2>3
<1>7. read \in 0 .. Len(text) /\ Characters \in Seq(Nat)
  BY <1>1, <1>5
<1>8. QED
  BY <1>1, <1>6, <1>7 DEF ConverterInv

(* Each byte of the input adds its character to what a reader has read.    *)
LEMMA ConverterGoesOn ==
    ASSUME ConverterInv, Convert
    PROVE  ConverterInv'
<1> DEFINE c == ToUnicode(encoding, text[read + 1])
           f(i) == ToUnicode(encoding, text[i])
<1>1. /\ encoding \in DOMAIN Encodings /\ text \in Seq(OneByte) /\ read \in 0 .. Len(text)
      /\ output \in Seq(Nat) /\ Characters \in Seq(Nat) /\ Reads(output, Has(Characters, 0))
  BY DEF ConverterInv
<1>2. /\ read < Len(text) /\ read' = read + 1 /\ encoding' = encoding /\ text' = text
      /\ output' = output \o PrintUTF8Code(ConvertUnicodeToUTF8(c))
  BY DEF Convert
<1>3. Len(text) \in Nat /\ read \in Nat /\ read + 1 \in 1 .. Len(text)
  BY <1>1, <1>2
<1>4. Short(c)
  <2>1. text[read + 1] \in OneByte
    BY <1>1, <1>3
  <2>2. QED
    BY <1>1, <2>1, CodesOfBytes
<1>5. output' = output \o Octets(c)
  BY <1>2, <1>4, PrintedOctets
<1>6. Characters' = Append(Characters, c)
  <2>1. Characters' = <<\hFEFF>> \o [i \in 1 .. read + 1 |-> f(i)]
    BY <1>2 DEF Characters
  <2>2. Characters = <<\hFEFF>> \o [i \in 1 .. read |-> f(i)]
    BY DEF Characters
  <2> DEFINE before == <<\hFEFF>> \o [i \in 1 .. read |-> f(i)]
             behind == <<\hFEFF>> \o [i \in 1 .. read + 1 |-> f(i)]
  <2>3. behind = Append(before, c)
    <3>1. c = f(read + 1)
      OBVIOUS
    <3> HIDE DEF f, c
    <3>2. behind = Append(before, f(read + 1))
      BY <1>3
    <3> HIDE DEF before, behind
    <3>3. QED
      BY <3>1, <3>2
  <2>4. Characters' = behind /\ Characters = before
    BY <2>1, <2>2
  <2> HIDE DEF before, behind, c
  <2>5. QED
    BY ONLY <2>3, <2>4
<1>7. Characters' \in Seq(Nat)
  <2>1. c \in Nat
    BY <1>4 DEF Short
  <2> HIDE DEF c
  <2>2. QED
    BY <1>1, <1>6, <2>1
<1>8. output' \in Seq(Nat) /\ Reads(output', Has(Characters', 0))
  <2> HIDE DEF c
  <2>1. QED
    BY <1>1, <1>4, <1>5, <1>6, ReadsCharacter
<1>9. read' \in 0 .. Len(text')
  BY <1>2, <1>3
<1>10. QED
  <2>1. Reads(output, Has(Characters, 0))' <=> Reads(output', Has(Characters', 0))
    BY DEF Reads, Reading, Has, ReadOctet
  <2>2. QED
    BY <1>1, <1>2, <1>7, <1>8, <1>9 DEF ConverterInv

(* What every solution has is what Reader has.                             *)
LEMMA ReaderHas ==
    ASSUME NEW r, Reads(output, r)
    PROVE  Reader = r
<1> DEFINE after[n \in 0 .. Len(output)] ==
               IF n = 0 THEN [codes |-> <<>>, due |-> 0] ELSE ReadOctet(after[n - 1], output[n])
<1>1. Reader = after[Len(output)]
  BY DEF Reader
<1>2. PICK a : Reading(a, output)
  BY DEF Reads
<1>3. a = [n \in 0 .. Len(output) |-> 
             IF n = 0 THEN [codes |-> <<>>, due |-> 0] ELSE ReadOctet(a[n - 1], output[n])]
  BY <1>2 DEF Reading, Has
<1>4. after = [n \in 0 .. Len(output) |->
             IF n = 0 THEN [codes |-> <<>>, due |-> 0] ELSE ReadOctet(after[n - 1], output[n])]
  BY <1>3
<1> HIDE DEF after
<1>5. Reading(after, output)
  BY <1>4 DEF Reading, Has
<1>6. QED
  BY <1>1, <1>5 DEF Reads

(* Whatever the text, its length and its encoding: the output is UTF-8 for *)
(* the characters of the input, and the letters that an encoding lacks are *)
(* the known one.                                                          *)
THEOREM TheTextIsKept == ConverterSpec => []TextIsKept
<1>1. ConverterInit => ConverterInv
  BY ConverterStarts
<1>2. ConverterInv /\ [Convert]_converterVars => ConverterInv'
  <2>1. ASSUME ConverterInv, UNCHANGED converterVars
        PROVE  ConverterInv'
    <3>1. encoding' = encoding /\ text' = text /\ read' = read /\ output' = output
      BY <2>1 DEF converterVars
    <3>2. Characters' = Characters
      BY <3>1 DEF Characters
    <3>3. Reads(output, Has(Characters, 0))' <=> Reads(output', Has(Characters', 0))
      BY DEF Reads, Reading, Has, ReadOctet
    <3>4. QED
      BY <2>1, <3>1, <3>2, <3>3 DEF ConverterInv
  <2>2. QED
    BY <2>1, ConverterGoesOn
<1>3. ConverterInv => TextIsKept
  <2> SUFFICES ASSUME ConverterInv
               PROVE  TextIsKept
    OBVIOUS
  <2>1. Reader = Has(Characters, 0)
    BY ReaderHas DEF ConverterInv
  <2> DEFINE Said ==
               \A letter \in Alphabet :
                   (encoding = "koi8" /\ letter = Sha) # (\E c \in 128 .. 255 : ToUnicode(encoding, c) = letter)
             Read ==
               Reader = [codes |-> <<\hFEFF>> \o [i \in 1 .. read |-> ToUnicode(encoding, text[i])], due |-> 0]
  <2>2. Said
    BY LettersOfEncodings DEF ConverterInv
  <2>3. Read
    BY <2>1 DEF Has, Characters
  <2>4. TextIsKept <=> Read /\ (read = Len(text) => Said)
    BY DEF TextIsKept
  <2> HIDE DEF Said, Read
  <2>5. QED
    BY <2>2, <2>3, <2>4
<1>4. QED
  BY <1>1, <1>2, <1>3, PTL DEF ConverterSpec

=============================================================================
