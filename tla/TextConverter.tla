----------------------------- MODULE TextConverter -----------------------------
(***************************************************************************)
(* hw2-utf-convertor: a file in one of three Cyrillic encodings becomes a  *)
(* UTF-8 file, byte by byte through Unicode.  C's shifts and masks work on *)
(* bits that do not overlap, and are powers of two here.                   *)
(***************************************************************************)
EXTENDS Integers, Sequences, SequencesExt

CONSTANT Texts      \* the files: sequences of bytes
OneByte == 0 .. 255
ASSUME TextAssumption == Texts \subseteq Seq(OneByte)

(* The last 128 codes of each encoding.                                    *)
CP1251toUnicode ==
    <<\h402, \h403, \h201A, \h453, \h201E, \h2026, \h2020, \h2021,
      \h20AC, \h2030, \h409, \h2039, \h40A, \h40C, \h40B, \h40F,
      \h452, \h2018, \h2019, \h201C, \h201D, \h2022, \h2013, \h2014,
      \h0, \h2122, \h459, \h203A, \h45A, \h45C, \h45B, \h45F,
      \hA0, \h40E, \h45E, \h408, \hA4, \h490, \hA6, \hA7,
      \h401, \hA9, \h404, \hAB, \hAC, \hAD, \hAE, \h407,
      \hB0, \hB1, \h406, \h456, \h491, \hB5, \hB6, \hB7,
      \h451, \h2116, \h454, \hBB, \h458, \h405, \h455, \h457>>
    \o [i \in 1 .. 64 |-> \h410 + i - 1]
KOI8toUnicode ==
    <<\h2500, \h2502, \h250C, \h2510, \h2514, \h2518, \h251C, \h2524,
      \h252C, \h2534, \h253C, \h2580, \h2584, \h2588, \h258C, \h2590,
      \h2591, \h2592, \h2593, \h2320, \h25A0, \h2219, \h221A, \h2248,
      \h2264, \h2265, \hA0, \h2321, \hB0, \hB2, \hB7, \hF7,
      \h2550, \h2551, \h2552, \h451, \h2553, \h2554, \h2555, \h2556,
      \h2557, \h2558, \h2559, \h255A, \h255B, \h255C, \h255D, \h255E,
      \h255F, \h2560, \h2561, \h401, \h2562, \h2563, \h2564, \h2565,
      \h2566, \h2567, \h2568, \h2569, \h256A, \h256B, \h256C, \hA9,
      \h44E, \h430, \h431, \h446, \h434, \h435, \h444, \h433,
      \h445, \h438, \h439, \h43A, \h43B, \h43C, \h43D, \h43E,
      \h43F, \h44F, \h440, \h441, \h442, \h443, \h436, \h432,
      \h44C, \h44B, \h437, \h448, \h44D, \h449, \h447, \h44A,
      \h42E, \h410, \h411, \h426, \h414, \h415, \h424, \h413,
      \h425, \h418, \h419, \h41A, \h41B, \h41C, \h41D, \h41E,
      \h41F, \h42F, \h420, \h421, \h422, \h423, \h416, \h412,
      \h42C, \h42B, \h417, \h482, \h42D, \h429, \h427, \h42A>>
iso8859toUnicode ==
    [i \in 1 .. 33 |-> \h80 + i - 1] \o [i \in 1 .. 79 |-> \h401 + i - 1] \o <<\h2116>>
        \o [i \in 1 .. 12 |-> \h451 + i - 1] \o <<\hA7, \h45E, \h45F>>
Encodings == [cp1251 |-> CP1251toUnicode, koi8 |-> KOI8toUnicode, iso8859 |-> iso8859toUnicode]
ToUnicode(e, c) == IF c < 128 THEN c ELSE Encodings[e][c - 127]

MutOctets(c) == IF c < \h7F THEN 1 ELSE IF c <= \h7FF THEN 2 ELSE 3
GetNumberOfOctets(c) ==
    CASE c <= \h7F -> 1
      [] \h80 <= c /\ c <= \h7FF -> 2
      [] \h800 <= c /\ c <= \hFFFF -> 3
(* An int whose bytes are the octets: the first one begins with as many    *)
(* ones as there are octets, the others with 10.                           *)
ConvertUnicodeToUTF8(c) ==
    LET octets == GetNumberOfOctets(c)
        lead == (256 - 2 ^ (8 - octets)) + c \div 64 ^ (octets - 1)
        follow[k \in 0 .. 2] ==    \* the last k octets
            IF k = 0 THEN 0
            ELSE (128 + ((c \div 64 ^ (k - 1)) % 64)) * 256 ^ (k - 1) + follow[k - 1]
    IN IF octets = 1 THEN c ELSE lead * 256 ^ (octets - 1) + follow[octets - 1]
(* As many bytes as the int has, the highest first.                        *)
PrintUTF8Code(utf8) ==
    LET bytes == IF utf8 < 256 THEN 1 ELSE IF utf8 < 65536 THEN 2 ELSE 3
    IN [i \in 1 .. bytes |-> (utf8 \div 256 ^ (bytes - i)) % 256]
kUTF8BOM == 15711167

VARIABLES
    encoding, text,     \* the arguments of the program
    read,               \* how much of the input file was read
    output              \* the output file
converterVars == <<encoding, text, read, output>>

ConverterInit ==
    /\ encoding \in DOMAIN Encodings /\ text \in Texts
    /\ read = 0 /\ output = PrintUTF8Code(kUTF8BOM)
Convert ==
    /\ read < Len(text) /\ read' = read + 1
    /\ output' = output \o PrintUTF8Code(ConvertUnicodeToUTF8(ToUnicode(encoding, text[read'])))
    /\ UNCHANGED <<encoding, text>>
ConverterSpec == ConverterInit /\ [][Convert]_converterVars

-----------------------------------------------------------------------------
(* What a reader of UTF-8 makes of a file: its characters, and the octets  *)
(* that are due; Malformed once an octet is out of place.                  *)
Malformed == -1
ReadOctet(reader, b) ==
    LET code == Last(reader.codes) * 64 + (b % 64)
        first(value, due) == [codes |-> Append(reader.codes, value), due |-> due]
    IN CASE reader.due = 0 /\ b < 128 -> first(b, 0)
         [] reader.due = 0 /\ b \in 194 .. 223 -> first(b - 192, 1)
         [] reader.due = 0 /\ b \in 224 .. 239 -> first(b - 224, 2)
         [] reader.due > 0 /\ b \in 128 .. 191 ->
               [codes |-> Append(Front(reader.codes), code), due |-> reader.due - 1]
         [] OTHER -> [reader EXCEPT !.due = Malformed]
Reader ==
    LET after[n \in 0 .. Len(output)] ==
            IF n = 0 THEN [codes |-> <<>>, due |-> 0] ELSE ReadOctet(after[n - 1], output[n])
    IN after[Len(output)]

Alphabet == \h410 .. \h44F
Sha == \h428

(* The output is well-formed UTF-8 for the characters of the input, after  *)
(* the mark of byte order, whatever their number of octets, and each of    *)
(* the three encodings can say every letter of the Russian alphabet, with  *)
(* one byte.  KOI8-R is short of one: its table has 482 where 428 belongs. *)
TextIsKept ==
    /\ Reader = [codes |-> <<\hFEFF>> \o [i \in 1 .. read |-> ToUnicode(encoding, text[i])], due |-> 0]
    /\ read = Len(text) =>
          \A letter \in Alphabet :
              (encoding = "koi8" /\ letter = Sha)
                  # (\E c \in 128 .. 255 : ToUnicode(encoding, c) = letter)
=============================================================================
