----------------------------- MODULE ArchiveFinder -----------------------------
(***************************************************************************)
(* hw1-rarjpeg: is a file a PKZip archive, behind a picture perhaps, and   *)
(* which files does it hold.  A byte of a file is abstracted to the        *)
(* signature that it and the next three make: that of a central file       *)
(* header, that of the end of central directory record, or none.           *)
(***************************************************************************)
EXTENDS Integers, Sequences, SequencesExt

CONSTANTS
    Inputs,         \* the input files, as the parts they are made of
    RecordSize,     \* sizeof(struct EndOfCentralDirectoryRecord)
    HeaderSize,     \* sizeof(struct CentralDirectoryFileHeader)
    UINT16_MAX      \* the longest comment that a record can have

Signatures == {"header", "end", "none"}
ASSUME ArchiveAssumption ==
    /\ RecordSize \in Nat \ {0} /\ HeaderSize \in Nat \ {0} /\ UINT16_MAX \in Nat
    /\ \A f \in Inputs :
          /\ f.front \in Seq(Signatures) /\ f.zip \in BOOLEAN /\ f.names \in Seq(Nat)
          /\ f.comment \in Seq(Signatures) /\ Len(f.comment) <= UINT16_MAX
          /\ f.zip \/ f.comment = <<>>

VARIABLES
    input,      \* what stands in front, the sizes of the names, the comment
    place,      \* i of either loop
    listed,     \* the places of the headers whose names were printed
    phase
archiveVars == <<input, place, listed, phase>>

(* The format: a picture and the data, the headers with their names, the   *)
(* record and its comment.                                                 *)
Struct(signature, size) == [n \in 1 .. size |-> IF n = 1 THEN signature ELSE "none"]
Entry(size) == Struct("header", HeaderSize) \o [n \in 1 .. size |-> "none"]
Directory(names) ==
    LET upTo[k \in 0 .. Len(names)] == IF k = 0 THEN <<>> ELSE upTo[k - 1] \o Entry(names[k])
    IN upTo[Len(names)]
Bytes(f) ==
    f.front \o (IF f.zip THEN Directory(f.names) \o Struct("end", RecordSize) ELSE <<>>) \o f.comment
file_size == Len(Bytes(input))

ArchiveInit == input \in Inputs /\ place = 0 /\ listed = <<>> /\ phase = "search"

(* fseek to a negative offset fails, and so does fread past the end.       *)
ReadsSignature(offset, size, signature) ==
    /\ offset >= 0 /\ offset + size <= file_size
    /\ Bytes(input)[offset + 1] = signature

MutLongestComment == UINT16_MAX - 1
LongestComment == UINT16_MAX
FindRecord ==
    /\ phase = "search" /\ place <= LongestComment
    /\ IF ReadsSignature(file_size - place - RecordSize, RecordSize, "end")
       THEN phase' = "list" /\ place' = 0
       ELSE phase' = phase /\ place' = place + 1
    /\ UNCHANGED <<input, listed>>
NotPKZip ==
    /\ phase = "search" /\ place > LongestComment /\ phase' = "not PKZip"
    /\ UNCHANGED <<input, place, listed>>

(* Every place of the file is tried, not only those of the directory.      *)
ListHeader ==
    /\ phase = "list" /\ place < file_size /\ place' = place + 1
    /\ listed' = IF ReadsSignature(place, HeaderSize, "header") THEN Append(listed, place) ELSE listed
    /\ UNCHANGED <<input, phase>>
ListEnd ==
    /\ phase = "list" /\ place = file_size /\ phase' = "listed"
    /\ UNCHANGED <<input, place, listed>>

ArchiveNext == FindRecord \/ NotPKZip \/ ListHeader \/ ListEnd
ArchiveSpec == ArchiveInit /\ [][ArchiveNext]_archiveVars

-----------------------------------------------------------------------------
(* An archive is found with the longest comment, too, wherever it begins,  *)
(* and all files of its directory are listed, once and in order, unless    *)
(* what is in front or the comment has a header of its own (an archive in  *)
(* the archive); a picture without a record is no archive.                 *)
EntriesAreListed ==
    LET stray == "header" \in Range(input.front) \union Range(input.comment)
    IN /\ phase = "not PKZip" => ~input.zip
       /\ phase = "listed" => input.zip \/ "end" \in Range(input.front)
       /\ phase = "listed" /\ input.zip /\ ~stray =>
             /\ Len(listed) = Len(input.names)
             /\ \A k \in DOMAIN listed :
                   listed[k] = Len(input.front)
                       + Len(Directory(SubSeq(input.names, 1, k - 1)))
=============================================================================
