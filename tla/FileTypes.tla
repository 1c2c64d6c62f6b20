----------------------------- MODULE FileTypes ------------------------------
(***************************************************************************)
(* The content type of a file: the table fileTypeMapping and its search in *)
(* HttpResponseBuilder::getStandardHeaders().  Names are strings.          *)
(***************************************************************************)
EXTENDS Integers, Sequences

Html == "text/html; charset=utf-8"

Type(fileExtension, value) == [key |-> fileExtension, value |-> value]

FileTypeMapping ==
  <<Type("gif", "image/gif"), Type("jpg", "image/jpeg"),
    Type("jpeg", "image/jpeg"), Type("ico", "image/x-icon"),
    Type("png", "image/png"), Type("zip", "image/zip"),
    Type("gz", "image/gz"), Type("tar", "image/tar"),
    Type("txt", "plain/text"), Type("pdf", "application/pdf"),
    Type("htm", Html), Type("html", Html),
    Type("css", "text/css"), Type("js", "text/javascript")>>

-----------------------------------------------------------------------------
UpperCase == "ABCDEFGHIJKLMNOPQRSTUVWXYZ"
LowerCase == "abcdefghijklmnopqrstuvwxyz"

CharAt(s, i) == SubSeq(s, i, i)

LowerOf ==
  [c \in {CharAt(UpperCase, j) : j \in 1..26} |->
     CharAt(LowerCase, CHOOSE j \in 1..26 : CharAt(UpperCase, j) = c)]

ToLower(c) == IF c \in DOMAIN LowerOf THEN LowerOf[c] ELSE c

\* Mutant: upper and lower case are different.
StricmpCase(a, b) ==
  \A i \in 1..Len(a) \cap 1..Len(b) : CharAt(a, i) = CharAt(b, i)

\* _stricmp(a, b) == 0: the shorter one begins the longer one.
Stricmp(a, b) ==
  \A i \in 1..Len(a) \cap 1..Len(b) : ToLower(CharAt(a, i)) = ToLower(CharAt(b, i))

\* filename.substr(filename.find_last_of(".") + 1)
Extension(filename) ==
  LET dots == {i \in 1..Len(filename) : CharAt(filename, i) = "."}
      from == IF dots = {} THEN 0
              ELSE CHOOSE i \in dots : \A j \in dots : j <= i
  IN  SubSeq(filename, from + 1, Len(filename))

\* The Content-Type that getStandardHeaders() leaves, old being the one before.
TypeOfFile(filename, old) ==
  LET hits == {i \in DOMAIN FileTypeMapping :
                 Stricmp(FileTypeMapping[i].key, Extension(filename))}
  IN  IF filename = "" THEN Html
      ELSE IF hits = {} THEN old
      ELSE FileTypeMapping[CHOOSE i \in hits : \A j \in hits : i <= j].value

-----------------------------------------------------------------------------
(* Not the code: the types whose extension stands in the table as a whole, *)
(* in either case.                                                         *)

SameLetters(a, b) ==
  Len(a) = Len(b) /\ \A i \in 1..Len(a) : ToLower(CharAt(a, i)) = ToLower(CharAt(b, i))

TypesMeant(filename) ==
  {FileTypeMapping[i].value : i \in
     {j \in DOMAIN FileTypeMapping :
        SameLetters(FileTypeMapping[j].key, Extension(filename))}}

\* The first key that an extension agrees with has the type meant, although
\* one may begin the other.
ASSUME TableAssumption ==
  /\ \A i, j \in DOMAIN FileTypeMapping :
       Stricmp(FileTypeMapping[i].key, FileTypeMapping[j].key) =>
         FileTypeMapping[i].value = FileTypeMapping[j].value
  /\ TypesMeant("") = {}
=============================================================================
