--------------------------- MODULE MCClientOutput ---------------------------
(* Instance of ClientOutput for TLC: files and frames on both sides of every limit. *)
EXTENDS ClientOutput

\* A file of any size, whole or cut; of one byte for every kind of name: each
\* key of the table, some of them in upper case, a name that is only a part of
\* a key or longer than one, several dots, none, and the empty name.
Sized ==
  {[name |-> "a.txt", size |-> n, onDisk |-> m] : n \in 0..4, m \in 0..4}
Names ==
  {"a.gif", "a.jpg", "a.jpeg", "a.ico", "a.png", "a.zip", "a.gz", "a.tar",
   "a.pdf", "a.htm", "a.html", "a.css", "a.js", "A.JPEG", "a.Html", "a.GZ",
   "a.b.css", "gif", "a.json", "a.j", "a.", "a.bin", ""}
SomeFiles ==
  {f \in Sized : f.onDisk <= f.size}
    \cup {[name |-> name, size |-> 1, onDisk |-> 1] : name \in Names}

\* Lengths on both sides of the limits Short = 2 and Medium = 4.
SomeFrames ==
  {[opcode |-> Text, length |-> n, fin |-> TRUE] : n \in 0..4}
    \cup {[opcode |-> Continuation, length |-> 1, fin |-> FALSE],
          [opcode |-> Close, length |-> 0, fin |-> TRUE]}
=============================================================================
