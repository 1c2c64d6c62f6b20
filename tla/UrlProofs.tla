------------------------------ MODULE UrlProofs -------------------------------
(* Proofs about the parts of a URL and the handler that is found for it,   *)
(* for URLs and tables of any length: what HttpExchange checks with the    *)
(* URLs of its requests.                                                   *)
EXTENDS HttpExchange, SequenceLemmas, TLAPS

-----------------------------------------------------------------------------
(* The first and the last place of a character.                            *)

LEMMA MinIs ==
  ASSUME NEW T, T \subseteq Nat, T # {}
  PROVE  Min(T) \in T /\ \A j \in T : Min(T) <= j
BY LeastExists DEF Min

LEMMA MaxIs ==
  ASSUME NEW n \in Nat, NEW T, T \subseteq 1..n, T # {}
  PROVE  Max(T) \in T /\ \A j \in T : Max(T) >= j
BY GreatestExists DEF Max

LEMMA FirstQueryIs ==
  ASSUME NEW S, NEW url \in Seq(S)
  PROVE  LET q == FirstQuery(url)
         IN  /\ q \in 0..Len(url)
             /\ q # 0 => url[q] = "?"
             /\ \A i \in 1..Len(url) : url[i] = "?" => q # 0 /\ q <= i
<1> DEFINE I == {i \in 1..Len(url) : url[i] = "?"}
<1>1. FirstQuery(url) = IF I # {} THEN Min(I) ELSE 0
  BY DEF FirstQuery, SelectInSeq
<1>2. I \subseteq Nat
  OBVIOUS
<1>3. I # {} => Min(I) \in I /\ \A j \in I : Min(I) <= j
  BY <1>2, MinIs
<1>4. Len(url) \in Nat
  BY LenProperties
<1> DEFINE k == Min(I)
<1>5. CASE I = {}
  BY <1>1, <1>4, <1>5
<1>6. CASE I # {}
  <2>1. FirstQuery(url) = k /\ k \in I /\ \A j \in I : k <= j
    BY <1>1, <1>3, <1>6
  <2> HIDE DEF k
  <2> QED
    BY <1>4, <2>1
<1> QED
  BY <1>5, <1>6

LEMMA LastSlashIs ==
  ASSUME NEW S, NEW url \in Seq(S)
  PROVE  LET s == LastSlash(url)
         IN  /\ s \in 0..Len(url)
             /\ s # 0 => url[s] = "/"
             /\ \A i \in 1..Len(url) : url[i] = "/" => s # 0 /\ i <= s
<1> DEFINE I == {i \in 1..Len(url) : url[i] = "/"}
<1>1. LastSlash(url) = IF I # {} THEN Max(I) ELSE 0
  BY DEF LastSlash, SelectLastInSeq
<1>2. I # {} => Max(I) \in I /\ \A j \in I : Max(I) >= j
  BY MaxIs, LenProperties
<1>3. Len(url) \in Nat
  BY LenProperties
<1> DEFINE k == Max(I)
<1>4. CASE I = {}
  BY <1>1, <1>3, <1>4
<1>5. CASE I # {}
  <2>1. LastSlash(url) = k /\ k \in I /\ \A j \in I : k >= j
    BY <1>1, <1>2, <1>5
  <2> HIDE DEF k
  <2> QED
    BY <1>3, <2>1
<1> QED
  BY <1>4, <1>5

-----------------------------------------------------------------------------
(* The parts of a plain URL.                                               *)

\* Its last slash is there, and in front of its first question mark.
LEMMA Places ==
  ASSUME NEW S, NEW url \in Seq(S), IsPlain(url)
  PROVE  LET s == LastSlash(url)
             q == FirstQuery(url)
         IN  /\ Len(url) \in Nat /\ s \in 1..Len(url) /\ url[s] = "/"
             /\ \A i \in 1..Len(url) : url[i] = "/" => i <= s
             /\ \/ q = 0
                \/ q \in 1..Len(url) /\ s < q /\ url[q] = "?"
             /\ \A i \in 1..Len(url) : url[i] = "?" => q # 0 /\ q <= i
<1> DEFINE s == LastSlash(url)
           q == FirstQuery(url)
<1>1. /\ Len(url) \in Nat /\ DOMAIN url = 1..Len(url)
      /\ \E i \in 1..Len(url) : url[i] = "/"
  BY LenProperties DEF IsPlain, ToSet
<1>2. s \in 0..Len(url) /\ (s # 0 => url[s] = "/")
      /\ \A i \in 1..Len(url) : url[i] = "/" => s # 0 /\ i <= s
  BY LastSlashIs
<1>3. q \in 0..Len(url) /\ (q # 0 => url[q] = "?")
      /\ \A i \in 1..Len(url) : url[i] = "?" => q # 0 /\ q <= i
  BY FirstQueryIs
<1> HIDE DEF s, q
<1>4. s # 0 /\ s \in 1..Len(url)
  BY <1>1, <1>2
<1>5. q # 0 => s < q
  BY <1>1, <1>2, <1>3, <1>4 DEF IsPlain
<1> QED
  BY <1>1, <1>2, <1>3, <1>4, <1>5 DEF s, q

\* The pieces of a stretch of a sequence.
LEMMA StretchIs ==
  ASSUME NEW S, NEW url \in Seq(S), NEW m \in 1..Len(url) + 1, NEW k \in m - 1..Len(url)
  PROVE  /\ SubSeq(url, m, k) \in Seq(S)
         /\ Len(SubSeq(url, m, k)) = k - m + 1
         /\ \A i \in 1..k - m + 1 : SubSeq(url, m, k)[i] = url[m + i - 1]
         /\ ToSet(SubSeq(url, m, k)) = {url[i] : i \in m..k}
<1> DEFINE t == SubSeq(url, m, k)
<1>1. Len(url) \in Nat /\ \A i \in 1..Len(url) : url[i] \in S
  BY LenProperties, ElementOfSeq
<1>2. /\ m \in Int /\ k \in Int /\ (m <= k \/ k = m - 1)
      /\ \A i \in m..k : url[i] \in S
  BY <1>1
<1>3. /\ t \in Seq(S) /\ Len(t) = IF m <= k THEN k - m + 1 ELSE 0
      /\ \A i \in 1..k - m + 1 : t[i] = url[m + i - 1]
  BY <1>2, SubSeqProperties
<1> HIDE DEF t
<1>4. Len(t) = k - m + 1 /\ DOMAIN t = 1..k - m + 1
  BY <1>2, <1>3, LenProperties
<1>5. ToSet(t) = {url[i] : i \in m..k}
  <2>1. \A i \in 1..k - m + 1 : m + i - 1 \in m..k
    BY <1>2
  <2>2. \A i \in m..k : i - m + 1 \in 1..k - m + 1 /\ m + (i - m + 1) - 1 = i
    BY <1>2
  <2>3. \A i \in m..k : t[i - m + 1] = url[i]
    BY <1>3, <2>2
  <2>4. ToSet(t) = {t[i] : i \in 1..k - m + 1}
    BY <1>4 DEF ToSet
  <2>5. \A i \in 1..k - m + 1 : t[i] \in {url[j] : j \in m..k}
    BY <1>3, <2>1
  <2>6. \A j \in m..k : url[j] \in {t[i] : i \in 1..k - m + 1}
    BY <2>2, <2>3
  <2> QED
    BY <2>4, <2>5, <2>6
<1> QED
  BY <1>3, <1>4, <1>5 DEF t

LEMMA DirectoryIs ==
  ASSUME NEW S, NEW url \in Seq(S), IsPlain(url)
  PROVE  Directory(url) = SubSeq(url, 1, LastSlash(url))
<1> DEFINE s == LastSlash(url)
           IsLast(n) == url[n] = "/" /\ "/" \notin ToSet(SubSeq(url, n + 1, Len(url)))
<1>1. /\ Len(url) \in Nat /\ s \in 1..Len(url) /\ url[s] = "/"
      /\ \A i \in 1..Len(url) : url[i] = "/" => i <= s
  BY Places
<1>2. DOMAIN url = 1..Len(url)
  BY LenProperties
<1> HIDE DEF s
<1>3. \A n \in 1..Len(url) :
        ToSet(SubSeq(url, n + 1, Len(url))) = {url[i] : i \in n + 1..Len(url)}
  <2> TAKE n \in 1..Len(url)
  <2>1. n + 1 \in 1..Len(url) + 1 /\ Len(url) \in n + 1 - 1..Len(url)
    BY <1>1
  <2> QED
    BY <2>1, StretchIs
<1>4. IsLast(s)
  BY <1>1, <1>3
<1>5. \A n \in 1..Len(url) : IsLast(n) => n = s
  <2> TAKE n \in 1..Len(url)
  <2>1. IsLast(n) /\ n < s => s \in n + 1..Len(url)
    BY <1>1
  <2>2. IsLast(n) => ~ (n < s)
    BY <1>1, <1>3, <2>1
  <2> QED
    BY <1>1, <2>2
<1>6. Directory(url) = SubSeq(url, 1, CHOOSE n \in 1..Len(url) : IsLast(n))
  BY <1>2 DEF Directory
<1> HIDE DEF IsLast
<1>7. (CHOOSE n \in 1..Len(url) : IsLast(n)) = s
  BY <1>1, <1>4, <1>5
<1> QED
  BY <1>6, <1>7 DEF s

\* get_filename() and get_query() take a URL of any length apart, if it has
\* a slash and none behind a question mark: behind the directory the name,
\* without slash and question mark, and the query, which starts with one.
\* get_path() is the directory, unless that is the root: then it is the URL.
THEOREM UrlIsTakenApart ==
  ASSUME NEW S, NEW url \in Seq(S), IsPlain(url)
  PROVE  LET file == GetFilename(url)
             query == GetQuery(url)
         IN  /\ Directory(url) \o file \o query = url
             /\ ToSet(file) \cap {"/", "?"} = {}
             /\ query # << >> => Head(query) = "?"
             /\ GetPath(url) = IF Directory(url) = <<"/">> THEN url ELSE Directory(url)
<1> DEFINE s == LastSlash(url)
           q == FirstQuery(url)
           end == IF q = 0 THEN Len(url) ELSE q - 1
           dir == SubSeq(url, 1, s)
           file == SubSeq(url, s + 1, end)
           query == SubSeq(url, end + 1, Len(url))
<1>1. /\ Len(url) \in Nat /\ s \in 1..Len(url) /\ url[s] = "/"
      /\ \A i \in 1..Len(url) : url[i] = "/" => i <= s
      /\ \/ q = 0
         \/ q \in 1..Len(url) /\ s < q /\ url[q] = "?"
      /\ \A i \in 1..Len(url) : url[i] = "?" => q # 0 /\ q <= i
  BY Places
<1>2. Directory(url) = dir
  BY DirectoryIs
<1>3. GetFilename(url) = file
  <2> HIDE DEF s, q
  <2>1. s # 0
    BY <1>1
  <2>2. CASE q = 0
    <3>1. ~ (q > s) /\ ~ (q = 1 /\ s = 1)
      BY <1>1, <2>2
    <3> QED
      BY <2>1, <2>2, <3>1 DEF GetFilename, s, q
  <2>3. CASE q # 0
    <3>1. q > s /\ ~ (q = 1 /\ s = 1)
      BY <1>1, <2>3
    <3> QED
      BY <2>1, <2>3, <3>1 DEF GetFilename, s, q
  <2> QED
    BY <2>2, <2>3
<1>4. GetQuery(url) = query
  <2>1. CASE q = 0
    <3>1. query = << >>
      BY <1>1, <2>1, SubSeqEmpty
    <3> QED
      BY <2>1, <3>1 DEF GetQuery
  <2>2. CASE q # 0
    <3>1. end + 1 = q
      BY <1>1, <2>2
    <3> QED
      BY <2>2, <3>1 DEF GetQuery
  <2> QED
    BY <2>1, <2>2
<1>5. end \in s..Len(url)
  BY <1>1
<1>6. /\ s + 1 \in 1..Len(url) + 1 /\ end \in s + 1 - 1..Len(url)
      /\ 1 \in 1..Len(url) + 1 /\ end \in 1 - 1..Len(url)
      /\ s \in 1 - 1..Len(url) /\ Len(url) \in end..Len(url)
  BY <1>1, <1>5
<1>7. dir \o file \o query = url
  <2> HIDE DEF s, end
  <2>1. dir \o file = SubSeq(url, 1, end)
    BY <1>5, <1>6, ConcatAdjacentSubSeq
  <2>2. SubSeq(url, 1, end) \o query = SubSeq(url, 1, Len(url))
    BY <1>5, <1>6, ConcatAdjacentSubSeq
  <2>3. SubSeq(url, 1, Len(url)) = url
    BY SubSeqFull
  <2> QED
    BY <2>1, <2>2, <2>3
<1>8. GetPath(url) = IF dir = <<"/">> THEN url ELSE dir
  <2>1. dir \in Seq(S) /\ Len(dir) = s /\ dir[s] = "/"
    BY <1>1, StretchIs
  <2>2. s = 1 <=> dir = <<"/">>
    <3> HIDE DEF dir, s
    <3>1. s = 1 => dir = <<"/">>
      BY <2>1
    <3>2. dir = <<"/">> => s = 1
      BY <2>1
    <3> QED
      BY <3>1, <3>2
  <2> QED
    BY <2>2 DEF GetPath
<1>9. ToSet(file) \cap {"/", "?"} = {}
  <2>1. \A i \in s + 1..end : url[i] # "/" /\ url[i] # "?"
    BY <1>1, <1>5
  <2> HIDE DEF s, end
  <2>2. \A m \in 1..Len(url) + 1 : \A k \in m - 1..Len(url) :
          ToSet(SubSeq(url, m, k)) = {url[i] : i \in m..k}
    BY StretchIs
  <2>3. ToSet(file) = {url[i] : i \in s + 1..end}
    BY <1>6, <2>2
  <2> QED
    BY <2>1, <2>3
<1>10. query # << >> => Head(query) = "?"
  <2>1. CASE q = 0
    BY <1>1, <2>1, SubSeqEmpty
  <2>2. CASE q # 0
    <3>1. q \in 1..Len(url) /\ end + 1 = q
      BY <1>1, <2>2
    <3>2. Head(SubSeq(url, q, Len(url))) = url[q]
      BY <1>1, <3>1, HeadTailOfSubSeq
    <3> QED
      BY <1>1, <2>2, <3>1, <3>2
  <2> QED
    BY <2>1, <2>2
<1> HIDE DEF dir, file, query
<1> QED
  BY <1>2, <1>3, <1>4, <1>7, <1>8, <1>9, <1>10

-----------------------------------------------------------------------------
(* The handler that is found.                                              *)

\* A table of handlers for directories: every path ends with a slash, and
\* the root directory, when there is a handler for it, comes first, as the
\* map that setHTTPHandler() fills sorts paths that start with a slash.
AreDirectories(handlers, S) ==
  /\ handlers \in Seq(Seq(S)) /\ handlers # << >>
  /\ \A i \in DOMAIN handlers :
       /\ handlers[i] # << >> /\ Last(handlers[i]) = "/"
       /\ handlers[i] = <<"/">> => i = 1

\* In the root directory the path is not cut: such a URL is looked up as it
\* is, and ends with a slash only when it is the root itself.
LEMMA RootIsNotCut ==
  ASSUME NEW S, NEW url \in Seq(S), IsPlain(url), LastSlash(url) = 1
  PROVE  /\ GetPath(url) = url /\ Directory(url) = <<"/">>
         /\ Last(url) = "/" => url = <<"/">>
<1>1. /\ Len(url) \in Nat /\ 1 \in 1..Len(url) /\ url[1] = "/"
      /\ \A i \in 1..Len(url) : url[i] = "/" => i <= 1
  BY Places
<1>2. GetPath(url) = url
  BY DEF GetPath
<1>3. Directory(url) = <<"/">>
  <2> DEFINE dir == SubSeq(url, 1, 1)
  <2>1. dir \in Seq(S) /\ Len(dir) = 1 /\ dir[1] = "/"
    BY <1>1, StretchIs
  <2>2. Directory(url) = dir
    BY DirectoryIs
  <2> HIDE DEF dir
  <2> QED
    BY <2>1, <2>2
<1>4. ASSUME Last(url) = "/"
      PROVE  url = <<"/">>
  <2>1. Len(url) = 1
    <3>1. Len(url) \in 1..Len(url) /\ Len(url) >= 1
      BY <1>1
    <3>2. url[Len(url)] = "/"
      BY <1>4 DEF Last
    <3>3. Len(url) <= 1
      BY <1>1, <3>1, <3>2
    <3>4. \A n \in Nat : n >= 1 /\ n <= 1 => n = 1
      OBVIOUS
    <3> QED
      BY <1>1, <3>1, <3>3, <3>4
  <2> QED
    BY <1>1, <2>1
<1> QED
  BY <1>2, <1>3, <1>4

\* getHTTPHandler() finds the handler of the directory a URL is in, whatever
\* the name of the file and the query are, and the first handler when there
\* is none for the directory: for every URL and every table of directories.
THEOREM DirectoryDecides ==
  ASSUME NEW S, AreDirectories(HTTPHandlers, S),
         NEW url \in Seq(S), IsPlain(url)
  PROVE  GetHTTPHandler(url) =
           IF Directory(url) \in ToSet(HTTPHandlers) THEN Directory(url)
           ELSE HTTPHandlers[1]
<1>1. GetHTTPHandler(url) =
        IF GetPath(url) \in ToSet(HTTPHandlers) THEN GetPath(url) ELSE HTTPHandlers[1]
  BY DEF GetHTTPHandler, AreDirectories
<1>2. CASE LastSlash(url) # 1
  <2>1. GetPath(url) = Directory(url)
    BY <1>2, DirectoryIs DEF GetPath
  <2> QED
    BY <1>1, <2>1
<1>3. CASE LastSlash(url) = 1
  <2>1. /\ GetPath(url) = url /\ Directory(url) = <<"/">>
        /\ Last(url) = "/" => url = <<"/">>
    BY <1>3, RootIsNotCut
  <2>2. url \in ToSet(HTTPHandlers) => url = <<"/">>
    BY <2>1 DEF AreDirectories, ToSet
  <2>3. <<"/">> \in ToSet(HTTPHandlers) => HTTPHandlers[1] = <<"/">>
    BY DEF AreDirectories, ToSet
  <2> QED
    BY <1>1, <2>1, <2>2, <2>3
<1> QED
  BY <1>2, <1>3
=============================================================================
