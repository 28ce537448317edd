--------------------------- MODULE MultipartProofs ---------------------------
(***************************************************************************)
(* Proofs about the parser's operators, for every buffer, and for every    *)
(* form of the shape in which browsers upload a file.                      *)
(*                                                                         *)
(* The library's induction theorems take a predicate as a parameter; the   *)
(* one about well-founded relations takes a set, and gives what is needed  *)
(* here: a set of natural numbers that is not empty has a least element.   *)
(***************************************************************************)
EXTENDS Multipart, SequenceTheorems, WellFoundedInduction, TLAPS

-----------------------------------------------------------------------------
(***************************************************************************)
(* Numbers and sequences.                                                  *)
(***************************************************************************)

\* A set of natural numbers that is not empty has a least element.
LEMMA Least ==
    ASSUME NEW T, T \subseteq Nat, T # {}
    PROVE  \E x \in T : \A y \in T : x <= y
<1>. DEFINE R == {ss \in Nat \X Nat : ss[1] < ss[2]}
<1>1. IsWellFoundedOn(R, Nat)
  BY NatLessThanWellFounded DEF OpToRel
<1>. HIDE DEF R
<1>2. PICK x \in T : \A y \in T : ~ (<<y, x>> \in R)
  BY <1>1, WFMin
<1>3. \A y \in T : y < x => <<y, x>> \in R
  BY DEF R
<1>4. \A y \in T : ~(y < x)
  BY <1>2, <1>3
<1>. QED BY <1>4

\* A pattern at a position, token by token.
Occurs(buffer, pattern, i) ==
    /\ i >= 1
    /\ i + Len(pattern) - 1 <= Len(buffer)
    /\ \A k \in 1 .. Len(pattern) : buffer[i + k - 1] = pattern[k]

\* SubSeq compares token by token.
LEMMA SubSeqOccurs ==
    ASSUME NEW S, NEW buffer \in Seq(S), NEW pattern \in Seq(S),
           NEW i \in Nat \ {0}, i + Len(pattern) - 1 <= Len(buffer)
    PROVE  SubSeq(buffer, i, i + Len(pattern) - 1) = pattern <=> Occurs(buffer, pattern, i)
<1>. DEFINE n == Len(pattern)
            sub == SubSeq(buffer, i, i + n - 1)
<1>1. n \in Nat /\ Len(buffer) \in Nat
  OBVIOUS
<1>2. sub \in Seq(S) /\ Len(sub) = n /\ \A k \in 1 .. n : sub[k] = buffer[i + k - 1]
  BY <1>1, SubSeqProperties
<1>3. sub = pattern <=> \A k \in 1 .. n : sub[k] = pattern[k]
  BY <1>2, SeqEqual
<1>. QED BY <1>2, <1>3 DEF Occurs

\* What std::string_view::find promises: the first occurrence from pos on, and
\* npos when there is none.
IsFirst(i, buffer, pattern, pos) ==
    /\ i \in Nat
    /\ i # npos => /\ pos # npos /\ i >= pos /\ Occurs(buffer, pattern, i)
                   /\ \A j \in pos .. i - 1 : ~Occurs(buffer, pattern, j)
    /\ i = npos => pos = npos \/ \A j \in Nat : j >= pos => ~Occurs(buffer, pattern, j)

\* find keeps that promise, for a pattern that is not empty.
LEMMA FindFirst ==
    ASSUME NEW S, NEW buffer \in Seq(S), NEW pattern \in Seq(S), pattern # <<>>,
           NEW pos \in Nat
    PROVE  IsFirst(find(buffer, pattern, pos), buffer, pattern, pos)
<1>. DEFINE n == Len(pattern)
            hits == {i \in pos .. Len(buffer) - n + 1 : SubSeq(buffer, i, i + n - 1) = pattern}
<1>1. n \in Nat \ {0} /\ Len(buffer) \in Nat
  OBVIOUS
<1>2. CASE pos = npos
  BY <1>2 DEF find, npos, IsFirst
<1>3. CASE pos # npos
  <2>1. pos \in Nat \ {0}
    BY <1>3 DEF npos
  <2>2. \A i \in Nat : i \in hits <=> i >= pos /\ Occurs(buffer, pattern, i)
    <3>. SUFFICES ASSUME NEW i \in Nat
                  PROVE  i \in hits <=> i >= pos /\ Occurs(buffer, pattern, i)
      OBVIOUS
    <3>1. CASE i >= pos /\ i + n - 1 <= Len(buffer)
      BY <1>1, <2>1, <3>1, SubSeqOccurs
    <3>2. CASE ~(i >= pos /\ i + n - 1 <= Len(buffer))
      BY <1>1, <2>1, <3>2 DEF Occurs
    <3>. QED BY <3>1, <3>2
  <2>3. hits \subseteq Nat
    BY <1>1, <2>1
  <2>4. find(buffer, pattern, pos) =
          IF hits = {} THEN npos ELSE CHOOSE i \in hits : \A j \in hits : i <= j
    BY <1>3 DEF find
  <2>. HIDE DEF hits
  <2>5. CASE hits = {}
    BY <2>2, <2>4, <2>5 DEF npos, IsFirst
  <2>6. CASE hits # {}
    <3>1. \E i \in hits : \A j \in hits : i <= j
      BY <2>3, <2>6, Least
    <3>2. /\ find(buffer, pattern, pos) \in hits
          /\ \A j \in hits : find(buffer, pattern, pos) <= j
      BY <2>4, <2>6, <3>1
    <3>. DEFINE f == find(buffer, pattern, pos)
    <3>3. f \in Nat /\ f \in hits
      BY <2>3, <3>2
    <3>4. f >= pos /\ Occurs(buffer, pattern, f)
      BY <2>2, <3>3
    <3>5. \A j \in pos .. f - 1 : ~Occurs(buffer, pattern, j)
      <4>. SUFFICES ASSUME NEW j \in pos .. f - 1, Occurs(buffer, pattern, j) PROVE FALSE
        OBVIOUS
      <4>1. j \in Nat /\ j >= pos /\ j < f
        BY <2>1, <3>3
      <4>2. j \in hits
        BY <2>2, <4>1
      <4>. QED BY <3>2, <3>3, <4>1, <4>2
    <3>. QED BY <2>1, <3>3, <3>4, <3>5 DEF npos, IsFirst
  <2>. QED BY <2>5, <2>6
<1>. QED BY <1>2, <1>3

\* An occurrence that no earlier one precedes is the one found.
LEMMA FindIs ==
    ASSUME NEW S, NEW buffer \in Seq(S), NEW pattern \in Seq(S), pattern # <<>>,
           NEW pos \in Nat \ {0}, NEW i \in Nat, i >= pos, Occurs(buffer, pattern, i),
           \A j \in pos .. i - 1 : ~Occurs(buffer, pattern, j)
    PROVE  find(buffer, pattern, pos) = i
<1>. DEFINE f == find(buffer, pattern, pos)
<1>1. /\ f \in Nat
      /\ f # npos => /\ f >= pos /\ Occurs(buffer, pattern, f)
                     /\ \A j \in pos .. f - 1 : ~Occurs(buffer, pattern, j)
      /\ f = npos => \A j \in Nat : j >= pos => ~Occurs(buffer, pattern, j)
  <2>1. IsFirst(f, buffer, pattern, pos)
    BY FindFirst
  <2>. QED BY <2>1 DEF IsFirst, npos
<1>. HIDE DEF f
<1>2. f # npos
  BY <1>1
<1>3. ~(f < i) /\ ~(i < f)
  BY <1>1, <1>2
<1>. QED BY <1>1, <1>3 DEF f

\* A substring is a sequence of the same tokens.
LEMMA SubstrSeq ==
    ASSUME NEW S, NEW buffer \in Seq(S), NEW first \in Nat \ {0}, NEW last \in Nat,
           last <= Len(buffer) + 1
    PROVE  substr(buffer, first, last) \in Seq(S)
<1>1. \A i \in first .. last - 1 : buffer[i] \in S
  OBVIOUS
<1>. QED BY <1>1, SubSeqProperties DEF substr

\* The tokens of a concatenation.
LEMMA ConcatAt ==
    ASSUME NEW S, NEW s \in Seq(S), NEW t \in Seq(S)
    PROVE  /\ s \o t \in Seq(S)
           /\ Len(s \o t) = Len(s) + Len(t)
           /\ \A i \in 1 .. Len(s) : (s \o t)[i] = s[i]
           /\ \A i \in 1 .. Len(t) : (s \o t)[Len(s) + i] = t[i]
  OBVIOUS

\* The tokens of a sequence with a token before it,
LEMMA PrefixAt ==
    ASSUME NEW S, NEW x \in S, NEW t \in Seq(S)
    PROVE  /\ <<x>> \o t \in Seq(S)
           /\ Len(<<x>> \o t) = 1 + Len(t)
           /\ (<<x>> \o t)[1] = x
           /\ \A i \in 1 .. Len(t) : (<<x>> \o t)[1 + i] = t[i]
  OBVIOUS

\* and with three.
LEMMA PrefixesAt ==
    ASSUME NEW S, NEW x \in S, NEW y \in S, NEW z \in S, NEW t \in Seq(S)
    PROVE  /\ <<x, y, z>> \o t \in Seq(S)
           /\ Len(<<x, y, z>> \o t) = 3 + Len(t)
           /\ (<<x, y, z>> \o t)[1] = x
           /\ (<<x, y, z>> \o t)[2] = y
           /\ (<<x, y, z>> \o t)[3] = z
           /\ \A i \in 1 .. Len(t) : (<<x, y, z>> \o t)[3 + i] = t[i]
  OBVIOUS

\* A search for one token finds the first,
LEMMA FindToken ==
    ASSUME NEW S, NEW buffer \in Seq(S), NEW x \in S, NEW pos \in Nat \ {0},
           NEW i \in Nat, i >= pos, i <= Len(buffer), buffer[i] = x,
           \A j \in pos .. i - 1 : buffer[j] # x
    PROVE  find(buffer, <<x>>, pos) = i
<1>1. <<x>> \in Seq(S) /\ <<x>> # <<>> /\ Len(<<x>>) = 1 /\ <<x>>[1] = x
  OBVIOUS
<1>2. Occurs(buffer, <<x>>, i)
  BY <1>1 DEF Occurs
<1>3. \A j \in pos .. i - 1 : ~Occurs(buffer, <<x>>, j)
  BY <1>1 DEF Occurs
<1>. QED BY <1>1, <1>2, <1>3, FindIs

\* or none where there is none.
LEMMA FindNoToken ==
    ASSUME NEW S, NEW buffer \in Seq(S), NEW x \in S, NEW pos \in Nat \ {0},
           \A j \in pos .. Len(buffer) : buffer[j] # x
    PROVE  find(buffer, <<x>>, pos) = npos
<1>. DEFINE f == find(buffer, <<x>>, pos)
<1>1. <<x>> \in Seq(S) /\ <<x>> # <<>> /\ Len(<<x>>) = 1 /\ <<x>>[1] = x
  OBVIOUS
<1>2. f \in Nat /\ (f # npos => f >= pos /\ Occurs(buffer, <<x>>, f))
  <2>1. IsFirst(f, buffer, <<x>>, pos)
    BY <1>1, FindFirst
  <2>. QED BY <2>1 DEF IsFirst
<1>. HIDE DEF f
<1>3. f # npos => f \in pos .. Len(buffer) /\ buffer[f] = x
  BY <1>1, <1>2 DEF Occurs
<1>. QED BY <1>3 DEF f

\* A search for two tokens, the first of which does not come earlier.
LEMMA FindTokens ==
    ASSUME NEW S, NEW buffer \in Seq(S), NEW x \in S, NEW y \in S, NEW pos \in Nat \ {0},
           NEW i \in Nat, i >= pos, i + 1 <= Len(buffer), buffer[i] = x, buffer[i + 1] = y,
           \A j \in pos .. i - 1 : buffer[j] # x
    PROVE  find(buffer, <<x, y>>, pos) = i
<1>1. /\ <<x, y>> \in Seq(S) /\ <<x, y>> # <<>> /\ Len(<<x, y>>) = 2
      /\ <<x, y>>[1] = x /\ <<x, y>>[2] = y
  OBVIOUS
<1>2. Occurs(buffer, <<x, y>>, i)
  BY <1>1 DEF Occurs
<1>3. \A j \in pos .. i - 1 : ~Occurs(buffer, <<x, y>>, j)
  BY <1>1 DEF Occurs
<1>. QED BY <1>1, <1>2, <1>3, FindIs

\* A stretch of a sequence that holds the tokens of another one is that one.
LEMMA SubstrIs ==
    ASSUME NEW S, NEW buffer \in Seq(S), NEW part \in Seq(S), NEW first \in Nat \ {0},
           first + Len(part) <= Len(buffer) + 1,
           \A i \in 1 .. Len(part) : buffer[first + i - 1] = part[i]
    PROVE  substr(buffer, first, first + Len(part)) = part
<1>. DEFINE n == Len(part)
            sub == SubSeq(buffer, first, first + n - 1)
<1>1. n \in Nat /\ Len(buffer) \in Nat
  OBVIOUS
<1>2. \A i \in first .. first + n - 1 : buffer[i] \in S
  BY <1>1
<1>3. sub \in Seq(S) /\ Len(sub) = n /\ \A k \in 1 .. n : sub[k] = buffer[first + k - 1]
  BY <1>1, <1>2, SubSeqProperties
<1>4. sub = part
  BY <1>3, SeqEqual
<1>. QED BY <1>1, <1>4 DEF substr
-----------------------------------------------------------------------------
(***************************************************************************)
(* The form of a browser.                                                  *)
(***************************************************************************)

\* The boundary is given without quotes, to the end of the header's value or
\* to the next parameter.
BrowserType(before, boundary, after) == before \o (<<"boundary=">> \o (boundary \o after))

\* Where its tokens are.
TypePositions(t, S, before, boundary, after) ==
    LET B == Len(before)
        N == Len(boundary)
        A == Len(after) IN
    /\ B \in Nat /\ N \in Nat /\ A \in Nat
    /\ t \in Seq(S) /\ Len(t) = B + 1 + N + A
    /\ \A i \in 1 .. B : t[i] = before[i]
    /\ t[B + 1] = "boundary="
    /\ \A i \in 1 .. N : t[B + 1 + i] = boundary[i]
    /\ \A i \in 1 .. A : t[B + 1 + N + i] = after[i]

\* The value of the header, taken apart.
LEMMA TypeAt ==
    ASSUME NEW S, "boundary=" \in S,
           NEW before \in Seq(S), NEW boundary \in Seq(S), NEW after \in Seq(S)
    PROVE  TypePositions(BrowserType(before, boundary, after), S, before, boundary, after)
<1>. DEFINE r1 == boundary \o after
            r2 == <<"boundary=">> \o r1
            t == before \o r2
            B == Len(before)
            N == Len(boundary)
            A == Len(after)
<1>1. /\ r1 \in Seq(S) /\ Len(r1) = N + A
      /\ \A i \in 1 .. N : r1[i] = boundary[i]
      /\ \A i \in 1 .. A : r1[N + i] = after[i]
  BY ConcatAt
<1>. HIDE DEF r1
<1>3. /\ r2 \in Seq(S) /\ Len(r2) = 1 + Len(r1) /\ r2[1] = "boundary="
      /\ \A i \in 1 .. Len(r1) : r2[1 + i] = r1[i]
  BY <1>1, PrefixAt
<1>. HIDE DEF r2
<1>4. /\ t \in Seq(S) /\ Len(t) = B + Len(r2)
      /\ \A i \in 1 .. B : t[i] = before[i]
      /\ \A i \in 1 .. Len(r2) : t[B + i] = r2[i]
  <2>1. r2 \in Seq(S)
    BY <1>3
  <2>. QED BY <2>1, ConcatAt
<1>. HIDE DEF t
<1>5. B \in Nat /\ N \in Nat /\ A \in Nat /\ Len(t) = B + 1 + N + A
  BY <1>1, <1>3, <1>4
<1>. HIDE DEF B, N, A
<1>6. t[B + 1] = "boundary="
  BY <1>1, <1>3, <1>4, <1>5
<1>7. \A i \in 1 .. N : t[B + 1 + i] = boundary[i]
  <2>. TAKE i \in 1 .. N
  <2>1. t[B + (1 + i)] = r2[1 + i]
    BY <1>1, <1>3, <1>4, <1>5
  <2>2. r2[1 + i] = r1[i]
    BY <1>1, <1>3, <1>4, <1>5
  <2>3. r1[i] = boundary[i]
    BY <1>1, <1>3, <1>4, <1>5
  <2>. QED BY <1>5, <2>1, <2>2, <2>3
<1>8. \A i \in 1 .. A : t[B + 1 + N + i] = after[i]
  <2>. TAKE i \in 1 .. A
  <2>1. N + i \in 1 .. Len(r1) /\ 1 + (N + i) \in 1 .. Len(r2)
    BY <1>1, <1>3, <1>5
  <2>2. t[B + (1 + (N + i))] = r2[1 + (N + i)]
    BY <1>4, <2>1
  <2>3. r2[1 + (N + i)] = r1[N + i] /\ r1[N + i] = after[i]
    BY <1>1, <1>3, <2>1
  <2>4. B + (1 + (N + i)) = B + 1 + N + i
    BY <1>5
  <2>. QED BY <2>2, <2>3, <2>4
<1>9. t = BrowserType(before, boundary, after)
  BY DEF BrowserType, t, r2, r1
<1>. QED BY <1>4, <1>5, <1>6, <1>7, <1>8, <1>9 DEF B, N, A, TypePositions

\* extract_boundary finds the boundary of a browser's form.
LEMMA ExtractBoundary ==
    ASSUME NEW S, {"boundary=", "crlf", "semicolon"} \subseteq S,
           NEW before \in Seq(S), NEW boundary \in Seq(S), NEW after \in Seq(S),
           \A i \in 1 .. Len(before) : before[i] # "boundary=",
           \A i \in 1 .. Len(boundary) : boundary[i] \notin {"crlf", "semicolon"},
           \A i \in 1 .. Len(after) : after[i] # "crlf",
           after = <<>> \/ after[1] = "semicolon"
    PROVE  extract_boundary(BrowserType(before, boundary, after)) = boundary
<1>. DEFINE t == BrowserType(before, boundary, after)
            B == Len(before)
            N == Len(boundary)
            A == Len(after)
<1>1. /\ B \in Nat /\ N \in Nat /\ A \in Nat
      /\ t \in Seq(S) /\ Len(t) = B + 1 + N + A
      /\ \A i \in 1 .. B : t[i] = before[i]
      /\ t[B + 1] = "boundary="
      /\ \A i \in 1 .. N : t[B + 1 + i] = boundary[i]
      /\ \A i \in 1 .. A : t[B + 1 + N + i] = after[i]
  <2>1. "boundary=" \in S
    OBVIOUS
  <2>2. TypePositions(t, S, before, boundary, after)
    BY <2>1, TypeAt
  <2>. QED BY <2>2 DEF TypePositions
<1>2. A = 0 \/ after[1] = "semicolon"
  OBVIOUS
<1>. HIDE DEF t
<1>3. \A j \in B + 2 .. B + 1 + N : t[j] \notin {"crlf", "semicolon"}
  <2>. TAKE j \in B + 2 .. B + 1 + N
  <2>1. j - B - 1 \in 1 .. N /\ B + 1 + (j - B - 1) = j
    BY <1>1
  <2>. QED BY <1>1, <2>1
<1>4. \A j \in B + 2 + N .. Len(t) : t[j] # "crlf"
  <2>. TAKE j \in B + 2 + N .. Len(t)
  <2>1. j - B - 1 - N \in 1 .. A /\ B + 1 + N + (j - B - 1 - N) = j
    BY <1>1
  <2>. QED BY <1>1, <2>1
<1>. HIDE DEF B, N, A
<1>5. find(t, <<"boundary=">>, 1) = B + 1
  <2>1. \A j \in 1 .. B : t[j] # "boundary="
    BY <1>1 DEF B
  <2>. QED BY <1>1, <2>1, FindToken, SMTT(30)
<1>6. find(t, <<"crlf">>, B + 2) = npos
  <2>1. \A j \in B + 2 .. Len(t) : t[j] # "crlf"
    BY <1>1, <1>3, <1>4
  <2>. QED BY <1>1, <2>1, FindNoToken
<1>7. substr(t, B + 2, B + 2 + N) = boundary
  <2>1. \A i \in 1 .. Len(boundary) : t[B + 2 + i - 1] = boundary[i]
    BY <1>1 DEF N
  <2>2. B + 2 \in Nat \ {0} /\ (B + 2) + Len(boundary) <= Len(t) + 1
    BY <1>1 DEF N
  <2>3. substr(t, B + 2, (B + 2) + Len(boundary)) = boundary
    BY <1>1, <2>1, <2>2, SubstrIs, SMTT(30)
  <2>. QED BY <2>3 DEF N
<1>8. CASE A = 0
  <2>1. find(t, <<"semicolon">>, B + 2) = npos
    <3>1. \A j \in B + 2 .. Len(t) : t[j] # "semicolon"
      BY <1>1, <1>3, <1>8
    <3>. QED BY <1>1, <3>1, FindNoToken
  <2>2. extract_boundary(t) = substr(t, B + 1 + 1, Len(t) + 1)
    BY <1>1, <1>5, <1>6, <2>1 DEF extract_boundary, npos
  <2>. QED BY <1>1, <1>7, <1>8, <2>2 DEF t
<1>9. CASE A # 0
  <2>1. find(t, <<"semicolon">>, B + 2) = B + 2 + N
    <3>1. t[B + 2 + N] = "semicolon" /\ B + 2 + N <= Len(t)
      BY <1>1, <1>2, <1>9
    <3>2. \A j \in B + 2 .. (B + 2 + N) - 1 : t[j] # "semicolon"
      BY <1>1, <1>3
    <3>3. /\ B + 2 \in Nat \ {0} /\ B + 2 + N \in Nat /\ B + 2 + N >= B + 2
          /\ "semicolon" \in S /\ t \in Seq(S)
      BY <1>1
    <3>. QED BY <3>1, <3>2, <3>3, FindToken
  <2>2. extract_boundary(t) = substr(t, B + 1 + 1, B + 2 + N)
    BY <1>1, <1>5, <1>6, <2>1 DEF extract_boundary, npos
  <2>. QED BY <1>1, <1>7, <2>2 DEF t
<1>. QED BY <1>8, <1>9

(***************************************************************************)
(* The body: anything, the part of the file, and what comes after it.      *)
(***************************************************************************)
FileOf(file, sent, after) ==
    file \o (<<"quote", "crlf", "crlf">> \o (sent \o (<<"crlf">> \o after)))

BrowserBody(before, boundary, rest) ==
    before \o (<<"--">> \o (boundary \o (<<"crlf", "filename=", "quote">> \o rest)))

\* Where the tokens of the file's part are.
FilePositions(t, S, file, sent, after) ==
    LET F == Len(file)
        C == Len(sent)
        A == Len(after) IN
    /\ F \in Nat /\ C \in Nat /\ A \in Nat
    /\ t \in Seq(S) /\ Len(t) = F + C + A + 4
    /\ \A i \in 1 .. F : t[i] = file[i]
    /\ t[F + 1] = "quote" /\ t[F + 2] = "crlf" /\ t[F + 3] = "crlf"
    /\ \A i \in 1 .. C : t[F + 3 + i] = sent[i]
    /\ t[F + 3 + C + 1] = "crlf"
    /\ \A i \in 1 .. A : t[F + C + 4 + i] = after[i]

\* The file's part, taken apart.
LEMMA FileAt ==
    ASSUME NEW S, {"quote", "crlf"} \subseteq S,
           NEW file \in Seq(S), NEW sent \in Seq(S), NEW after \in Seq(S)
    PROVE  FilePositions(FileOf(file, sent, after), S, file, sent, after)
<1>. DEFINE r1 == <<"crlf">> \o after
            r2 == sent \o r1
            r3 == <<"quote", "crlf", "crlf">> \o r2
            t == file \o r3
            F == Len(file)
            C == Len(sent)
            A == Len(after)
<1>1. "quote" \in S /\ "crlf" \in S
  OBVIOUS
<1>2. /\ r1 \in Seq(S) /\ Len(r1) = 1 + A /\ r1[1] = "crlf"
      /\ \A i \in 1 .. A : r1[1 + i] = after[i]
  BY <1>1, PrefixAt
<1>. HIDE DEF r1
<1>3. /\ r2 \in Seq(S) /\ Len(r2) = C + Len(r1)
      /\ \A i \in 1 .. C : r2[i] = sent[i]
      /\ \A i \in 1 .. Len(r1) : r2[C + i] = r1[i]
  <2>1. r1 \in Seq(S)
    BY <1>2
  <2>. QED BY <2>1, ConcatAt
<1>. HIDE DEF r2
<1>4. /\ r3 \in Seq(S) /\ Len(r3) = 3 + Len(r2)
      /\ r3[1] = "quote" /\ r3[2] = "crlf" /\ r3[3] = "crlf"
      /\ \A i \in 1 .. Len(r2) : r3[3 + i] = r2[i]
  <2>1. r2 \in Seq(S)
    BY <1>3
  <2>. QED BY <1>1, <2>1, PrefixesAt
<1>. HIDE DEF r3
<1>5. /\ t \in Seq(S) /\ Len(t) = F + Len(r3)
      /\ \A i \in 1 .. F : t[i] = file[i]
      /\ \A i \in 1 .. Len(r3) : t[F + i] = r3[i]
  <2>1. r3 \in Seq(S)
    BY <1>4
  <2>. QED BY <2>1, ConcatAt
<1>. HIDE DEF t
<1>6. F \in Nat /\ C \in Nat /\ A \in Nat
  OBVIOUS
<1>. HIDE DEF F, C, A
<1>7. Len(r1) = 1 + A /\ Len(r2) = C + A + 1 /\ Len(r3) = C + A + 4 /\ Len(t) = F + C + A + 4
  BY <1>2, <1>3, <1>4, <1>5, <1>6
<1>8. t[F + 1] = "quote" /\ t[F + 2] = "crlf" /\ t[F + 3] = "crlf"
  BY <1>4, <1>5, <1>6, <1>7
<1>9. \A i \in 1 .. C : t[F + 3 + i] = sent[i]
  <2>. TAKE i \in 1 .. C
  <2>1. 3 + i \in 1 .. Len(r3) /\ i \in 1 .. Len(r2) /\ F + (3 + i) = F + 3 + i
    BY <1>6, <1>7
  <2>2. t[F + (3 + i)] = r3[3 + i] /\ r3[3 + i] = r2[i] /\ r2[i] = sent[i]
    BY <1>3, <1>4, <1>5, <2>1
  <2>. QED BY <2>1, <2>2
<1>10. t[F + 3 + C + 1] = "crlf"
  <2>1. /\ 3 + (C + 1) \in 1 .. Len(r3) /\ C + 1 \in 1 .. Len(r2) /\ 1 \in 1 .. Len(r1)
        /\ F + (3 + (C + 1)) = F + 3 + C + 1
    BY <1>6, <1>7
  <2>2. t[F + (3 + (C + 1))] = r3[3 + (C + 1)] /\ r3[3 + (C + 1)] = r2[C + 1]
    BY <1>4, <1>5, <2>1
  <2>3. r2[C + 1] = r1[1]
    BY <1>3, <2>1
  <2>. QED BY <1>2, <2>1, <2>2, <2>3
<1>11. \A i \in 1 .. A : t[F + C + 4 + i] = after[i]
  <2>. TAKE i \in 1 .. A
  <2>1. /\ 3 + (C + (1 + i)) \in 1 .. Len(r3) /\ C + (1 + i) \in 1 .. Len(r2)
        /\ 1 + i \in 1 .. Len(r1) /\ F + (3 + (C + (1 + i))) = F + C + 4 + i
    BY <1>6, <1>7
  <2>2. t[F + (3 + (C + (1 + i)))] = r3[3 + (C + (1 + i))]
    BY <1>5, <2>1
  <2>3. r3[3 + (C + (1 + i))] = r2[C + (1 + i)]
    BY <1>4, <2>1
  <2>4. r2[C + (1 + i)] = r1[1 + i] /\ r1[1 + i] = after[i]
    BY <1>2, <1>3, <2>1
  <2>. QED BY <2>1, <2>2, <2>3, <2>4
<1>12. t = FileOf(file, sent, after)
  BY DEF FileOf, t, r3, r2, r1
<1>. QED BY <1>5, <1>6, <1>7, <1>8, <1>9, <1>10, <1>11, <1>12 DEF F, C, A, FilePositions

\* Where the tokens before it are.
BodyPositions(t, S, before, boundary, rest) ==
    LET D == Len(before)
        N == Len(boundary) IN
    /\ D \in Nat /\ N \in Nat /\ Len(rest) \in Nat
    /\ t \in Seq(S) /\ Len(t) = D + N + 4 + Len(rest)
    /\ \A i \in 1 .. D : t[i] = before[i]
    /\ t[D + 1] = "--"
    /\ \A i \in 1 .. N : t[D + 1 + i] = boundary[i]
    /\ t[D + N + 2] = "crlf" /\ t[D + N + 3] = "filename=" /\ t[D + N + 4] = "quote"
    /\ \A i \in 1 .. Len(rest) : t[D + N + 4 + i] = rest[i]

\* The body, taken apart.
LEMMA BodyAt ==
    ASSUME NEW S, {"--", "quote", "crlf", "filename="} \subseteq S,
           NEW before \in Seq(S), NEW boundary \in Seq(S), NEW rest \in Seq(S)
    PROVE  BodyPositions(BrowserBody(before, boundary, rest), S, before, boundary, rest)
<1>. DEFINE r1 == <<"crlf", "filename=", "quote">> \o rest
            r2 == boundary \o r1
            r3 == <<"--">> \o r2
            t == before \o r3
            D == Len(before)
            N == Len(boundary)
            R == Len(rest)
<1>1. "--" \in S /\ "quote" \in S /\ "crlf" \in S /\ "filename=" \in S
  OBVIOUS
<1>2. /\ r1 \in Seq(S) /\ Len(r1) = 3 + R
      /\ r1[1] = "crlf" /\ r1[2] = "filename=" /\ r1[3] = "quote"
      /\ \A i \in 1 .. R : r1[3 + i] = rest[i]
  BY <1>1, PrefixesAt
<1>. HIDE DEF r1
<1>3. /\ r2 \in Seq(S) /\ Len(r2) = N + Len(r1)
      /\ \A i \in 1 .. N : r2[i] = boundary[i]
      /\ \A i \in 1 .. Len(r1) : r2[N + i] = r1[i]
  <2>1. r1 \in Seq(S)
    BY <1>2
  <2>. QED BY <2>1, ConcatAt
<1>. HIDE DEF r2
<1>4. /\ r3 \in Seq(S) /\ Len(r3) = 1 + Len(r2) /\ r3[1] = "--"
      /\ \A i \in 1 .. Len(r2) : r3[1 + i] = r2[i]
  <2>1. r2 \in Seq(S)
    BY <1>3
  <2>. QED BY <1>1, <2>1, PrefixAt
<1>. HIDE DEF r3
<1>5. /\ t \in Seq(S) /\ Len(t) = D + Len(r3)
      /\ \A i \in 1 .. D : t[i] = before[i]
      /\ \A i \in 1 .. Len(r3) : t[D + i] = r3[i]
  <2>1. r3 \in Seq(S)
    BY <1>4
  <2>. QED BY <2>1, ConcatAt
<1>. HIDE DEF t
<1>6. D \in Nat /\ N \in Nat /\ R \in Nat
  OBVIOUS
<1>. HIDE DEF D, N, R
<1>7. Len(r1) = 3 + R /\ Len(r2) = N + R + 3 /\ Len(r3) = N + R + 4 /\ Len(t) = D + N + 4 + R
  BY <1>2, <1>3, <1>4, <1>5, <1>6
<1>8. t[D + 1] = "--"
  BY <1>4, <1>5, <1>6, <1>7
<1>9. \A i \in 1 .. N : t[D + 1 + i] = boundary[i]
  <2>. TAKE i \in 1 .. N
  <2>1. 1 + i \in 1 .. Len(r3) /\ i \in 1 .. Len(r2) /\ D + (1 + i) = D + 1 + i
    BY <1>6, <1>7
  <2>2. t[D + (1 + i)] = r3[1 + i] /\ r3[1 + i] = r2[i] /\ r2[i] = boundary[i]
    BY <1>3, <1>4, <1>5, <2>1
  <2>. QED BY <2>1, <2>2
<1>10. \A i \in 1 .. Len(r1) : t[D + N + 1 + i] = r1[i]
  <2>. TAKE i \in 1 .. Len(r1)
  <2>1. /\ 1 + (N + i) \in 1 .. Len(r3) /\ N + i \in 1 .. Len(r2)
        /\ D + (1 + (N + i)) = D + N + 1 + i
    BY <1>6, <1>7
  <2>2. t[D + (1 + (N + i))] = r3[1 + (N + i)]
    BY <1>5, <2>1
  <2>3. r3[1 + (N + i)] = r2[N + i] /\ r2[N + i] = r1[i]
    BY <1>3, <1>4, <2>1
  <2>. QED BY <2>1, <2>2, <2>3
<1>11. t[D + N + 2] = "crlf" /\ t[D + N + 3] = "filename=" /\ t[D + N + 4] = "quote"
  <2>1. /\ {1, 2, 3} \subseteq 1 .. Len(r1)
        /\ D + N + 1 + 1 = D + N + 2 /\ D + N + 1 + 2 = D + N + 3 /\ D + N + 1 + 3 = D + N + 4
    BY <1>6, <1>7
  <2>2. t[D + N + 1 + 1] = r1[1] /\ t[D + N + 1 + 2] = r1[2] /\ t[D + N + 1 + 3] = r1[3]
    BY <1>10, <2>1
  <2>. QED BY <1>2, <2>1, <2>2
<1>12. \A i \in 1 .. R : t[D + N + 4 + i] = rest[i]
  <2>. TAKE i \in 1 .. R
  <2>1. 3 + i \in 1 .. Len(r1) /\ D + N + 1 + (3 + i) = D + N + 4 + i
    BY <1>6, <1>7
  <2>2. t[D + N + 1 + (3 + i)] = r1[3 + i] /\ r1[3 + i] = rest[i]
    BY <1>2, <1>10, <2>1
  <2>. QED BY <2>1, <2>2
<1>13. t = BrowserBody(before, boundary, rest)
  BY DEF BrowserBody, t, r3, r2, r1
<1>. QED BY <1>5, <1>6, <1>7, <1>8, <1>9, <1>11, <1>12, <1>13 DEF D, N, R, BodyPositions

(***************************************************************************)
(* What write makes of it.                                                 *)
(***************************************************************************)

\* The name and the content that the searches find, and where they go on.
LEMMA NameAndContent ==
    ASSUME NEW S, {"--", "quote", "crlf", "filename="} \subseteq S,
           NEW before \in Seq(S), NEW boundary \in Seq(S), NEW file \in Seq(S),
           NEW sent \in Seq(S), NEW after \in Seq(S), NEW t, NEW rest,
           BodyPositions(t, S, before, boundary, rest),
           FilePositions(rest, S, file, sent, after),
           \A i \in 1 .. Len(before) : before[i] # "filename=",
           \A i \in 1 .. Len(boundary) : boundary[i] # "filename=",
           \A i \in 1 .. Len(file) : file[i] # "quote"
    PROVE  LET E == Len(before) + Len(boundary) + 5 + Len(file)
               name == find_filename(boundary, t)
               content == find_file_content(t, E) IN
           /\ name = Found(Len(before) + Len(boundary) + 5, E, E)
           /\ substr(t, Len(before) + Len(boundary) + 5, E) = file
           /\ content.found /\ substr(t, content.first, content.last) = FirstLine(sent)
           /\ content.pos \in Nat \ {0} /\ content.pos <= E + 3 + Len(sent)
<1>. DEFINE D == Len(before)
            N == Len(boundary)
            F == Len(file)
            C == Len(sent)
            A == Len(after)
            E == D + N + 5 + F
<1>1. /\ D \in Nat /\ N \in Nat /\ Len(rest) \in Nat
      /\ t \in Seq(S) /\ Len(t) = D + N + 4 + Len(rest)
      /\ \A i \in 1 .. D : t[i] = before[i]
      /\ t[D + 1] = "--"
      /\ \A i \in 1 .. N : t[D + 1 + i] = boundary[i]
      /\ t[D + N + 2] = "crlf" /\ t[D + N + 3] = "filename=" /\ t[D + N + 4] = "quote"
      /\ \A i \in 1 .. Len(rest) : t[D + N + 4 + i] = rest[i]
  BY DEF BodyPositions
<1>2. /\ F \in Nat /\ C \in Nat /\ A \in Nat
      /\ rest \in Seq(S) /\ Len(rest) = F + C + A + 4
      /\ \A i \in 1 .. F : rest[i] = file[i]
      /\ rest[F + 1] = "quote" /\ rest[F + 2] = "crlf" /\ rest[F + 3] = "crlf"
      /\ \A i \in 1 .. C : rest[F + 3 + i] = sent[i]
      /\ rest[F + 3 + C + 1] = "crlf"
  BY DEF FilePositions
<1>3. "--" \in S /\ "quote" \in S /\ "crlf" \in S /\ "filename=" \in S
  OBVIOUS
<1>4. /\ \A i \in 1 .. D : before[i] # "filename="
      /\ \A i \in 1 .. N : boundary[i] # "filename="
      /\ \A i \in 1 .. F : file[i] # "quote"
  OBVIOUS
<1>. HIDE DEF D, N, F, C, A
<1>5. E \in Nat /\ Len(t) = E + 3 + C + A
  BY <1>1, <1>2
<1>6. t[E] = "quote" /\ t[E + 1] = "crlf" /\ t[E + 2] = "crlf" /\ t[E + 3 + C] = "crlf"
  <2>1. /\ D + N + 4 + (F + 1) = E /\ D + N + 4 + (F + 2) = E + 1
        /\ D + N + 4 + (F + 3) = E + 2 /\ D + N + 4 + (F + 3 + C + 1) = E + 3 + C
        /\ {F + 1, F + 2, F + 3, F + 3 + C + 1} \subseteq 1 .. Len(rest)
    BY <1>1, <1>2
  <2>. HIDE DEF E
  <2>2. /\ t[D + N + 4 + (F + 1)] = rest[F + 1] /\ t[D + N + 4 + (F + 2)] = rest[F + 2]
        /\ t[D + N + 4 + (F + 3)] = rest[F + 3]
        /\ t[D + N + 4 + (F + 3 + C + 1)] = rest[F + 3 + C + 1]
    BY <1>1, <2>1
  <2>. QED BY <1>2, <2>1, <2>2
<1>7. \A i \in 1 .. C : t[E + 2 + i] = sent[i]
  <2>. TAKE i \in 1 .. C
  <2>1. D + N + 4 + (F + 3 + i) = E + 2 + i /\ F + 3 + i \in 1 .. Len(rest)
    BY <1>1, <1>2
  <2>. HIDE DEF E
  <2>2. t[D + N + 4 + (F + 3 + i)] = rest[F + 3 + i] /\ rest[F + 3 + i] = sent[i]
    BY <1>1, <1>2, <2>1
  <2>. QED BY <2>1, <2>2
<1>8. \A i \in 1 .. F : t[D + N + 4 + i] = file[i]
  BY <1>1, <1>2
<1>9. find_filename(boundary, t) = Found(D + N + 5, E, E)
  <2>. DEFINE p == boundary \o <<"crlf">>
              pos == find(t, p, 1)
  <2>1. /\ p \in Seq(S) /\ Len(p) = N + 1 /\ p[N + 1] = "crlf" /\ p # <<>>
        /\ \A i \in 1 .. N : p[i] = boundary[i]
    BY <1>3 DEF N
  <2>. HIDE DEF p
  <2>2. Occurs(t, p, D + 2)
    <3>1. D + 2 >= 1 /\ D + 2 + Len(p) - 1 <= Len(t)
      BY <1>1, <1>2, <2>1
    <3>2. ASSUME NEW k \in 1 .. Len(p) PROVE t[D + 2 + k - 1] = p[k]
      <4>1. CASE k \in 1 .. N
        <5>1. D + 2 + k - 1 = D + 1 + k
          BY <1>1, <4>1
        <5>. QED BY <1>1, <2>1, <4>1, <5>1
      <4>2. CASE k = N + 1
        <5>1. D + 2 + k - 1 = D + N + 2
          BY <1>1, <4>2
        <5>. QED BY <1>1, <2>1, <4>2, <5>1
      <4>. QED BY <1>1, <2>1, <4>1, <4>2
    <3>. QED BY <3>1, <3>2 DEF Occurs
  <2>3. pos \in Nat \ {0} /\ pos <= D + 2
    <3>1. 1 \in Nat /\ t \in Seq(S)
      BY <1>1
    <3>2. /\ pos \in Nat
          /\ pos # npos => pos >= 1 /\ \A j \in 1 .. pos - 1 : ~Occurs(t, p, j)
          /\ pos = npos => \A j \in Nat : j >= 1 => ~Occurs(t, p, j)
      <4>1. IsFirst(pos, t, p, 1)
        BY <2>1, <3>1, FindFirst
      <4>. QED BY <4>1 DEF IsFirst, npos
    <3>. HIDE DEF pos
    <3>3. D + 2 \in Nat /\ D + 2 >= 1
      BY <1>1
    <3>. QED BY <2>2, <3>2, <3>3 DEF npos
  <2>. HIDE DEF pos
  <2>4. find(t, <<"filename=", "quote">>, pos) = D + N + 3
    <3>1. \A j \in pos .. (D + N + 3) - 1 : t[j] # "filename="
      <4>. TAKE j \in pos .. (D + N + 3) - 1
      <4>1. CASE j <= D
        <5>1. j \in 1 .. D
          BY <1>1, <2>3, <4>1
        <5>. QED BY <1>1, <1>4, <5>1
      <4>2. CASE j = D + 1 \/ j = D + N + 2
        BY <1>1, <4>2
      <4>3. CASE D + 2 <= j /\ j <= D + N + 1
        <5>1. PICK k \in 1 .. N : D + 1 + k = j
          <6>1. j - D - 1 \in 1 .. N /\ D + 1 + (j - D - 1) = j
            BY <1>1, <2>3, <4>3
          <6>. QED BY <6>1
        <5>2. t[D + 1 + k] = boundary[k] /\ boundary[k] # "filename="
          BY <1>1, <1>4
        <5>. QED BY <5>1, <5>2
      <4>4. j <= D \/ j = D + 1 \/ j = D + N + 2 \/ (D + 2 <= j /\ j <= D + N + 1)
        BY <1>1, <2>3
      <4>. QED BY <4>1, <4>2, <4>3, <4>4
    <3>2. /\ D + N + 3 \in Nat /\ D + N + 3 >= pos /\ (D + N + 3) + 1 <= Len(t)
          /\ t[D + N + 3] = "filename=" /\ t[(D + N + 3) + 1] = "quote"
          /\ t \in Seq(S)
      BY <1>1, <1>2, <2>3
    <3>3. PICK i \in Nat : i = D + N + 3
      BY <3>2
    <3>4. i >= pos /\ i + 1 <= Len(t) /\ t[i] = "filename=" /\ t[i + 1] = "quote"
      BY <3>2, <3>3
    <3>5. \A j \in pos .. i - 1 : t[j] # "filename="
      BY <3>1, <3>3
    <3>7. t \in Seq(S) /\ "filename=" \in S /\ "quote" \in S /\ pos \in Nat \ {0}
      BY <1>3, <2>3, <3>2
    <3>6. find(t, <<"filename=", "quote">>, pos) = i
      BY <3>4, <3>5, <3>7, FindTokens
    <3>. QED BY <3>3, <3>6
  <2>5. find(t, <<"quote">>, D + N + 5) = E
    <3>1. \A j \in D + N + 5 .. E - 1 : t[j] # "quote"
      <4>. TAKE j \in D + N + 5 .. E - 1
      <4>1. j - (D + N + 4) \in 1 .. F /\ D + N + 4 + (j - (D + N + 4)) = j
        BY <1>1, <1>2
      <4>. QED BY <1>4, <1>8, <4>1
    <3>2. D + N + 5 \in Nat \ {0} /\ E >= D + N + 5 /\ E <= Len(t) /\ t \in Seq(S)
      BY <1>1, <1>2, <1>5
    <3>. HIDE DEF E
    <3>. QED BY <1>3, <1>5, <1>6, <3>1, <3>2, FindToken
  <2>6. pos # npos /\ D + N + 3 # npos /\ E # npos /\ D + N + 3 + 2 = D + N + 5
    BY <1>1, <1>2, <2>3 DEF npos
  <2>. HIDE DEF E
  <2>. QED BY <2>4, <2>5, <2>6 DEF find_filename, pos, p
<1>10. substr(t, D + N + 5, E) = file
  <2>1. /\ D + N + 5 \in Nat \ {0} /\ (D + N + 5) + F <= Len(t) + 1 /\ (D + N + 5) + F = E
        /\ \A i \in 1 .. F : t[D + N + 5 + i - 1] = file[i]
    BY <1>1, <1>2, <1>5, <1>8
  <2>. HIDE DEF E
  <2>2. t \in Seq(S)
    BY <1>1
  <2>3. PICK first \in Nat \ {0} : first = D + N + 5
    BY <2>1
  <2>4. /\ first + Len(file) <= Len(t) + 1 /\ first + Len(file) = E
        /\ \A i \in 1 .. Len(file) : t[first + i - 1] = file[i]
    BY <2>1, <2>3 DEF F
  <2>5. substr(t, first, first + Len(file)) = file
    BY <2>2, <2>4, SubstrIs
  <2>. QED BY <2>3, <2>4, <2>5
<1>. HIDE DEF E
<1>11. find(t, <<"crlf", "crlf">>, E) = E + 1
  <2>1. /\ E \in Nat \ {0} /\ E + 1 \in Nat /\ E + 1 >= E /\ (E + 1) + 1 <= Len(t)
        /\ t[(E + 1) + 1] = "crlf" /\ t \in Seq(S)
        /\ \A j \in E .. (E + 1) - 1 : t[j] # "crlf"
    BY <1>1, <1>2, <1>5, <1>6 DEF E
  <2>. QED BY <1>3, <1>6, <2>1, FindTokens
<1>12. ASSUME NEW k \in 0 .. C, \A i \in 1 .. k : sent[i] # "crlf", t[E + 3 + k] = "crlf"
       PROVE  find(t, <<"crlf">>, E + 3) = E + 3 + k
  <2>1. \A j \in E + 3 .. (E + 3 + k) - 1 : t[j] # "crlf"
    <3>. TAKE j \in E + 3 .. (E + 3 + k) - 1
    <3>1. j - (E + 2) \in 1 .. k /\ j - (E + 2) \in 1 .. C /\ E + 2 + (j - (E + 2)) = j
      BY <1>2, <1>5
    <3>. QED BY <1>7, <1>12, <3>1
  <2>2. k \in Nat /\ k <= C
    BY <1>2
  <2>3. C \in Nat /\ A \in Nat /\ t \in Seq(S)
    BY <1>1, <1>2
  <2>4. Len(t) = E + 3 + C + A => E + 3 + k <= Len(t)
    BY <1>5, <2>2, <2>3
  <2>5. E + 3 \in Nat \ {0} /\ E + 3 + k \in Nat /\ E + 3 + k >= E + 3
    BY <1>5, <2>2
  <2>6. "crlf" \in S /\ t[E + 3 + k] = "crlf" /\ E + 3 + k <= Len(t)
    BY <1>3, <1>5, <1>12, <2>4
  <2>. QED BY <2>1, <2>3, <2>5, <2>6, FindToken
<1>13. ASSUME NEW k \in 0 .. C, NEW part \in Seq(S), Len(part) = k,
              \A i \in 1 .. k : part[i] = sent[i]
       PROVE  substr(t, E + 3, E + 3 + k) = part
  <2>1. /\ E \in Nat /\ C \in Nat /\ A \in Nat /\ k \in Nat /\ k <= C
        /\ Len(t) = E + 3 + C + A /\ Len(part) = k /\ t \in Seq(S)
    BY <1>1, <1>2, <1>5, <1>13
  <2>2. \A i \in 1 .. Len(part) : t[(E + 3) + i - 1] = part[i]
    <3>. TAKE i \in 1 .. Len(part)
    <3>1. (E + 3) + i - 1 = E + 2 + i /\ i \in 1 .. C /\ i \in 1 .. k
      BY <1>2, <1>5, <1>13
    <3>. QED BY <1>7, <1>13, <3>1
  <2>3. PICK first \in Nat \ {0} : first = E + 3
    BY <2>1
  <2>4. first + Len(part) <= Len(t) + 1
    BY <2>1, <2>3
  <2>5. \A i \in 1 .. Len(part) : t[first + i - 1] = part[i]
    BY <2>2, <2>3
  <2>6. t \in Seq(S)
    BY <2>1
  <2>7. substr(t, first, first + Len(part)) = part
    BY <2>4, <2>5, <2>6, SubstrIs
  <2>. QED BY <1>13, <2>3, <2>7
<1>14. PICK k \in 0 .. C : /\ find(t, <<"crlf">>, E + 3) = E + 3 + k
                           /\ substr(t, E + 3, E + 3 + k) = FirstLine(sent)
  <2>. DEFINE first == find(sent, <<"crlf">>, 1)
  <2>1. /\ <<"crlf">> \in Seq(S) /\ <<"crlf">> # <<>>
        /\ Len(<<"crlf">>) = 1 /\ <<"crlf">>[1] = "crlf"
    BY <1>3
  <2>2. /\ first \in Nat
        /\ first # npos => /\ first >= 1 /\ Occurs(sent, <<"crlf">>, first)
                           /\ \A j \in 1 .. first - 1 : ~Occurs(sent, <<"crlf">>, j)
        /\ first = npos => \A j \in Nat : j >= 1 => ~Occurs(sent, <<"crlf">>, j)
    <3>1. IsFirst(first, sent, <<"crlf">>, 1)
      BY <2>1, FindFirst
    <3>. QED BY <3>1 DEF IsFirst, npos
  <2>3. \A j \in 1 .. C : Occurs(sent, <<"crlf">>, j) <=> sent[j] = "crlf"
    BY <1>2, <2>1 DEF Occurs, C
  <2>. HIDE DEF first
  <2>4. CASE first = npos
    <3>1. \A j \in 1 .. C : sent[j] # "crlf"
      BY <1>2, <2>2, <2>3, <2>4
    <3>2. FirstLine(sent) = sent
      BY <2>4 DEF FirstLine, first
    <3>3. C \in 0 .. C /\ Len(sent) = C
      BY <1>2 DEF C
    <3>. QED BY <1>6, <1>12, <1>13, <3>1, <3>2, <3>3
  <2>5. CASE first # npos
    <3>1. first \in 1 .. C /\ sent[first] = "crlf" /\ \A j \in 1 .. first - 1 : sent[j] # "crlf"
      BY <1>2, <2>1, <2>2, <2>3, <2>5 DEF Occurs, C
    <3>2. first - 1 \in 0 .. C /\ E + 3 + (first - 1) = E + 2 + first
      BY <1>2, <1>5, <3>1
    <3>3. FirstLine(sent) = SubSeq(sent, 1, first - 1)
      BY <2>5 DEF FirstLine, first, substr
    <3>4. \A i \in 1 .. first - 1 : sent[i] \in S
      BY <1>2, <3>1 DEF C
    <3>5. /\ FirstLine(sent) \in Seq(S) /\ Len(FirstLine(sent)) = first - 1
          /\ \A i \in 1 .. first - 1 : FirstLine(sent)[i] = sent[i]
      BY <1>2, <3>1, <3>3, <3>4, SubSeqProperties
    <3>6. t[E + 3 + (first - 1)] = "crlf"
      BY <1>7, <3>1, <3>2
    <3>. QED BY <1>12, <1>13, <3>1, <3>2, <3>5, <3>6
  <2>. QED BY <2>4, <2>5
<1>15. find_file_content(t, E) = Found(E + 3, E + 3 + k, E + 3 + k)
  <2>1. E + 1 # npos /\ E + 3 + k # npos /\ E + 1 + 2 = E + 3
    BY <1>2, <1>5 DEF npos
  <2>. QED BY <1>11, <1>14, <2>1 DEF find_file_content
<1>16. E + 3 + k \in Nat \ {0} /\ E + 3 + k <= E + 3 + C
  BY <1>2, <1>5
<1>. QED BY <1>9, <1>10, <1>14, <1>15, <1>16 DEF Found, D, N, F, C, E

\* The closing boundary, and what may follow it.
ClosedBy(boundary, end) == <<"--">> \o (boundary \o (<<"--">> \o end))

\* find_end_boundary finds a closing boundary that comes after the file, from
\* wherever the content was taken to end.
LEMMA EndIsFound ==
    ASSUME NEW S, {"--", "quote", "crlf", "filename="} \subseteq S,
           NEW before \in Seq(S), NEW boundary \in Seq(S), NEW file \in Seq(S),
           NEW sent \in Seq(S), NEW end \in Seq(S), NEW t, NEW rest,
           BodyPositions(t, S, before, boundary, rest),
           FilePositions(rest, S, file, sent, ClosedBy(boundary, end)),
           NEW pos \in Nat \ {0},
           pos <= Len(before) + Len(boundary) + 5 + Len(file) + 3 + Len(sent)
    PROVE  find_end_boundary(boundary, t, pos)
<1>. DEFINE after == ClosedBy(boundary, end)
            r1 == <<"--">> \o end
            r2 == boundary \o r1
            p == boundary \o <<"--">>
            D == Len(before)
            N == Len(boundary)
            F == Len(file)
            C == Len(sent)
            A == Len(after)
            at == D + N + F + C + 10
<1>1. "--" \in S
  OBVIOUS
<1>2. r1 \in Seq(S) /\ Len(r1) = 1 + Len(end) /\ r1[1] = "--" /\ Len(end) \in Nat
  BY <1>1, PrefixAt
<1>3. p \in Seq(S) /\ Len(p) = N + 1 /\ p[N + 1] = "--" /\ p # <<>>
  BY <1>1
<1>4. \A i \in 1 .. N : p[i] = boundary[i]
  OBVIOUS
<1>. HIDE DEF r1, p
<1>5. /\ r2 \in Seq(S) /\ Len(r2) = N + Len(r1)
      /\ \A i \in 1 .. N : r2[i] = boundary[i]
      /\ \A i \in 1 .. Len(r1) : r2[N + i] = r1[i]
  <2>1. r1 \in Seq(S)
    BY <1>2
  <2>. QED BY <2>1, ConcatAt
<1>. HIDE DEF r2
<1>6. Len(after) = 1 + Len(r2) /\ \A i \in 1 .. Len(r2) : after[1 + i] = r2[i]
  <2>1. r2 \in Seq(S)
    BY <1>5
  <2>2. after = <<"--">> \o r2
    BY DEF ClosedBy, r1, r2
  <2>. QED BY <1>1, <2>1, <2>2, PrefixAt
<1>. HIDE DEF after
<1>7. /\ D \in Nat /\ N \in Nat /\ t \in Seq(S) /\ Len(t) = D + N + 4 + Len(rest)
      /\ \A i \in 1 .. Len(rest) : t[D + N + 4 + i] = rest[i]
  BY DEF BodyPositions
<1>8. /\ F \in Nat /\ C \in Nat /\ A \in Nat /\ Len(rest) = F + C + A + 4
      /\ \A i \in 1 .. A : rest[F + C + 4 + i] = after[i]
  BY DEF FilePositions, after
<1>9. pos <= at
  BY <1>7, <1>8
<1>. HIDE DEF D, N, F, C, A
<1>10. A = N + 2 + Len(end)
  BY <1>2, <1>5, <1>6, <1>7 DEF A
<1>11. \A i \in 1 .. N + 1 : after[1 + i] = p[i]
  <2>. TAKE i \in 1 .. N + 1
  <2>1. i \in 1 .. Len(r2)
    <3>1. Len(r2) = N + Len(r1) /\ Len(r1) = 1 + Len(end) /\ Len(end) \in Nat /\ N \in Nat
      BY <1>2, <1>5, <1>7
    <3>. QED BY <3>1
  <2>2. CASE i \in 1 .. N
    BY <1>4, <1>5, <1>6, <2>1, <2>2
  <2>3. CASE i = N + 1
    <3>1. 1 \in 1 .. Len(r1)
      BY <1>2
    <3>2. r2[N + 1] = r1[1]
      BY <1>5, <3>1
    <3>. QED BY <1>2, <1>3, <1>6, <2>1, <2>3, <3>2
  <2>. QED BY <1>7, <2>2, <2>3
<1>12. \A i \in 1 .. N + 1 : t[at + i - 1] = p[i]
  <2>. TAKE i \in 1 .. N + 1
  <2>1. /\ 1 + i \in 1 .. A /\ F + C + 4 + (1 + i) \in 1 .. Len(rest)
        /\ D + N + 4 + (F + C + 4 + (1 + i)) = at + i - 1
    BY <1>2, <1>7, <1>8, <1>10
  <2>. HIDE DEF at
  <2>2. /\ t[D + N + 4 + (F + C + 4 + (1 + i))] = rest[F + C + 4 + (1 + i)]
        /\ rest[F + C + 4 + (1 + i)] = after[1 + i]
    BY <1>7, <1>8, <2>1
  <2>. QED BY <1>11, <2>1, <2>2
<1>13. at \in Nat /\ at >= 1 /\ at + (N + 1) - 1 <= Len(t)
  BY <1>2, <1>7, <1>8, <1>10
<1>. HIDE DEF at
<1>14. Occurs(t, p, at)
  BY <1>3, <1>12, <1>13 DEF Occurs
<1>15. IsFirst(find(t, p, pos), t, p, pos)
  <2>1. t \in Seq(S) /\ p \in Seq(S) /\ p # <<>> /\ pos \in Nat
    BY <1>3, <1>7
  <2>. QED BY <2>1, FindFirst
<1>16. find(t, p, pos) # npos
  BY <1>9, <1>13, <1>14, <1>15 DEF IsFirst, npos
<1>. QED BY <1>16 DEF find_end_boundary, p

\* An upload in the form of a browser, of tokens of S: the boundary is the
\* first parameter of its name and names no other string that is searched for,
\* no field before the file has a file name, and the file's name has no quote.
BrowserUpload(S, type, boundary, parameters, before, file, sent, after) ==
    /\ {"--", "quote", "crlf", "filename=", "boundary=", "semicolon"} \subseteq S
    /\ type \in Seq(S) /\ boundary \in Seq(S) /\ parameters \in Seq(S)
    /\ before \in Seq(S) /\ file \in Seq(S) /\ sent \in Seq(S) /\ after \in Seq(S)
    /\ \A i \in 1 .. Len(type) : type[i] # "boundary="
    /\ boundary # <<>>
    /\ \A i \in 1 .. Len(boundary) : boundary[i] \notin {"crlf", "semicolon", "filename="}
    /\ parameters = <<>> \/ parameters[1] = "semicolon"
    /\ \A i \in 1 .. Len(parameters) : parameters[i] # "crlf"
    /\ \A i \in 1 .. Len(before) : before[i] # "filename="
    /\ \A i \in 1 .. Len(file) : file[i] # "quote"

\* For every such upload, whatever the file holds and whatever follows it: write
\* finds the name that the client gave, writes to the temporary file the first
\* line of what the client sent, no more and no less, and takes the form for
\* complete when its closing boundary is there.
THEOREM UploadIsParsed ==
    ASSUME NEW S, NEW type, NEW boundary, NEW parameters, NEW before, NEW file, NEW sent,
           NEW after, BrowserUpload(S, type, boundary, parameters, before, file, sent, after)
    PROVE  LET r == Written(BrowserType(type, boundary, parameters),
                            BrowserBody(before, boundary, FileOf(file, sent, after))) IN
           /\ r.named /\ r.filename = file
           /\ r.written /\ r.content = FirstLine(sent)
           /\ (\E end \in Seq(S) : after = ClosedBy(boundary, end)) => r.completed
<1>. /\ {"--", "quote", "crlf", "filename=", "boundary=", "semicolon"} \subseteq S
     /\ type \in Seq(S) /\ boundary \in Seq(S) /\ parameters \in Seq(S)
     /\ before \in Seq(S) /\ file \in Seq(S) /\ sent \in Seq(S) /\ after \in Seq(S)
     /\ \A i \in 1 .. Len(type) : type[i] # "boundary="
     /\ boundary # <<>>
     /\ \A i \in 1 .. Len(boundary) : boundary[i] \notin {"crlf", "semicolon", "filename="}
     /\ parameters = <<>> \/ parameters[1] = "semicolon"
     /\ \A i \in 1 .. Len(parameters) : parameters[i] # "crlf"
     /\ \A i \in 1 .. Len(before) : before[i] # "filename="
     /\ \A i \in 1 .. Len(file) : file[i] # "quote"
  BY DEF BrowserUpload
<1>. DEFINE ct == BrowserType(type, boundary, parameters)
            rest == FileOf(file, sent, after)
            t == BrowserBody(before, boundary, rest)
            first == Len(before) + Len(boundary) + 5
            E == Len(before) + Len(boundary) + 5 + Len(file)
            name == find_filename(boundary, t)
            content == find_file_content(t, E)
            r == Written(ct, t)
<1>1. extract_boundary(ct) = boundary
  <2>1. /\ {"boundary=", "crlf", "semicolon"} \subseteq S
        /\ \A i \in 1 .. Len(boundary) : boundary[i] \notin {"crlf", "semicolon"}
    OBVIOUS
  <2>. QED BY <2>1, ExtractBoundary
<1>2. FilePositions(rest, S, file, sent, after)
  <2>1. {"quote", "crlf"} \subseteq S
    OBVIOUS
  <2>. QED BY <2>1, FileAt
<1>3. {"--", "quote", "crlf", "filename="} \subseteq S
  OBVIOUS
<1>. HIDE DEF ct, rest
<1>4. BodyPositions(t, S, before, boundary, rest)
  <2>1. rest \in Seq(S)
    BY <1>2 DEF FilePositions
  <2>. QED BY <1>3, <2>1, BodyAt
<1>. HIDE DEF t
<1>5. /\ name = Found(first, E, E)
      /\ substr(t, first, E) = file
      /\ content.found /\ substr(t, content.first, content.last) = FirstLine(sent)
      /\ content.pos \in Nat \ {0} /\ content.pos <= E + 3 + Len(sent)
  <2>1. \A i \in 1 .. Len(boundary) : boundary[i] # "filename="
    OBVIOUS
  <2>. QED BY <1>2, <1>3, <1>4, <2>1, NameAndContent
<1>6. name.found /\ name.first = first /\ name.last = E /\ name.pos = E
  BY <1>5 DEF Found
<1>7. (\E end \in Seq(S) : after = ClosedBy(boundary, end)) =>
        find_end_boundary(boundary, t, content.pos)
  <2>. SUFFICES ASSUME NEW end \in Seq(S), after = ClosedBy(boundary, end)
                PROVE  find_end_boundary(boundary, t, content.pos)
    OBVIOUS
  <2>1. FilePositions(rest, S, file, sent, ClosedBy(boundary, end))
    BY <1>2
  <2>2. /\ content.pos \in Nat \ {0}
        /\ content.pos <= Len(before) + Len(boundary) + 5 + Len(file) + 3 + Len(sent)
    BY <1>5
  <2>. HIDE DEF content
  <2>. QED BY <1>3, <1>4, <2>1, <2>2, EndIsFound
<1>. HIDE DEF first, E, name, content
<1>8. r = [named |-> name.found, filename |-> substr(t, name.first, name.last),
           written |-> name.found /\ content.found,
           content |-> substr(t, content.first, content.last),
           completed |-> find_end_boundary(boundary, t, content.pos)]
  BY <1>1, <1>6 DEF Written, name, content
<1>. HIDE DEF r
<1>9. /\ r.named /\ r.filename = file /\ r.written /\ r.content = FirstLine(sent)
      /\ (\E end \in Seq(S) : after = ClosedBy(boundary, end)) => r.completed
  BY <1>5, <1>6, <1>7, <1>8
<1>. QED BY <1>9 DEF r, ct, t, rest
=============================================================================
