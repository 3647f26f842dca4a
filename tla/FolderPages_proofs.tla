--------------------------- MODULE FolderPages_proofs ---------------------------
(***************************************************************************)
(* What the operators the folder pages rest on return, for texts, places   *)
(* and rows of any length: Paths, WebApi and FolderRows.                   *)
(*                                                                         *)
(* The operators recurse over a text or a list, so this takes induction.   *)
(* It is stated with a set in place of a predicate, and rests on the       *)
(* strict subsets of a finite set being well-founded.                      *)
(***************************************************************************)
EXTENDS WebApi, FolderRows, FiniteSetTheorems, SequenceTheorems, TLAPS

-----------------------------------------------------------------------------
(* Induction.                                                               *)

(* A set of numbers has a least one.                                        *)
LEMMA LeastNumber ==
  ASSUME NEW T, T \subseteq Nat, T # {}
  PROVE  \E n \in T : \A m \in T : n <= m
<1> DEFINE Initials == {1..n : n \in T}
           R      == StrictSubsetOrdering(Nat)
<1>1. Initials \subseteq FiniteSubsetsOf(Nat) /\ Initials # {}
  <2>1. \A n \in T : IsFiniteSet(1..n) /\ 1..n \subseteq Nat
    BY FS_Interval
  <2> QED BY <2>1 DEF FiniteSubsetsOf
<1>2. PICK x \in Initials : \A y \in Initials : ~(<<y, x>> \in R)
  <2>1. IsWellFoundedOn(R, FiniteSubsetsOf(Nat))
    BY FS_StrictSubsetOrderingWellFounded
  <2> HIDE DEF R, Initials
  <2> QED BY <2>1, <1>1, WFMin
<1>3. PICK n \in T : x = 1..n
  OBVIOUS
<1>4. ASSUME NEW m \in T, m < n PROVE FALSE
  <2>1. 1..m \subseteq 1..n /\ 1..m # 1..n /\ 1..m \in Initials
    BY <1>4
  <2>2. <<1..m, 1..n>> \in R
    BY <2>1 DEF StrictSubsetOrdering
  <2> QED BY <1>2, <1>3, <2>1, <2>2
<1> QED BY <1>4

LEMMA NumberInduction ==
  ASSUME NEW P, 0 \in P, \A n \in Nat : n \in P => n + 1 \in P
  PROVE  Nat \subseteq P
<1> SUFFICES ASSUME Nat \ P # {} PROVE FALSE
  OBVIOUS
<1>1. PICK n \in Nat \ P : \A m \in Nat \ P : n <= m
  BY LeastNumber
<1>2. n - 1 \in Nat /\ n - 1 \in P
  BY <1>1
<1> QED BY <1>2

(* What holds of the empty list and stays true when an element is added     *)
(* holds of every list.                                                     *)
LEMMA ListInduction ==
  ASSUME NEW S, NEW P, <<>> \in P,
         \A s \in Seq(S), e \in S : s \in P => Append(s, e) \in P
  PROVE  Seq(S) \subseteq P
<1> DEFINE Long == {n \in Nat : \A s \in Seq(S) : Len(s) = n => s \in P}
<1>1. 0 \in Long
  BY EmptySeq
<1>2. ASSUME NEW n \in Nat, n \in Long PROVE n + 1 \in Long
  <2> SUFFICES ASSUME NEW s \in Seq(S), Len(s) = n + 1 PROVE s \in P
    OBVIOUS
  <2>1. PICK t \in Seq(S), e \in S : s = Append(t, e)
    BY SequenceEmptyOrAppend, EmptySeq
  <2>2. Len(t) = n
    BY <2>1
  <2> QED BY <1>2, <2>1, <2>2
<1> HIDE DEF Long
<1>3. Nat \subseteq Long
  BY <1>1, <1>2, NumberInduction
<1> QED BY <1>3, LenProperties DEF Long

(* Two recursions that take the same steps return the same.                 *)
LEMMA SameSteps ==
  ASSUME NEW N \in Nat, NEW f, NEW g, f[0] = g[0],
         \A n \in 1..N : f[n - 1] = g[n - 1] => f[n] = g[n]
  PROVE  \A n \in 0..N : f[n] = g[n]
<1> DEFINE Same == {n \in Nat : n <= N => f[n] = g[n]}
<1>1. 0 \in Same
  OBVIOUS
<1>2. ASSUME NEW n \in Nat, n \in Same PROVE n + 1 \in Same
  <2> SUFFICES ASSUME n + 1 <= N PROVE f[n + 1] = g[n + 1]
    OBVIOUS
  <2>1. f[n] = g[n] /\ n + 1 \in 1..N /\ (n + 1) - 1 = n
    BY <1>2
  <2> QED BY <2>1
<1> HIDE DEF Same
<1>3. Nat \subseteq Same
  BY <1>1, <1>2, NumberInduction
<1> QED BY <1>3 DEF Same

LEMMA Single ==
  ASSUME NEW S, NEW x \in S
  PROVE  /\ <<x>> \in Seq(S) /\ <<x>> # <<>> /\ Len(<<x>>) = 1 /\ <<x>>[1] = x
         /\ <<x>> = Append(<<>>, x)
<1>1. <<x>> = Append(<<>>, x)
  OBVIOUS
<1>2. <<>> \in Seq(S)
  BY EmptySeq
<1> QED BY <1>1, <1>2, AppendProperties

(* The last element and what is before it.                                  *)
LEMMA FrontOfAppend ==
  ASSUME NEW S, NEW s \in Seq(S), NEW e \in S
  PROVE  Front(Append(s, e)) = s /\ Last(Append(s, e)) = e
<1> DEFINE u == Append(s, e)
<1>1. /\ u \in Seq(S) /\ Len(s) \in Nat /\ Len(u) = Len(s) + 1
      /\ \A i \in 1..Len(s) : u[i] = s[i]
      /\ u[Len(s) + 1] = e
  BY AppendProperties
<1> HIDE DEF u
<1>2. /\ Front(u) \in Seq(S) /\ Len(Front(u)) = Len(s)
      /\ \A i \in 1..Len(s) : Front(u)[i] = s[i]
  BY <1>1 DEF Front
<1>3. Front(u) = s
  BY <1>2, SeqEqual
<1> QED BY <1>1, <1>3 DEF u, Last

LEMMA FrontOfSingle ==
  ASSUME NEW S, NEW e \in S
  PROVE  Front(<<e>>) = <<>> /\ Last(<<e>>) = e
<1>1. <<e>> = Append(<<>>, e)
  OBVIOUS
<1>2. <<>> \in Seq(S)
  BY EmptySeq
<1>3. Front(Append(<<>>, e)) = <<>> /\ Last(Append(<<>>, e)) = e
  BY <1>2, FrontOfAppend
<1> QED BY <1>1, <1>3

LEMMA FrontLast ==
  ASSUME NEW S, NEW s \in Seq(S), s # <<>>
  PROVE  /\ Front(s) \in Seq(S) /\ Last(s) \in S
         /\ Len(s) \in Nat \ {0} /\ Len(Front(s)) = Len(s) - 1
         /\ s = Append(Front(s), Last(s))
<1>1. PICK t \in Seq(S), x \in S : s = Append(t, x)
  BY SequenceEmptyOrAppend
<1>2. Front(s) = t /\ Last(s) = x /\ Len(s) = Len(t) + 1 /\ Len(t) \in Nat
  BY <1>1, FrontOfAppend, AppendProperties
<1> QED BY <1>1, <1>2

LEMMA FrontPart ==
  ASSUME NEW S, NEW s \in Seq(S), s # <<>>
  PROVE  \A i \in 1..Len(Front(s)) : Front(s)[i] = s[i]
<1>1. PICK t \in Seq(S), x \in S : s = Append(t, x)
  BY SequenceEmptyOrAppend
<1>2. Front(s) = t /\ \A i \in 1..Len(t) : s[i] = t[i]
  BY <1>1, FrontOfAppend, AppendProperties
<1> QED BY <1>2

LEMMA ConcatAppend ==
  ASSUME NEW S, NEW t \in Seq(S), NEW u \in Seq(S), NEW x \in S
  PROVE  t \o Append(u, x) = Append(t \o u, x)
<1>1. Append(u, x) = u \o <<x>> /\ Append(t \o u, x) = (t \o u) \o <<x>> /\ <<x>> \in Seq(S)
  BY AppendIsConcat, ConcatProperties, Single
<1> QED BY <1>1, ConcatAssociative

(* f is a function on 0..N.                                                 *)
On(f, N) == f = [n \in 0..N |-> f[n]]

-----------------------------------------------------------------------------
(* Split.                                                                   *)
SplitsTo(f, text, mark) ==
  f = [n \in 0..Len(text) |->
         IF n = 0 THEN <<Empty>> ELSE AddToken(f[n - 1], text[n], mark)]

LEMMA SplitsSteps ==
  ASSUME NEW S, NEW text \in Seq(S), NEW mark, NEW f
  PROVE  SplitsTo(f, text, mark) <=>
           /\ On(f, Len(text))
           /\ f[0] = <<Empty>>
           /\ \A n \in 1..Len(text) : f[n] = AddToken(f[n - 1], text[n], mark)
<1> DEFINE N == Len(text)
<1>1. N \in Nat
  BY LenProperties
<1>2. ASSUME SplitsTo(f, text, mark)
      PROVE  /\ On(f, N)
             /\ f[0] = <<Empty>>
             /\ \A n \in 1..N : f[n] = AddToken(f[n - 1], text[n], mark)
  BY <1>1, <1>2 DEF SplitsTo, On
<1>3. ASSUME On(f, N), f[0] = <<Empty>>,
             \A n \in 1..N : f[n] = AddToken(f[n - 1], text[n], mark)
      PROVE  SplitsTo(f, text, mark)
  <2>1. \A n \in 0..N : f[n] = IF n = 0 THEN <<Empty>> ELSE AddToken(f[n - 1], text[n], mark)
    BY <1>1, <1>3
  <2> QED BY <1>3, <2>1 DEF SplitsTo, On
<1> QED BY <1>2, <1>3

LEMMA SplitsOnce ==
  ASSUME NEW S, NEW text \in Seq(S), NEW mark, NEW f, SplitsTo(f, text, mark)
  PROVE  Split(text, mark) = f[Len(text)]
<1>1. ASSUME NEW g, SplitsTo(g, text, mark) PROVE g = f
  <2>1. Len(text) \in Nat
    BY LenProperties
  <2>2. On(f, Len(text)) /\ On(g, Len(text)) /\ f[0] = g[0]
    BY <1>1, SplitsSteps
  <2>3. \A n \in 1..Len(text) : f[n - 1] = g[n - 1] => f[n] = g[n]
    <3>1. \A n \in 1..Len(text) : f[n] = AddToken(f[n - 1], text[n], mark)
      BY SplitsSteps
    <3>2. \A n \in 1..Len(text) : g[n] = AddToken(g[n - 1], text[n], mark)
      BY <1>1, SplitsSteps
    <3> QED BY <3>1, <3>2
  <2>4. \A n \in 0..Len(text) : f[n] = g[n]
    BY <2>1, <2>2, <2>3, SameSteps
  <2> QED BY <2>2, <2>4 DEF On
<1> DEFINE P(g) == SplitsTo(g, text, mark)
<1>2. P(CHOOSE g : P(g))
  BY Zenon
<1>3. (CHOOSE g : SplitsTo(g, text, mark)) = f
  BY <1>1, <1>2
<1> QED BY <1>3 DEF Split, SplitsTo

(* With one element more, the recursion takes one step more.                *)
LEMMA SplitsOn ==
  ASSUME NEW S, NEW text \in Seq(S), NEW token \in S, NEW mark, NEW f, SplitsTo(f, text, mark)
  PROVE  \E g : /\ SplitsTo(g, Append(text, token), mark)
               /\ g[Len(text) + 1] = AddToken(f[Len(text)], token, mark)
<1> DEFINE longer == Append(text, token)
           N == Len(text)
           g == [n \in 0..N + 1 |-> IF n <= N THEN f[n] ELSE AddToken(f[N], token, mark)]
<1>1. /\ N \in Nat /\ longer \in Seq(S)
      /\ Len(longer) = N + 1 /\ longer[N + 1] = token
      /\ \A i \in 1..N : longer[i] = text[i]
  BY AppendProperties, LenProperties
<1>2. /\ f[0] = <<Empty>>
      /\ \A n \in 1..N : f[n] = AddToken(f[n - 1], text[n], mark)
  BY SplitsSteps
<1>3. /\ On(g, N + 1)
      /\ g[N + 1] = AddToken(f[N], token, mark)
      /\ \A n \in 0..N : g[n] = f[n]
  BY <1>1 DEF On
<1> HIDE DEF longer, g
<1>4. ASSUME NEW n \in 1..N + 1 PROVE g[n] = AddToken(g[n - 1], longer[n], mark)
  <2>1. CASE n = N + 1
    BY <1>1, <1>3, <2>1
  <2>2. CASE n <= N
    <3>1. n \in 1..N /\ n - 1 \in 0..N
      BY <1>1, <2>2
    <3> QED BY <1>1, <1>2, <1>3, <3>1
  <2> QED BY <1>1, <2>1, <2>2
<1>5. SplitsTo(g, longer, mark)
  BY <1>1, <1>2, <1>3, <1>4, SplitsSteps
<1> QED BY <1>3, <1>5 DEF longer

LEMMA SplitsNothing ==
  ASSUME NEW mark
  PROVE  \E f : SplitsTo(f, <<>>, mark) /\ f[0] = <<Empty>>
<1> DEFINE f == [n \in 0..0 |-> <<Empty>>]
<1>1. \A n \in 0..Len(<<>>) : n = 0
  BY EmptySeq
<1>2. Len(<<>>) = 0
  BY EmptySeq
<1>3. SplitsTo(f, <<>>, mark)
  BY <1>1, <1>2 DEF SplitsTo
<1> QED BY <1>3

LEMMA SplitEmpty == \A mark : Split(<<>>, mark) = <<Empty>>
  BY SplitsNothing, SplitsOnce, EmptySeq

LEMMA SplitAppend ==
  ASSUME NEW S, NEW text \in Seq(S), NEW token \in S, NEW mark
  PROVE  Split(Append(text, token), mark) = AddToken(Split(text, mark), token, mark)
<1> DEFINE P == {t \in Seq(S) : \E f : SplitsTo(f, t, mark)}
<1>1. <<>> \in P
  BY EmptySeq, SplitsNothing
<1>2. ASSUME NEW t \in Seq(S), NEW x \in S, t \in P PROVE Append(t, x) \in P
  BY <1>2, SplitsOn, AppendProperties
<1> HIDE DEF P
<1>3. text \in P
  BY <1>1, <1>2, ListInduction
<1>4. PICK f : SplitsTo(f, text, mark)
  BY <1>3 DEF P
<1>5. PICK g : /\ SplitsTo(g, Append(text, token), mark)
               /\ g[Len(text) + 1] = AddToken(f[Len(text)], token, mark)
  BY <1>4, SplitsOn
<1>6. Append(text, token) \in Seq(S) /\ Len(Append(text, token)) = Len(text) + 1
  BY AppendProperties
<1> QED BY <1>4, <1>5, <1>6, SplitsOnce
-----------------------------------------------------------------------------
(* Join.                                                                    *)
AddPart(text, n, part, mark) == IF n = 1 THEN part ELSE text \o <<mark>> \o part

JoinsTo(f, parts, mark) ==
  f = [n \in 0..Len(parts) |->
         IF n = 0 THEN Empty ELSE AddPart(f[n - 1], n, parts[n], mark)]

LEMMA JoinsSteps ==
  ASSUME NEW S, NEW parts \in Seq(S), NEW mark, NEW f
  PROVE  JoinsTo(f, parts, mark) <=>
           /\ On(f, Len(parts))
           /\ f[0] = Empty
           /\ \A n \in 1..Len(parts) : f[n] = AddPart(f[n - 1], n, parts[n], mark)
<1> DEFINE N == Len(parts)
<1>1. N \in Nat
  BY LenProperties
<1>2. ASSUME JoinsTo(f, parts, mark)
      PROVE  /\ On(f, N)
             /\ f[0] = Empty
             /\ \A n \in 1..N : f[n] = AddPart(f[n - 1], n, parts[n], mark)
  BY <1>1, <1>2 DEF JoinsTo, On
<1>3. ASSUME On(f, N), f[0] = Empty,
             \A n \in 1..N : f[n] = AddPart(f[n - 1], n, parts[n], mark)
      PROVE  JoinsTo(f, parts, mark)
  <2>1. \A n \in 0..N : f[n] = IF n = 0 THEN Empty ELSE AddPart(f[n - 1], n, parts[n], mark)
    BY <1>1, <1>3
  <2> QED BY <1>3, <2>1 DEF JoinsTo, On
<1> QED BY <1>2, <1>3

LEMMA JoinsOnce ==
  ASSUME NEW S, NEW parts \in Seq(S), NEW mark, NEW f, JoinsTo(f, parts, mark)
  PROVE  Join(parts, mark) = f[Len(parts)]
<1>1. ASSUME NEW g, JoinsTo(g, parts, mark) PROVE g = f
  <2>1. Len(parts) \in Nat
    BY LenProperties
  <2>2. On(f, Len(parts)) /\ On(g, Len(parts)) /\ f[0] = g[0]
    BY <1>1, JoinsSteps
  <2>3. \A n \in 1..Len(parts) : f[n - 1] = g[n - 1] => f[n] = g[n]
    <3>1. \A n \in 1..Len(parts) : f[n] = AddPart(f[n - 1], n, parts[n], mark)
      BY JoinsSteps
    <3>2. \A n \in 1..Len(parts) : g[n] = AddPart(g[n - 1], n, parts[n], mark)
      BY <1>1, JoinsSteps
    <3> QED BY <3>1, <3>2
  <2>4. \A n \in 0..Len(parts) : f[n] = g[n]
    BY <2>1, <2>2, <2>3, SameSteps
  <2> QED BY <2>2, <2>4 DEF On
<1> DEFINE P(g) == JoinsTo(g, parts, mark)
<1>2. P(CHOOSE g : P(g))
  BY Zenon
<1>3. (CHOOSE g : JoinsTo(g, parts, mark)) = f
  BY <1>1, <1>2
<1> QED BY <1>3 DEF Join, JoinsTo, AddPart

(* With one element more, the recursion takes one step more.                *)
LEMMA JoinsOn ==
  ASSUME NEW S, NEW parts \in Seq(S), NEW part \in S, NEW mark, NEW f, JoinsTo(f, parts, mark)
  PROVE  \E g : /\ JoinsTo(g, Append(parts, part), mark)
               /\ g[Len(parts) + 1] = AddPart(f[Len(parts)], Len(parts) + 1, part, mark)
<1> DEFINE longer == Append(parts, part)
           N == Len(parts)
           g == [n \in 0..N + 1 |-> IF n <= N THEN f[n] ELSE AddPart(f[N], N + 1, part, mark)]
<1>1. /\ N \in Nat /\ longer \in Seq(S)
      /\ Len(longer) = N + 1 /\ longer[N + 1] = part
      /\ \A i \in 1..N : longer[i] = parts[i]
  BY AppendProperties, LenProperties
<1>2. /\ f[0] = Empty
      /\ \A n \in 1..N : f[n] = AddPart(f[n - 1], n, parts[n], mark)
  BY JoinsSteps
<1>3. /\ On(g, N + 1)
      /\ g[N + 1] = AddPart(f[N], N + 1, part, mark)
      /\ \A n \in 0..N : g[n] = f[n]
  BY <1>1 DEF On
<1> HIDE DEF longer, g
<1>4. ASSUME NEW n \in 1..N + 1 PROVE g[n] = AddPart(g[n - 1], n, longer[n], mark)
  <2>1. CASE n = N + 1
    BY <1>1, <1>3, <2>1
  <2>2. CASE n <= N
    <3>1. n \in 1..N /\ n - 1 \in 0..N
      BY <1>1, <2>2
    <3> QED BY <1>1, <1>2, <1>3, <3>1
  <2> QED BY <1>1, <2>1, <2>2
<1>5. JoinsTo(g, longer, mark)
  BY <1>1, <1>2, <1>3, <1>4, JoinsSteps
<1> QED BY <1>3, <1>5 DEF longer

LEMMA JoinsNothing ==
  ASSUME NEW mark
  PROVE  \E f : JoinsTo(f, <<>>, mark) /\ f[0] = Empty
<1> DEFINE f == [n \in 0..0 |-> Empty]
<1>1. \A n \in 0..Len(<<>>) : n = 0
  BY EmptySeq
<1>2. Len(<<>>) = 0
  BY EmptySeq
<1>3. JoinsTo(f, <<>>, mark)
  BY <1>1, <1>2 DEF JoinsTo
<1> QED BY <1>3

LEMMA JoinEmpty == \A mark : Join(<<>>, mark) = Empty
  BY JoinsNothing, JoinsOnce, EmptySeq

LEMMA JoinAppend ==
  ASSUME NEW S, NEW parts \in Seq(S), NEW part \in S, NEW mark
  PROVE  Join(Append(parts, part), mark) = AddPart(Join(parts, mark), Len(parts) + 1, part, mark)
<1> DEFINE P == {t \in Seq(S) : \E f : JoinsTo(f, t, mark)}
<1>1. <<>> \in P
  BY EmptySeq, JoinsNothing
<1>2. ASSUME NEW t \in Seq(S), NEW x \in S, t \in P PROVE Append(t, x) \in P
  BY <1>2, JoinsOn, AppendProperties
<1> HIDE DEF P
<1>3. parts \in P
  BY <1>1, <1>2, ListInduction
<1>4. PICK f : JoinsTo(f, parts, mark)
  BY <1>3 DEF P
<1>5. PICK g : /\ JoinsTo(g, Append(parts, part), mark)
               /\ g[Len(parts) + 1] = AddPart(f[Len(parts)], Len(parts) + 1, part, mark)
  BY <1>4, JoinsOn
<1>6. Append(parts, part) \in Seq(S) /\ Len(Append(parts, part)) = Len(parts) + 1
  BY AppendProperties
<1> QED BY <1>4, <1>5, <1>6, JoinsOnce
-----------------------------------------------------------------------------
(* The parts that are not empty.                                            *)
Keep(kept, part) == IF part = Empty THEN kept ELSE Append(kept, part)

KeepsTo(f, parts) ==
  f = [n \in 0..Len(parts) |-> IF n = 0 THEN <<>> ELSE Keep(f[n - 1], parts[n])]

LEMMA KeepsSteps ==
  ASSUME NEW S, NEW parts \in Seq(S), NEW f
  PROVE  KeepsTo(f, parts) <=>
           /\ On(f, Len(parts))
           /\ f[0] = <<>>
           /\ \A n \in 1..Len(parts) : f[n] = Keep(f[n - 1], parts[n])
<1> DEFINE N == Len(parts)
<1>1. N \in Nat
  BY LenProperties
<1>2. ASSUME KeepsTo(f, parts)
      PROVE  /\ On(f, N)
             /\ f[0] = <<>>
             /\ \A n \in 1..N : f[n] = Keep(f[n - 1], parts[n])
  BY <1>1, <1>2 DEF KeepsTo, On
<1>3. ASSUME On(f, N), f[0] = <<>>,
             \A n \in 1..N : f[n] = Keep(f[n - 1], parts[n])
      PROVE  KeepsTo(f, parts)
  <2>1. \A n \in 0..N : f[n] = IF n = 0 THEN <<>> ELSE Keep(f[n - 1], parts[n])
    BY <1>1, <1>3
  <2> QED BY <1>3, <2>1 DEF KeepsTo, On
<1> QED BY <1>2, <1>3

LEMMA KeepsOnce ==
  ASSUME NEW S, NEW parts \in Seq(S), NEW f, KeepsTo(f, parts)
  PROVE  NonEmpty(parts) = f[Len(parts)]
<1>1. ASSUME NEW g, KeepsTo(g, parts) PROVE g = f
  <2>1. Len(parts) \in Nat
    BY LenProperties
  <2>2. On(f, Len(parts)) /\ On(g, Len(parts)) /\ f[0] = g[0]
    BY <1>1, KeepsSteps
  <2>3. \A n \in 1..Len(parts) : f[n - 1] = g[n - 1] => f[n] = g[n]
    <3>1. \A n \in 1..Len(parts) : f[n] = Keep(f[n - 1], parts[n])
      BY KeepsSteps
    <3>2. \A n \in 1..Len(parts) : g[n] = Keep(g[n - 1], parts[n])
      BY <1>1, KeepsSteps
    <3> QED BY <3>1, <3>2
  <2>4. \A n \in 0..Len(parts) : f[n] = g[n]
    BY <2>1, <2>2, <2>3, SameSteps
  <2> QED BY <2>2, <2>4 DEF On
<1> DEFINE P(g) == KeepsTo(g, parts)
<1>2. P(CHOOSE g : P(g))
  BY Zenon
<1>3. (CHOOSE g : KeepsTo(g, parts)) = f
  BY <1>1, <1>2
<1> QED BY <1>3 DEF NonEmpty, KeepsTo, Keep

(* With one element more, the recursion takes one step more.                *)
LEMMA KeepsOn ==
  ASSUME NEW S, NEW parts \in Seq(S), NEW part \in S, NEW f, KeepsTo(f, parts)
  PROVE  \E g : /\ KeepsTo(g, Append(parts, part))
               /\ g[Len(parts) + 1] = Keep(f[Len(parts)], part)
<1> DEFINE longer == Append(parts, part)
           N == Len(parts)
           g == [n \in 0..N + 1 |-> IF n <= N THEN f[n] ELSE Keep(f[N], part)]
<1>1. /\ N \in Nat /\ longer \in Seq(S)
      /\ Len(longer) = N + 1 /\ longer[N + 1] = part
      /\ \A i \in 1..N : longer[i] = parts[i]
  BY AppendProperties, LenProperties
<1>2. /\ f[0] = <<>>
      /\ \A n \in 1..N : f[n] = Keep(f[n - 1], parts[n])
  BY KeepsSteps
<1>3. /\ On(g, N + 1)
      /\ g[N + 1] = Keep(f[N], part)
      /\ \A n \in 0..N : g[n] = f[n]
  BY <1>1 DEF On
<1> HIDE DEF longer, g
<1>4. ASSUME NEW n \in 1..N + 1 PROVE g[n] = Keep(g[n - 1], longer[n])
  <2>1. CASE n = N + 1
    BY <1>1, <1>3, <2>1
  <2>2. CASE n <= N
    <3>1. n \in 1..N /\ n - 1 \in 0..N
      BY <1>1, <2>2
    <3> QED BY <1>1, <1>2, <1>3, <3>1
  <2> QED BY <1>1, <2>1, <2>2
<1>5. KeepsTo(g, longer)
  BY <1>1, <1>2, <1>3, <1>4, KeepsSteps
<1> QED BY <1>3, <1>5 DEF longer

LEMMA KeepsNothing ==
  \E f : KeepsTo(f, <<>>) /\ f[0] = <<>>
<1> DEFINE f == [n \in 0..0 |-> <<>>]
<1>1. \A n \in 0..Len(<<>>) : n = 0
  BY EmptySeq
<1>2. Len(<<>>) = 0
  BY EmptySeq
<1>3. KeepsTo(f, <<>>)
  BY <1>1, <1>2 DEF KeepsTo
<1> QED BY <1>3

LEMMA NonEmptyEmpty == NonEmpty(<<>>) = <<>>
  BY KeepsNothing, KeepsOnce, EmptySeq

LEMMA NonEmptyAppend ==
  ASSUME NEW S, NEW parts \in Seq(S), NEW part \in S
  PROVE  NonEmpty(Append(parts, part)) = Keep(NonEmpty(parts), part)
<1> DEFINE P == {t \in Seq(S) : \E f : KeepsTo(f, t)}
<1>1. <<>> \in P
  BY EmptySeq, KeepsNothing
<1>2. ASSUME NEW t \in Seq(S), NEW x \in S, t \in P PROVE Append(t, x) \in P
  BY <1>2, KeepsOn, AppendProperties
<1> HIDE DEF P
<1>3. parts \in P
  BY <1>1, <1>2, ListInduction
<1>4. PICK f : KeepsTo(f, parts)
  BY <1>3 DEF P
<1>5. PICK g : /\ KeepsTo(g, Append(parts, part))
               /\ g[Len(parts) + 1] = Keep(f[Len(parts)], part)
  BY <1>4, KeepsOn
<1>6. Append(parts, part) \in Seq(S) /\ Len(Append(parts, part)) = Len(parts) + 1
  BY AppendProperties
<1> QED BY <1>4, <1>5, <1>6, KeepsOnce
-----------------------------------------------------------------------------
(* What Split and Join return.                                              *)

LEMMA AddTokenType ==
  ASSUME NEW S, NEW parts \in Seq(Seq(S)), parts # <<>>, NEW token \in S, NEW mark
  PROVE  /\ AddToken(parts, token, mark) \in Seq(Seq(S))
         /\ AddToken(parts, token, mark) # <<>>
<1>1. Front(parts) \in Seq(Seq(S)) /\ Last(parts) \in Seq(S)
  BY FrontLast
<1>2. Empty \in Seq(S) /\ Append(Last(parts), token) \in Seq(S)
  BY <1>1, EmptySeq, AppendProperties DEF Empty
<1>3. Append(parts, Empty) \in Seq(Seq(S)) /\ Append(parts, Empty) # <<>>
  BY <1>2, AppendProperties
<1>4. ASSUME NEW F \in Seq(Seq(S)), NEW p \in Seq(S)
      PROVE  Append(F, p) \in Seq(Seq(S)) /\ Append(F, p) # <<>>
  BY AppendProperties
<1> QED BY <1>1, <1>2, <1>3, <1>4 DEF AddToken

LEMMA SplitType ==
  ASSUME NEW S, NEW text \in Seq(S), NEW mark
  PROVE  /\ Split(text, mark) \in Seq(Seq(S)) /\ Split(text, mark) # <<>>
         /\ \A i \in DOMAIN Split(text, mark) : Split(text, mark)[i] \in Seq(S)
<1> DEFINE P == {t \in Seq(S) : Split(t, mark) \in Seq(Seq(S)) /\ Split(t, mark) # <<>>}
<1>1. <<>> \in P
  <2>1. Split(<<>>, mark) = <<Empty>> /\ Empty \in Seq(S)
    BY SplitEmpty, EmptySeq DEF Empty
  <2> QED BY <2>1, EmptySeq, Single
<1>2. ASSUME NEW t \in Seq(S), NEW x \in S, t \in P PROVE Append(t, x) \in P
  BY <1>2, SplitAppend, AddTokenType, AppendProperties
<1>3. P \subseteq Seq(S)
  OBVIOUS
<1> HIDE DEF P
<1>4. text \in P
  BY <1>1, <1>2, ListInduction
<1>5. Split(text, mark) \in Seq(Seq(S)) /\ Split(text, mark) # <<>>
  BY <1>4 DEF P
<1> QED BY <1>5, ElementOfSeq, LenProperties

(* A list goes through AddToken with all but its last part.                 *)
LEMMA AddTokenConcat ==
  ASSUME NEW S, NEW A \in Seq(Seq(S)), NEW B \in Seq(Seq(S)), B # <<>>,
         NEW token \in S, NEW mark
  PROVE  AddToken(A \o B, token, mark) = A \o AddToken(B, token, mark)
<1> DEFINE T == Seq(S)
<1>1. Empty \in T
  BY EmptySeq DEF Empty
<1>2. PICK F \in Seq(T), b \in T : B = Append(F, b)
  BY SequenceEmptyOrAppend
<1> HIDE DEF T
<1>3. ASSUME NEW X \in Seq(T), NEW y \in T PROVE A \o Append(X, y) = Append(A \o X, y)
  <2>1. A \in Seq(T)
    BY DEF T
  <2>2. Append(X, y) = X \o <<y>> /\ Append(A \o X, y) = (A \o X) \o <<y>> /\ <<y>> \in Seq(T)
    BY <2>1, AppendIsConcat, ConcatProperties
  <2> QED BY <2>1, <2>2, ConcatAssociative
<1>4. A \in Seq(T) /\ B \in Seq(T) /\ A \o F \in Seq(T)
  BY <1>2, ConcatProperties DEF T
<1>5. A \o B = Append(A \o F, b)
  BY <1>2, <1>3
<1>6. CASE token = mark
  BY <1>1, <1>3, <1>4, <1>6 DEF AddToken
<1>7. CASE token # mark
  <2>1. Append(b, token) \in T
    BY <1>2, AppendProperties DEF T
  <2>2. Front(A \o B) = A \o F /\ Last(A \o B) = b
    <3>1. Front(Append(A \o F, b)) = A \o F /\ Last(Append(A \o F, b)) = b
      BY <1>2, <1>4, FrontOfAppend
    <3> QED BY <1>5, <3>1
  <2>3. Front(B) = F /\ Last(B) = b
    BY <1>2, FrontOfAppend
  <2>4. AddToken(A \o B, token, mark) = Append(A \o F, Append(b, token))
    BY <1>7, <2>2 DEF AddToken
  <2>5. AddToken(B, token, mark) = Append(F, Append(b, token))
    BY <1>7, <2>3 DEF AddToken
  <2> QED BY <1>2, <1>3, <2>1, <2>4, <2>5
<1> QED BY <1>6, <1>7

(* A mark between two texts separates what they are split into.             *)
LEMMA SplitConcat ==
  ASSUME NEW S, NEW t \in Seq(S), NEW u \in Seq(S), NEW mark \in S
  PROVE  Split(Append(t, mark) \o u, mark) = Split(t, mark) \o Split(u, mark)
<1> DEFINE tm == Append(t, mark)
           P  == {v \in Seq(S) : Split(tm \o v, mark) = Split(t, mark) \o Split(v, mark)}
<1>1. /\ tm \in Seq(S)
      /\ Split(t, mark) \in Seq(Seq(S)) /\ Split(t, mark) # <<>>
  BY AppendProperties, SplitType
<1>2. <<>> \in P
  <2>1. tm \o <<>> = tm /\ <<>> \in Seq(S) /\ Empty \in Seq(S)
    BY <1>1, ConcatEmptySeq, EmptySeq DEF Empty
  <2>2. Split(tm, mark) = AddToken(Split(t, mark), mark, mark)
    BY <1>1, SplitAppend
  <2>3. Append(Split(t, mark), Empty) = Split(t, mark) \o <<Empty>>
    BY <1>1, <2>1, AppendIsConcat
  <2>4. Split(tm, mark) = Append(Split(t, mark), Empty)
    BY <2>2 DEF AddToken
  <2> QED BY <2>1, <2>3, <2>4, SplitEmpty DEF Empty
<1>3. ASSUME NEW v \in Seq(S), NEW x \in S, v \in P PROVE Append(v, x) \in P
  <2>1. /\ Append(v, x) \in Seq(S) /\ tm \o v \in Seq(S)
        /\ tm \o Append(v, x) = Append(tm \o v, x)
    <3>1. Append(v, x) = v \o <<x>> /\ <<x>> \in Seq(S) /\ tm \o v \in Seq(S)
      BY <1>1, AppendIsConcat, ConcatProperties
    <3>2. Append(tm \o v, x) = (tm \o v) \o <<x>>
      BY <3>1, AppendIsConcat
    <3> QED BY <1>1, <3>1, <3>2, ConcatAssociative, ConcatProperties
  <2>2. Split(tm \o Append(v, x), mark) = AddToken(Split(t, mark) \o Split(v, mark), x, mark)
    BY <1>3, <2>1, SplitAppend
  <2>3. @ = Split(t, mark) \o AddToken(Split(v, mark), x, mark)
    BY <1>1, SplitType, AddTokenConcat
  <2>4. @ = Split(t, mark) \o Split(Append(v, x), mark)
    BY SplitAppend
  <2> QED BY <2>1, <2>2, <2>3, <2>4
<1> HIDE DEF P
<1>4. u \in P
  BY <1>2, <1>3, ListInduction
<1> QED BY <1>4 DEF P

LEMMA HasAppend ==
  ASSUME NEW S, NEW t \in Seq(S), NEW x \in S, NEW w
  PROVE  /\ Has(Append(t, x), w) <=> Has(t, w) \/ w = x
         /\ ~Has(<<>>, w)
<1>1. /\ Append(t, x) \in Seq(S) /\ Len(t) \in Nat /\ Len(Append(t, x)) = Len(t) + 1
      /\ \A i \in 1..Len(t) : Append(t, x)[i] = t[i]
      /\ Append(t, x)[Len(t) + 1] = x
  BY AppendProperties, LenProperties
<1>2. DOMAIN t = 1..Len(t) /\ DOMAIN Append(t, x) = 1..(Len(t) + 1)
  BY <1>1, LenProperties
<1>3. DOMAIN <<>> = {}
  BY EmptySeq, LenProperties
<1>4. \A i \in 1..Len(t) + 1 : i \in 1..Len(t) \/ i = Len(t) + 1
  BY <1>1
<1>5. \A i \in 1..Len(t) : i \in 1..Len(t) + 1
  BY <1>1
<1>6. Len(t) + 1 \in 1..Len(t) + 1
  BY <1>1
<1> QED BY <1>1, <1>2, <1>3, <1>4, <1>5, <1>6 DEF Has, ToSet

(* A text without the mark is one part.                                     *)
LEMMA SplitPlain ==
  ASSUME NEW S, NEW text \in Seq(S), NEW mark, ~Has(text, mark)
  PROVE  Split(text, mark) = <<text>>
<1> DEFINE P == {t \in Seq(S) : ~Has(t, mark) => Split(t, mark) = <<t>>}
<1>1. <<>> \in P
  BY SplitEmpty, EmptySeq DEF Empty
<1>2. ASSUME NEW t \in Seq(S), NEW x \in S, t \in P PROVE Append(t, x) \in P
  <2> SUFFICES ASSUME ~Has(Append(t, x), mark) PROVE Split(Append(t, x), mark) = <<Append(t, x)>>
    BY AppendProperties
  <2>1. Split(t, mark) = <<t>> /\ x # mark
    BY <1>2, HasAppend
  <2>2. Front(<<t>>) = <<>> /\ Last(<<t>>) = t
    BY FrontOfSingle
  <2> QED BY <2>1, <2>2, SplitAppend DEF AddToken
<1> HIDE DEF P
<1>3. text \in P
  BY <1>1, <1>2, ListInduction
<1> QED BY <1>3 DEF P

(* No part has the mark.                                                    *)
LEMMA SplitParts ==
  ASSUME NEW S, NEW text \in Seq(S), NEW mark
  PROVE  \A i \in 1..Len(Split(text, mark)) : ~Has(Split(text, mark)[i], mark)
<1> DEFINE Plain(parts) == \A i \in 1..Len(parts) : ~Has(parts[i], mark)
           P == {t \in Seq(S) : Plain(Split(t, mark))}
<1>1. <<>> \in P
  <2>1. Split(<<>>, mark) = <<<<>>>> /\ Len(<<<<>>>>) = 1 /\ <<<<>>>>[1] = <<>>
    BY SplitEmpty, EmptySeq, Single DEF Empty
  <2>2. ~Has(<<>>, mark)
    BY EmptySeq DEF Has, ToSet
  <2> QED BY <2>1, <2>2, EmptySeq
<1>2. ASSUME NEW t \in Seq(S), NEW x \in S, t \in P PROVE Append(t, x) \in P
  <2> DEFINE A == Split(t, mark)
  <2>1. /\ A \in Seq(Seq(S)) /\ A # <<>> /\ Empty \in Seq(S)
        /\ Plain(A)
    BY <1>2, SplitType, EmptySeq DEF Empty
  <2>2. Split(Append(t, x), mark) = AddToken(A, x, mark)
    BY SplitAppend
  <2> HIDE DEF A
  <2>3. ASSUME NEW B \in Seq(Seq(S)), NEW p \in Seq(S), Plain(B), ~Has(p, mark)
        PROVE  Plain(Append(B, p))
    <3>1. /\ Len(B) \in Nat /\ Len(Append(B, p)) = Len(B) + 1
          /\ \A i \in 1..Len(B) : Append(B, p)[i] = B[i]
          /\ Append(B, p)[Len(B) + 1] = p
      BY AppendProperties, LenProperties
    <3> QED BY <2>3, <3>1
  <2>4. CASE x = mark
    <3>1. ~Has(Empty, mark)
      BY HasAppend DEF Empty
    <3> QED BY <2>1, <2>2, <2>3, <2>4, <3>1, AppendProperties DEF AddToken
  <2>5. CASE x # mark
    <3>1. /\ Front(A) \in Seq(Seq(S)) /\ Last(A) \in Seq(S) /\ Len(A) \in Nat \ {0}
          /\ Len(Front(A)) = Len(A) - 1 /\ A = Append(Front(A), Last(A))
      BY <2>1, FrontLast
    <3>2. \A i \in 1..Len(Front(A)) : Front(A)[i] = A[i]
      BY <2>1, FrontPart
    <3>3. Plain(Front(A)) /\ ~Has(Last(A), mark)
      BY <2>1, <3>1, <3>2 DEF Last
    <3>4. ~Has(Append(Last(A), x), mark) /\ Append(Last(A), x) \in Seq(S)
      BY <2>5, <3>1, <3>3, HasAppend, AppendProperties
    <3>5. Plain(Append(Front(A), Append(Last(A), x)))
      BY <2>3, <3>1, <3>3, <3>4
    <3> QED BY <2>2, <2>5, <3>5, AppendProperties DEF AddToken
  <2> QED BY <2>4, <2>5
<1> HIDE DEF P
<1>3. text \in P
  BY <1>1, <1>2, ListInduction
<1> QED BY <1>3 DEF P

LEMMA Listed ==
  ASSUME NEW R, NEW n \in Nat, NEW f \in [1..n -> R]
  PROVE  f \in Seq(R)
  BY SeqDef

(* A text of other tokens is still a text of those it has.                  *)
LEMMA Retyped ==
  ASSUME NEW S, NEW t \in Seq(S), NEW R, \A x : Has(t, x) => x \in R
  PROVE  t \in Seq(R)
<1>1. Len(t) \in Nat /\ t \in [1..Len(t) -> S] /\ DOMAIN t = 1..Len(t)
  BY LenProperties
<1>2. \A i \in 1..Len(t) : t[i] \in R
  BY <1>1 DEF Has, ToSet
<1>3. t \in [1..Len(t) -> R]
  BY <1>1, <1>2
<1> QED BY <1>1, <1>3, SeqDef

LEMMA HasType ==
  ASSUME NEW S, NEW t \in Seq(S), NEW x, Has(t, x)
  PROVE  x \in S
  BY LenProperties DEF Has, ToSet

LEMMA JoinType ==
  ASSUME NEW S, NEW parts \in Seq(Seq(S)), NEW mark \in S
  PROVE  Join(parts, mark) \in Seq(S)
<1> DEFINE P == {ps \in Seq(Seq(S)) : Join(ps, mark) \in Seq(S)}
<1>1. <<>> \in P
  BY JoinEmpty, EmptySeq DEF Empty
<1>2. ASSUME NEW ps \in Seq(Seq(S)), NEW p \in Seq(S), ps \in P PROVE Append(ps, p) \in P
  <2>1. <<mark>> \in Seq(S)
    BY Single
  <2>2. AddPart(Join(ps, mark), Len(ps) + 1, p, mark) \in Seq(S)
    <3>1. Join(ps, mark) \o <<mark>> \in Seq(S)
      BY <1>2, <2>1, ConcatProperties
    <3>2. Join(ps, mark) \o <<mark>> \o p \in Seq(S)
      BY <3>1, ConcatProperties
    <3> QED BY <3>2 DEF AddPart
  <2>3. Join(Append(ps, p), mark) \in Seq(S)
    BY <2>2, JoinAppend
  <2>4. Append(ps, p) \in Seq(Seq(S))
    BY AppendProperties
  <2> QED BY <2>3, <2>4
<1> HIDE DEF P
<1>3. parts \in P
  BY <1>1, <1>2, ListInduction
<1> QED BY <1>3 DEF P

(* The parts joined, and one more.                                          *)
LEMMA JoinMore ==
  ASSUME NEW S, NEW parts \in Seq(Seq(S)), NEW part \in Seq(S), NEW mark
  PROVE  Join(Append(parts, part), mark) =
           IF parts = <<>> THEN part ELSE Join(parts, mark) \o <<mark>> \o part
<1>1. Len(parts) \in Nat /\ (Len(parts) + 1 = 1 <=> parts = <<>>)
  BY EmptySeq, LenProperties
<1>2. Join(Append(parts, part), mark) = AddPart(Join(parts, mark), Len(parts) + 1, part, mark)
  BY JoinAppend
<1> QED BY <1>1, <1>2 DEF AddPart

LEMMA JoinHas ==
  ASSUME NEW S, NEW parts \in Seq(Seq(S)), NEW mark \in S,
         NEW x, Has(Join(parts, mark), x)
  PROVE  x = mark \/ \E i \in 1..Len(parts) : Has(parts[i], x)
<1> DEFINE R == {y \in S : y = mark \/ \E i \in 1..Len(parts) : Has(parts[i], y)}
<1>1. /\ Len(parts) \in Nat /\ parts \in [1..Len(parts) -> Seq(S)]
  BY LenProperties
<1>2. ASSUME NEW i \in 1..Len(parts) PROVE parts[i] \in Seq(R)
  <2>1. parts[i] \in Seq(S)
    BY <1>1
  <2>2. \A y : Has(parts[i], y) => y \in R
    BY <2>1, HasType
  <2> HIDE DEF R
  <2> QED BY <2>1, <2>2, Retyped
<1>3. mark \in R
  OBVIOUS
<1> HIDE DEF R
<1>4. parts \in Seq(Seq(R))
  <2> DEFINE T == Seq(R)
  <2>1. parts \in [1..Len(parts) -> T]
    BY <1>1, <1>2
  <2> HIDE DEF T
  <2>2. parts \in Seq(T)
    BY <1>1, <2>1, Listed
  <2> QED BY <2>2 DEF T
<1>5. x \in R
  BY <1>3, <1>4, JoinType, HasType
<1> QED BY <1>5 DEF R

(* A part without the mark, put behind one, is the last of a split.         *)
LEMMA SplitMarked ==
  ASSUME NEW S, NEW t \in Seq(S), NEW u \in Seq(S), NEW mark \in S, ~Has(u, mark)
  PROVE  Split(t \o <<mark>> \o u, mark) = Append(Split(t, mark), u)
<1>1. Append(t, mark) = t \o <<mark>>
  BY AppendIsConcat
<1>2. Split(Append(t, mark) \o u, mark) = Split(t, mark) \o Split(u, mark)
  BY SplitConcat
<1>3. Split(u, mark) = <<u>> /\ Split(t, mark) \in Seq(Seq(S))
  BY SplitPlain, SplitType
<1>4. Append(Split(t, mark), u) = Split(t, mark) \o <<u>>
  BY <1>3, AppendIsConcat
<1> QED BY <1>1, <1>2, <1>3, <1>4

(* What was joined is what a split finds, if no part has the mark.          *)
LEMMA SplitJoin ==
  ASSUME NEW S, NEW parts \in Seq(Seq(S)), parts # <<>>, NEW mark \in S,
         \A i \in 1..Len(parts) : ~Has(parts[i], mark)
  PROVE  Split(Join(parts, mark), mark) = parts
<1> DEFINE Plain(ps) == \A i \in 1..Len(ps) : ~Has(ps[i], mark)
           P == {ps \in Seq(Seq(S)) :
                   ps # <<>> /\ Plain(ps) => Split(Join(ps, mark), mark) = ps}
<1>1. <<>> \in P
  BY EmptySeq
<1>2. ASSUME NEW ps \in Seq(Seq(S)), NEW p \in Seq(S), ps \in P PROVE Append(ps, p) \in P
  <2>1. /\ Append(ps, p) \in Seq(Seq(S)) /\ Len(ps) \in Nat
        /\ Len(Append(ps, p)) = Len(ps) + 1
        /\ \A i \in 1..Len(ps) : Append(ps, p)[i] = ps[i]
        /\ Append(ps, p)[Len(ps) + 1] = p
    BY AppendProperties, LenProperties
  <2> SUFFICES ASSUME Plain(Append(ps, p))
               PROVE  Split(Join(Append(ps, p), mark), mark) = Append(ps, p)
    BY <2>1
  <2>2. Plain(ps) /\ ~Has(p, mark)
    <3>1. ~Has(Append(ps, p)[Len(ps) + 1], mark)
      BY <2>1
    <3>2. \A i \in 1..Len(ps) : i \in 1..Len(Append(ps, p))
      BY <2>1
    <3>3. \A i \in 1..Len(ps) : ~Has(ps[i], mark)
      BY <2>1, <3>2
    <3> QED BY <2>1, <3>1, <3>3
  <2>3. Split(p, mark) = <<p>>
    BY <2>2, SplitPlain
  <2>4. CASE ps = <<>>
    <3>1. Append(ps, p) = <<p>>
      BY <2>4, Single
    <3> QED BY <2>3, <2>4, <3>1, JoinMore
  <2>5. CASE ps # <<>>
    <3>1. Split(Join(ps, mark), mark) = ps
      BY <1>2, <2>2, <2>5
    <3>2. Join(Append(ps, p), mark) = Join(ps, mark) \o <<mark>> \o p
      BY <2>5, JoinMore
    <3>3. Join(ps, mark) \in Seq(S)
      BY JoinType
    <3> DEFINE j == Join(ps, mark)
    <3> HIDE DEF P, Plain, j
    <3>4. j \in Seq(S) /\ Split(j, mark) = ps /\ Join(Append(ps, p), mark) = j \o <<mark>> \o p
      BY <3>1, <3>2, <3>3 DEF j
    <3>5. Split(j \o <<mark>> \o p, mark) = Append(Split(j, mark), p)
      BY <2>2, <3>4, SplitMarked
    <3> QED BY <3>4, <3>5
  <2> QED BY <2>4, <2>5
<1> HIDE DEF P
<1>3. parts \in P
  BY <1>1, <1>2, ListInduction
<1> QED BY <1>3 DEF P

(* Parts that are not empty make a text that is not.                        *)
LEMMA JoinNotEmpty ==
  ASSUME NEW S, NEW parts \in Seq(Seq(S)), NEW mark \in S,
         \A i \in 1..Len(parts) : parts[i] # Empty
  PROVE  Join(parts, mark) = Empty <=> parts = <<>>
<1>1. parts = <<>> => Join(parts, mark) = Empty
  BY JoinEmpty
<1>2. ASSUME parts # <<>> PROVE Join(parts, mark) # Empty
  <2>1. PICK ps \in Seq(Seq(S)), p \in Seq(S) : parts = Append(ps, p)
    BY <1>2, SequenceEmptyOrAppend
  <2>2. p # Empty
    BY <2>1, AppendProperties, LenProperties
  <2>3. Join(ps, mark) \o <<mark>> \o p # Empty
    <3> DEFINE j == Join(ps, mark) \o <<mark>>
    <3>1. j \in Seq(S)
      BY JoinType, Single, ConcatProperties
    <3> HIDE DEF j
    <3>2. p # <<>>
      BY <2>2 DEF Empty
    <3>3. \A u, v \in Seq(S) : u \o v = <<>> => v = <<>>
      BY ConcatEqualIffEmpty
    <3>4. j \o p = <<>> => p = <<>>
      BY <3>1, <3>3
    <3> QED BY <3>2, <3>4 DEF Empty, j
  <2>4. Join(Append(ps, p), mark) = IF ps = <<>> THEN p ELSE Join(ps, mark) \o <<mark>> \o p
    BY JoinMore
  <2> QED BY <2>1, <2>2, <2>3, <2>4
<1> QED BY <1>1, <1>2

(* A text begins with the first part it is split into, and is that part if  *)
(* it has no mark.                                                          *)
LEMMA SplitFirst ==
  ASSUME NEW S, NEW text \in Seq(S), NEW mark
  PROVE  /\ Split(text, mark)[1] \in Seq(S)
         /\ \E rest \in Seq(S) : text = Split(text, mark)[1] \o rest
<1> DEFINE Q(t) == \E rest \in Seq(S) : /\ t = Split(t, mark)[1] \o rest
                                        /\ Len(Split(t, mark)) = 1 => rest = <<>>
           P == {t \in Seq(S) : Q(t)}
<1>0. ASSUME NEW t \in Seq(S)
      PROVE  /\ Split(t, mark) \in Seq(Seq(S)) /\ Split(t, mark) # <<>>
             /\ Len(Split(t, mark)) \in Nat \ {0} /\ Split(t, mark)[1] \in Seq(S)
  <2>1. Split(t, mark) \in Seq(Seq(S)) /\ Split(t, mark) # <<>>
    BY SplitType
  <2>2. Len(Split(t, mark)) \in Nat \ {0}
    BY <2>1, EmptySeq
  <2> QED BY <2>1, <2>2, ElementOfSeq
<1>1. <<>> \in P
  <2>1. Split(<<>>, mark)[1] = <<>>
    BY SplitEmpty DEF Empty
  <2>2. <<>> \in Seq(S) /\ <<>> \o <<>> = <<>>
    BY EmptySeq, ConcatEmptySeq
  <2> QED BY <2>1, <2>2
<1>2. ASSUME NEW t \in Seq(S), NEW x \in S, t \in P PROVE Append(t, x) \in P
  <2> DEFINE A == Split(t, mark)
  <2>1. PICK rest \in Seq(S) : /\ t = A[1] \o rest
                               /\ Len(A) = 1 => rest = <<>>
    BY <1>2
  <2>2. /\ A \in Seq(Seq(S)) /\ A # <<>> /\ Len(A) \in Nat \ {0} /\ A[1] \in Seq(S)
        /\ Split(Append(t, x), mark) = AddToken(A, x, mark)
    BY <1>0, SplitAppend
  <2> HIDE DEF A
  <2>3. /\ Append(t, x) \in Seq(S) /\ Append(rest, x) \in Seq(S)
        /\ Append(t, x) = A[1] \o Append(rest, x)
    <3>1. Append(t, x) = t \o <<x>> /\ Append(rest, x) = rest \o <<x>> /\ <<x>> \in Seq(S)
      BY AppendIsConcat, Single
    <3>2. (A[1] \o rest) \o <<x>> = A[1] \o (rest \o <<x>>)
      <4> DEFINE a == A[1]
                 s == <<x>>
      <4>1. a \in Seq(S) /\ s \in Seq(S)
        BY <2>2, <3>1
      <4> HIDE DEF a, s
      <4>2. (a \o rest) \o s = a \o (rest \o s)
        BY <4>1, ConcatAssociative
      <4> QED BY <4>2 DEF a, s
    <3> QED BY <2>1, <3>1, <3>2, AppendProperties
  <2>4. CASE x = mark
    <3>1. Empty \in Seq(S) /\ AddToken(A, x, mark) = Append(A, Empty)
      BY <2>4, EmptySeq DEF AddToken, Empty
    <3>2. /\ Len(Append(A, Empty)) = Len(A) + 1
          /\ Append(A, Empty)[1] = A[1]
      BY <2>2, <3>1, AppendProperties
    <3>3. /\ Split(Append(t, x), mark)[1] = A[1]
          /\ Len(Split(Append(t, x), mark)) # 1
      BY <2>2, <3>1, <3>2
    <3> QED BY <2>3, <3>3
  <2>5. CASE x # mark
    <3>1. /\ Front(A) \in Seq(Seq(S)) /\ Last(A) \in Seq(S) /\ Len(Front(A)) = Len(A) - 1
          /\ \A i \in 1..Len(Front(A)) : Front(A)[i] = A[i]
      BY <2>2, FrontLast, FrontPart
    <3>2. AddToken(A, x, mark) = Append(Front(A), Append(Last(A), x))
      BY <2>5 DEF AddToken
    <3>3. Append(Last(A), x) \in Seq(S)
      BY <3>1, AppendProperties
    <3>4. /\ Len(AddToken(A, x, mark)) = Len(A)
          /\ \A i \in 1..Len(Front(A)) : AddToken(A, x, mark)[i] = A[i]
          /\ AddToken(A, x, mark)[Len(A)] = Append(Last(A), x)
      BY <2>2, <3>1, <3>2, <3>3, AppendProperties
    <3>5. CASE Len(A) = 1
      <4>1. rest = <<>> /\ A[1] = t /\ Last(A) = t
        BY <2>1, <2>2, <3>5, ConcatEmptySeq DEF Last
      <4>2. Append(t, x) = Append(t, x) \o <<>> /\ <<>> \in Seq(S)
        BY <2>3, ConcatEmptySeq, EmptySeq
      <4> QED BY <2>2, <2>3, <3>4, <3>5, <4>1, <4>2
    <3>6. CASE Len(A) # 1
      <4>1. AddToken(A, x, mark)[1] = A[1]
        BY <2>2, <3>1, <3>4, <3>6
      <4> QED BY <2>2, <2>3, <3>4, <3>6, <4>1
    <3> QED BY <3>5, <3>6
  <2> QED BY <2>4, <2>5
<1> HIDE DEF P
<1>3. text \in P
  BY <1>1, <1>2, ListInduction
<1> QED BY <1>0, <1>3 DEF P

(* What follows a text leaves the parts before its last one as they are.    *)
LEMMA AddTokenPrefix ==
  ASSUME NEW S, NEW parts \in Seq(Seq(S)), parts # <<>>, NEW token \in S, NEW mark
  PROVE  /\ Len(parts) \in Nat \ {0} /\ Len(AddToken(parts, token, mark)) \in Nat
         /\ Len(parts) <= Len(AddToken(parts, token, mark))
         /\ \A i \in 1..Len(parts) - 1 : AddToken(parts, token, mark)[i] = parts[i]
<1> DEFINE T == Seq(S)
<1>1. Empty \in T /\ Front(parts) \in Seq(T) /\ Last(parts) \in T
  BY FrontLast, EmptySeq DEF Empty
<1>2. Append(Last(parts), token) \in T
  BY <1>1, AppendProperties
<1>3. /\ Len(parts) \in Nat \ {0} /\ Len(Front(parts)) = Len(parts) - 1
      /\ \A i \in 1..Len(parts) - 1 : Front(parts)[i] = parts[i]
  BY FrontLast, FrontPart
<1>4. parts \in Seq(T)
  OBVIOUS
<1> HIDE DEF T
<1>5. CASE token = mark
  <2>1. /\ Len(Append(parts, Empty)) = Len(parts) + 1
        /\ \A i \in 1..Len(parts) : Append(parts, Empty)[i] = parts[i]
    BY <1>1, <1>4, AppendProperties
  <2> QED BY <1>3, <1>5, <2>1 DEF AddToken
<1>6. CASE token # mark
  <2> DEFINE F == Front(parts)
             p == Append(Last(parts), token)
  <2>1. /\ F \in Seq(T) /\ p \in T /\ Len(F) = Len(parts) - 1
        /\ \A i \in 1..Len(parts) - 1 : F[i] = parts[i]
        /\ AddToken(parts, token, mark) = Append(F, p)
    BY <1>1, <1>2, <1>3, <1>6 DEF AddToken
  <2> HIDE DEF F, p
  <2>2. Len(Append(F, p)) = Len(F) + 1 /\ \A i \in 1..Len(F) : Append(F, p)[i] = F[i]
    BY <2>1, AppendProperties
  <2> QED BY <1>3, <2>1, <2>2
<1> QED BY <1>5, <1>6

LEMMA SplitPrefix ==
  ASSUME NEW S, NEW t \in Seq(S), NEW u \in Seq(S), NEW mark
  PROVE  /\ Len(Split(t, mark)) \in Nat \ {0} /\ Len(Split(t \o u, mark)) \in Nat
         /\ Len(Split(t, mark)) <= Len(Split(t \o u, mark))
         /\ \A i \in 1..Len(Split(t, mark)) - 1 : Split(t \o u, mark)[i] = Split(t, mark)[i]
<1> DEFINE A == Split(t, mark)
           Longer(B) == /\ Len(B) \in Nat /\ Len(A) <= Len(B)
                        /\ \A i \in 1..Len(A) - 1 : B[i] = A[i]
           P == {v \in Seq(S) : Longer(Split(t \o v, mark))}
<1>1. A \in Seq(Seq(S)) /\ A # <<>> /\ Len(A) \in Nat \ {0}
  BY SplitType, EmptySeq
<1>2. <<>> \in P
  BY <1>1, EmptySeq, ConcatEmptySeq
<1>3. ASSUME NEW v \in Seq(S), NEW x \in S, v \in P PROVE Append(v, x) \in P
  <2> DEFINE B == Split(t \o v, mark)
  <2>1. t \o v \in Seq(S) /\ t \o Append(v, x) = Append(t \o v, x) /\ Append(v, x) \in Seq(S)
    BY ConcatProperties, ConcatAppend, AppendProperties
  <2>2. B \in Seq(Seq(S)) /\ B # <<>> /\ Longer(B)
    BY <1>3, <2>1, SplitType
  <2>3. Split(t \o Append(v, x), mark) = AddToken(B, x, mark)
    BY <2>1, SplitAppend
  <2> HIDE DEF A, B
  <2>4. Longer(AddToken(B, x, mark))
    BY <1>1, <2>2, AddTokenPrefix
  <2> QED BY <2>1, <2>3, <2>4 DEF A
<1> HIDE DEF P
<1>4. u \in P
  BY <1>2, <1>3, ListInduction
<1> QED BY <1>1, <1>4 DEF P

-----------------------------------------------------------------------------
(* Breadcrumbs.                                                             *)

(* The first n elements, and one more.                                      *)
LEMMA Prefix ==
  ASSUME NEW S, NEW s \in Seq(S), NEW n \in 0..Len(s)
  PROVE  /\ SubSeq(s, 1, n) \in Seq(S) /\ Len(SubSeq(s, 1, n)) = n
         /\ \A i \in 1..n : SubSeq(s, 1, n)[i] = s[i]
         /\ SubSeq(s, 1, n) = <<>> <=> n = 0
         /\ n < Len(s) => SubSeq(s, 1, n + 1) = Append(SubSeq(s, 1, n), s[n + 1])
<1>1. /\ Len(s) \in Nat /\ n \in Nat /\ n <= Len(s)
      /\ \A i \in 1..Len(s) : s[i] \in S
  BY LenProperties, ElementOfSeq
<1>2. ASSUME NEW m \in 0..Len(s)
      PROVE  /\ SubSeq(s, 1, m) \in Seq(S) /\ Len(SubSeq(s, 1, m)) = m
             /\ \A i \in 1..m : SubSeq(s, 1, m)[i] = s[i]
  BY <1>1, SubSeqProperties
<1>3. SubSeq(s, 1, n) = <<>> <=> n = 0
  BY <1>1, <1>2, EmptySeq
<1>4. ASSUME n < Len(s) PROVE SubSeq(s, 1, n + 1) = Append(SubSeq(s, 1, n), s[n + 1])
  <2> DEFINE t == SubSeq(s, 1, n + 1)
             u == SubSeq(s, 1, n)
  <2>1. n + 1 \in 0..Len(s) /\ n + 1 \in 1..Len(s)
    BY <1>1, <1>4
  <2>2. /\ t \in Seq(S) /\ Len(t) = n + 1 /\ \A i \in 1..n + 1 : t[i] = s[i]
        /\ u \in Seq(S) /\ Len(u) = n /\ \A i \in 1..n : u[i] = s[i]
    BY <1>2, <2>1
  <2> HIDE DEF t, u
  <2>3. s[n + 1] \in S
    BY <1>1, <2>1
  <2>4. /\ Append(u, s[n + 1]) \in Seq(S) /\ Len(Append(u, s[n + 1])) = n + 1
        /\ \A i \in 1..n : Append(u, s[n + 1])[i] = s[i]
        /\ Append(u, s[n + 1])[n + 1] = s[n + 1]
    BY <2>2, <2>3, AppendProperties
  <2>5. \A i \in 1..n + 1 : Append(u, s[n + 1])[i] = t[i]
    BY <1>1, <2>2, <2>4
  <2> QED BY <2>2, <2>4, <2>5, SeqEqual DEF t, u
<1> QED BY <1>2, <1>3, <1>4

CrumbsTo(f, names, N) ==
  f = [n \in 0..N |-> IF n = 0 THEN Empty ELSE LinkBelow(f[n - 1], names[n])]

LEMMA CrumbsSteps ==
  ASSUME NEW names, NEW N \in Nat, NEW f
  PROVE  CrumbsTo(f, names, N) <=>
           /\ On(f, N)
           /\ f[0] = Empty
           /\ \A n \in 1..N : f[n] = LinkBelow(f[n - 1], names[n])
<1>1. ASSUME CrumbsTo(f, names, N)
      PROVE  /\ On(f, N)
             /\ f[0] = Empty
             /\ \A n \in 1..N : f[n] = LinkBelow(f[n - 1], names[n])
  BY <1>1 DEF CrumbsTo, On
<1>2. ASSUME On(f, N), f[0] = Empty, \A n \in 1..N : f[n] = LinkBelow(f[n - 1], names[n])
      PROVE  CrumbsTo(f, names, N)
  <2>1. \A n \in 0..N : f[n] = IF n = 0 THEN Empty ELSE LinkBelow(f[n - 1], names[n])
    BY <1>2
  <2> QED BY <1>2, <2>1 DEF CrumbsTo, On
<1> QED BY <1>1, <1>2

LEMMA CrumbsOnce ==
  ASSUME NEW names, NEW N \in Nat, NEW f, CrumbsTo(f, names, N)
  PROVE  (CHOOSE g : CrumbsTo(g, names, N)) = f
<1>1. ASSUME NEW g, CrumbsTo(g, names, N) PROVE g = f
  <2>1. On(f, N) /\ On(g, N) /\ f[0] = g[0]
    BY <1>1, CrumbsSteps
  <2>2. \A n \in 1..N : f[n] = LinkBelow(f[n - 1], names[n])
    BY CrumbsSteps
  <2>3. \A n \in 1..N : g[n] = LinkBelow(g[n - 1], names[n])
    BY <1>1, CrumbsSteps
  <2>4. \A n \in 1..N : f[n - 1] = g[n - 1] => f[n] = g[n]
    BY <2>2, <2>3
  <2>5. \A n \in 0..N : f[n] = g[n]
    BY <2>1, <2>4, SameSteps
  <2> QED BY <2>1, <2>5 DEF On
<1> DEFINE P(g) == CrumbsTo(g, names, N)
<1>2. P(CHOOSE g : P(g))
  BY Zenon
<1> QED BY <1>1, <1>2

LEMMA CrumbPathsSteps ==
  ASSUME NEW path, path # Empty
  PROVE  CrumbPaths(path) =
           [k \in DOMAIN Split(path, Slash) |->
              (CHOOSE f : CrumbsTo(f, Split(path, Slash), Len(Split(path, Slash)) - 1))[k - 1]]
BY Zenon DEF CrumbPaths, CrumbsTo

(* Every breadcrumb leads to the folders above it, one after the other.     *)
LEMMA CrumbPathsAre ==
  ASSUME NEW S, NEW path \in Seq(S), path # Empty, Slash \in S,
         \A i \in 1..Len(Split(path, Slash)) - 1 : Split(path, Slash)[i] # Empty
  PROVE  /\ DOMAIN CrumbPaths(path) = DOMAIN Split(path, Slash)
         /\ \A k \in DOMAIN Split(path, Slash) :
              CrumbPaths(path)[k] = Join(SubSeq(Split(path, Slash), 1, k - 1), Slash)
<1> DEFINE names == Split(path, Slash)
           N == Len(names) - 1
           Up(n) == SubSeq(names, 1, n)
           g == [n \in 0..N |-> Join(Up(n), Slash)]
<1>1. /\ names \in Seq(Seq(S)) /\ Len(names) \in Nat \ {0} /\ N \in Nat
      /\ DOMAIN names = 1..N + 1
  BY SplitType, EmptySeq, LenProperties
<1>2. g[0] = Empty
  <2>1. Up(0) = <<>> /\ 0 \in 0..N
    BY <1>1, SubSeqEmpty
  <2> QED BY <2>1, JoinEmpty
<1>3. ASSUME NEW n \in 1..N PROVE g[n] = LinkBelow(g[n - 1], names[n])
  <2> DEFINE up == Up(n - 1)
  <2>1. /\ n - 1 \in 0..Len(names) /\ n - 1 < Len(names) /\ (n - 1) + 1 = n
        /\ n - 1 \in 0..N /\ n \in 0..N /\ n \in 1..Len(names)
    BY <1>1
  <2>2. /\ up \in Seq(Seq(S)) /\ Len(up) = n - 1
        /\ \A i \in 1..n - 1 : up[i] = names[i]
        /\ Up(n) = Append(up, names[n])
    BY <1>1, <2>1, Prefix
  <2>3. \A i \in 1..Len(up) : up[i] # Empty
    BY <1>1, <2>2
  <2>4. names[n] \in Seq(S)
    BY <1>1, <2>1, ElementOfSeq
  <2>5. g[n] = Join(Up(n), Slash) /\ g[n - 1] = Join(up, Slash)
    BY <2>1
  <2> HIDE DEF names, N, Up, g, up
  <2>6. Join(up, Slash) = Empty <=> up = <<>>
    BY <2>2, <2>3, JoinNotEmpty
  <2>7. Join(Append(up, names[n]), Slash) =
          IF up = <<>> THEN names[n] ELSE Join(up, Slash) \o <<Slash>> \o names[n]
    BY <2>2, <2>4, JoinMore
  <2> QED BY <2>2, <2>5, <2>6, <2>7 DEF LinkBelow
<1>4. On(g, N)
  BY DEF On
<1> HIDE DEF g, names, N
<1>5. CrumbsTo(g, names, N)
  BY <1>1, <1>2, <1>3, <1>4, CrumbsSteps
<1>6. (CHOOSE f : CrumbsTo(f, names, N)) = g
  BY <1>1, <1>5, CrumbsOnce
<1>7. CrumbPaths(path) = [k \in DOMAIN names |-> g[k - 1]]
  BY <1>6, CrumbPathsSteps DEF names, N
<1>8. ASSUME NEW k \in DOMAIN names PROVE g[k - 1] = Join(SubSeq(names, 1, k - 1), Slash)
  <2>1. k - 1 \in 0..N
    BY <1>1
  <2> QED BY <2>1 DEF g, names
<1> QED BY <1>7, <1>8 DEF names

-----------------------------------------------------------------------------
(* Routes and the paths of places.                                          *)

LEMMA TextsAre == /\ Texts = Seq(Tokens) /\ Empty \in Texts /\ Empty = <<>>
                  /\ Slash \in Tokens /\ Colon \in Tokens /\ Slash # Colon
                  /\ StorageNames \subseteq Texts
<1>1. Empty \in Seq(Tokens)
  BY EmptySeq DEF Empty
<1> QED BY <1>1, TokensAssumption DEF Texts, Empty, Slash, Colon, StorageNames

(* One token before the first mark is the first part of a split.            *)
LEMMA SplitAfterOne ==
  ASSUME NEW S, NEW mark \in S, NEW one \in S, one # mark, NEW t \in Seq(S)
  PROVE  /\ Split(<<one, mark>> \o t, mark)[1] = <<one>>
         /\ Split(<<one, mark>> \o t, mark)[2] = Split(t, mark)[1]
         /\ Split(t, mark)[1] \in Seq(S)
<1>1. PICK first \in Seq(S) : first = Append(<<>>, one)
  BY EmptySeq, AppendProperties
<1>2. first = <<one>> /\ <<one, mark>> = Append(first, mark)
  BY <1>1
<1>3. ~Has(first, mark)
  <2>1. <<>> \in Seq(S)
    BY EmptySeq
  <2>2. (Has(Append(<<>>, one), mark) <=> Has(<<>>, mark) \/ mark = one) /\ ~Has(<<>>, mark)
    BY <2>1, HasAppend
  <2> QED BY <1>1, <2>2
<1>4. PICK T : T = Seq(S)
  OBVIOUS
<1>5. PICK rest \in Seq(T) : rest = Split(t, mark) /\ rest # <<>>
  BY <1>4, SplitType
<1>6. Len(rest) \in Nat \ {0} /\ rest[1] \in T
  <2>1. Len(rest) \in Nat \ {0}
    BY <1>5, EmptySeq
  <2> QED BY <2>1, ElementOfSeq
<1>7. PICK head \in Seq(T) : head = <<first>> /\ Len(head) = 1 /\ head[1] = first
  BY <1>4, Single
<1>8. Split(Append(first, mark) \o t, mark) = head \o rest
  <2>1. Split(Append(first, mark) \o t, mark) = Split(first, mark) \o Split(t, mark)
    BY SplitConcat
  <2>2. Split(first, mark) = <<first>>
    BY <1>3, SplitPlain
  <2> QED BY <1>5, <1>7, <2>1, <2>2
<1>9. (head \o rest)[1] = head[1] /\ (head \o rest)[2] = rest[1]
  <2>1. /\ Len(head \o rest) = 1 + Len(rest)
        /\ \A i \in 1..1 + Len(rest) :
             (head \o rest)[i] = IF i <= 1 THEN head[i] ELSE rest[i - 1]
    BY <1>7, ConcatProperties
  <2>2. 1 \in 1..1 + Len(rest) /\ 2 \in 1..1 + Len(rest) /\ 2 - 1 = 1 /\ ~(2 <= 1) /\ 1 <= 1
    BY <1>6
  <2> QED BY <2>1, <2>2
<1> QED BY <1>2, <1>4, <1>5, <1>6, <1>7, <1>8, <1>9

(* What a route is read back as: the path up to its first colon.            *)
LEMMA DecodeEncode ==
  ASSUME NEW remote \in Tokens \ {Colon}, NEW path \in Texts
  PROVE  /\ Decode(Encode(remote, path)) = [remote |-> remote, path |-> Split(path, Colon)[1]]
         /\ Split(path, Colon)[1] \in Texts
         /\ ~Has(path, Colon) => Split(path, Colon)[1] = path
<1>1. path \in Seq(Tokens) /\ Colon \in Tokens
  BY TextsAre
<1>2. PICK parts : parts = Split(Encode(remote, path), Colon)
  OBVIOUS
<1>3. parts[1] = <<remote>> /\ parts[2] = Split(path, Colon)[1]
      /\ Split(path, Colon)[1] \in Seq(Tokens)
  BY <1>1, <1>2, SplitAfterOne DEF Encode
<1>4. Decode(Encode(remote, path)) = [remote |-> Head(parts[1]), path |-> parts[2]]
  BY <1>2 DEF Decode
<1>5. Head(<<remote>>) = remote
  OBVIOUS
<1>6. ASSUME ~Has(path, Colon) PROVE Split(path, Colon)[1] = path
  <2>1. Split(path, Colon) = <<path>>
    BY <1>1, <1>6, SplitPlain
  <2> QED BY <2>1
<1> QED BY <1>3, <1>4, <1>5, <1>6, TextsAre

(* The path of a place tells its names.                                     *)
THEOREM PathOfNames ==
  ASSUME NEW names \in Seq(StorageNames)
  PROVE  /\ Join(names, Slash) \in Texts
         /\ Join(names, Slash) = Empty <=> names = <<>>
         /\ names # <<>> => Split(Join(names, Slash), Slash) = names
         /\ \A x : Has(Join(names, Slash), x) =>
              x = Slash \/ \E i \in DOMAIN names : Has(names[i], x)
<1>1. names \in Seq(Seq(Tokens))
  <2> DEFINE T == Seq(Tokens)
  <2>1. StorageNames \subseteq T
    BY TextsAre
  <2> HIDE DEF T
  <2>2. names \in Seq(T)
    BY <2>1, SeqMonotonic
  <2> QED BY <2>2 DEF T
<1>2. DOMAIN names = 1..Len(names)
      /\ \A i \in 1..Len(names) : names[i] # Empty /\ ~Has(names[i], Slash)
  <2>1. \A i \in 1..Len(names) : names[i] \in StorageNames
    BY ElementOfSeq
  <2> QED BY <2>1, LenProperties DEF StorageNames
<1>3. Join(names, Slash) \in Seq(Tokens)
  BY <1>1, TextsAre, JoinType
<1>4. Join(names, Slash) = Empty <=> names = <<>>
  BY <1>1, <1>2, TextsAre, JoinNotEmpty
<1>5. names # <<>> => Split(Join(names, Slash), Slash) = names
  BY <1>1, <1>2, TextsAre, SplitJoin
<1>6. \A x : Has(Join(names, Slash), x) =>
         x = Slash \/ \E i \in 1..Len(names) : Has(names[i], x)
  BY <1>1, TextsAre, JoinHas
<1> QED BY <1>2, <1>3, <1>4, <1>5, <1>6, TextsAre

StartsWith(text, start, S) == \E rest \in Seq(S) : text = start \o rest

LEMMA FirstPart ==
  ASSUME NEW S, NEW text \in Seq(S), NEW mark
  PROVE  StartsWith(text, Split(text, mark)[1], S)
BY SMTT(30), SplitFirst DEF StartsWith

(* The breadcrumbs of an open folder lead to places, though its route lost  *)
(* what follows a colon.                                                    *)
THEOREM CrumbsAreOfPlaces ==
  ASSUME NEW full \in Seq(StorageNames), NEW path \in Texts,
         StartsWith(Join(full, Slash), path, Tokens),
         NEW k \in DOMAIN CrumbPaths(path), NEW up, up = SubSeq(Split(path, Slash), 1, k - 1)
  PROVE  /\ up \in Seq(StorageNames)
         /\ CrumbPaths(path)[k] = Join(up, Slash)
<1>1. path # Empty
  BY EmptySeq DEF CrumbPaths
<1>2. path \in Seq(Tokens)
  BY TextsAre
<1>3. PICK rest \in Seq(Tokens) : Join(full, Slash) = path \o rest
  BY DEF StartsWith
<1>4. Join(full, Slash) # Empty
  <2>1. \A u, v \in Seq(Tokens) : u \o v = <<>> => u = <<>>
    BY ConcatEqualIffEmpty
  <2> QED BY <1>1, <1>2, <1>3, <2>1 DEF Empty
<1> DEFINE names == Split(path, Slash)
<1>5. /\ Len(names) \in Nat \ {0} /\ Len(names) <= Len(full)
      /\ \A i \in 1..Len(names) - 1 : names[i] = full[i]
      /\ Len(full) \in Nat
  <2>1. Split(path \o rest, Slash) = full
    BY <1>3, <1>4, PathOfNames
  <2>2. /\ Len(names) \in Nat \ {0} /\ Len(Split(path \o rest, Slash)) \in Nat
        /\ Len(names) <= Len(Split(path \o rest, Slash))
        /\ \A i \in 1..Len(names) - 1 : Split(path \o rest, Slash)[i] = names[i]
    BY <1>2, SplitPrefix
  <2> HIDE DEF names
  <2> QED BY <2>1, <2>2
<1>6. \A i \in 1..Len(names) - 1 : names[i] \in StorageNames
  <2>1. \A i \in 1..Len(names) - 1 : i \in 1..Len(full)
    BY <1>5
  <2> QED BY <1>5, <2>1, ElementOfSeq
<1>7. names \in Seq(Seq(Tokens)) /\ DOMAIN names = 1..Len(names)
  BY <1>2, SplitType, LenProperties
<1>8. /\ DOMAIN CrumbPaths(path) = DOMAIN names
      /\ \A j \in DOMAIN names : CrumbPaths(path)[j] = Join(SubSeq(names, 1, j - 1), Slash)
  <2>1. \A i \in 1..Len(names) - 1 : names[i] # Empty
    BY <1>6 DEF StorageNames
  <2> QED BY <1>1, <1>2, <2>1, TextsAre, CrumbPathsAre
<1>9. k \in 1..Len(names) /\ k - 1 \in 0..Len(names) /\ k \in DOMAIN names
  BY <1>5, <1>7, <1>8
<1> HIDE DEF names
<1>10. up \in Seq(StorageNames)
  <2>1. up = SubSeq(names, 1, k - 1) /\ 1 \in Int /\ k - 1 \in Int
    BY <1>9 DEF names
  <2>2. \A i \in 1..k - 1 : names[i] \in StorageNames
    BY <1>5, <1>6, <1>9
  <2>3. SubSeq(names, 1, k - 1) \in Seq(StorageNames)
    BY <2>1, <2>2, SubSeqProperties
  <2> QED BY <2>1, <2>3
<1> QED BY <1>8, <1>9, <1>10 DEF names

LEMMA Pair ==
  ASSUME NEW S, NEW a \in S, NEW b \in S
  PROVE  /\ <<a, b>> \in Seq(S) /\ Len(<<a, b>>) = 2
         /\ <<a, b>>[1] = a /\ <<a, b>>[2] = b
<1>1. /\ <<a, b>> \in [1..2 -> S]
      /\ <<a, b>>[1] = a /\ <<a, b>>[2] = b
  OBVIOUS
<1>2. <<a, b>> \in Seq(S)
  BY <1>1, Listed
<1>3. DOMAIN <<a, b>> = 1..2 /\ DOMAIN <<a, b>> = 1..Len(<<a, b>>) /\ Len(<<a, b>>) \in Nat
  BY <1>1, <1>2, LenProperties
<1> QED BY <1>1, <1>2, <1>3

(* What is in two texts one after the other is in one of them.              *)
LEMMA HasConcat ==
  ASSUME NEW S, NEW t \in Seq(S), NEW u \in Seq(S), NEW w
  PROVE  Has(t \o u, w) <=> Has(t, w) \/ Has(u, w)
<1>1. PICK both \in Seq(S) : both = t \o u
  BY ConcatProperties
<1>2. /\ Len(t) \in Nat /\ Len(u) \in Nat /\ Len(both) = Len(t) + Len(u)
      /\ \A i \in 1..Len(t) + Len(u) : both[i] = IF i <= Len(t) THEN t[i] ELSE u[i - Len(t)]
      /\ DOMAIN both = 1..Len(t) + Len(u) /\ DOMAIN t = 1..Len(t) /\ DOMAIN u = 1..Len(u)
  BY <1>1, ConcatProperties, LenProperties
<1>3. ASSUME NEW i \in DOMAIN both PROVE both[i] = w => Has(t, w) \/ Has(u, w)
  <2>1. CASE i <= Len(t)
    BY <1>2, <2>1 DEF Has, ToSet
  <2>2. CASE ~(i <= Len(t))
    <3>1. i - Len(t) \in DOMAIN u /\ both[i] = u[i - Len(t)]
      BY <1>2, <2>2
    <3> QED BY <3>1 DEF Has, ToSet
  <2> QED BY <2>1, <2>2
<1>4. ASSUME NEW i \in DOMAIN t PROVE i \in DOMAIN both /\ both[i] = t[i]
  BY <1>2
<1>5. ASSUME NEW i \in DOMAIN u PROVE i + Len(t) \in DOMAIN both /\ both[i + Len(t)] = u[i]
  <2>1. i + Len(t) \in 1..Len(t) + Len(u) /\ ~(i + Len(t) <= Len(t)) /\ (i + Len(t)) - Len(t) = i
    BY <1>2
  <2> QED BY <1>2, <2>1
<1>6. Has(both, w) <=> Has(t, w) \/ Has(u, w)
  BY <1>3, <1>4, <1>5 DEF Has, ToSet
<1> QED BY <1>1, <1>6

(* What leads to a place has no token but the marks, the remote, and those  *)
(* of the names.                                                            *)
LEMMA EncodeHas ==
  ASSUME NEW remote \in Tokens, NEW names \in Seq(StorageNames),
         NEW w, Has(Encode(remote, Join(names, Slash)), w), w \notin {Slash, Colon}
  PROVE  w = remote \/ \E i \in DOMAIN names : Has(names[i], w)
<1>1. PICK path \in Seq(Tokens) : path = Join(names, Slash)
  <2>1. Join(names, Slash) \in Texts
    BY PathOfNames
  <2> QED BY <2>1, TextsAre
<1>2. Colon \in Tokens
  BY TextsAre
<1>3. PICK start \in Seq(Tokens) :
        /\ start = <<remote, Colon>> /\ Len(start) = 2
        /\ start[1] = remote /\ start[2] = Colon
  <2>1. /\ <<remote, Colon>> \in Seq(Tokens) /\ Len(<<remote, Colon>>) = 2
        /\ <<remote, Colon>>[1] = remote /\ <<remote, Colon>>[2] = Colon
    BY <1>2, Pair
  <2> QED BY <2>1
<1>4. Has(start, w) \/ Has(path, w)
  BY <1>1, <1>3, HasConcat DEF Encode
<1>5. Has(start, w) => w \in {remote, Colon}
  BY <1>3, LenProperties DEF Has, ToSet
<1>6. Has(path, w) => \E i \in DOMAIN names : Has(names[i], w)
  BY <1>1, PathOfNames
<1> QED BY <1>4, <1>5, <1>6

-----------------------------------------------------------------------------
(* The names a path leads through.                                          *)

LEMMA KeepType ==
  ASSUME NEW S, NEW kept \in Seq(S), NEW part \in S
  PROVE  Keep(kept, part) \in Seq(S)
BY AppendProperties DEF Keep

LEMMA NonEmptyType ==
  ASSUME NEW S, NEW parts \in Seq(S)
  PROVE  NonEmpty(parts) \in Seq(S)
<1> DEFINE P == {ps \in Seq(S) : NonEmpty(ps) \in Seq(S)}
<1>1. <<>> \in P
  BY NonEmptyEmpty, EmptySeq
<1>2. ASSUME NEW ps \in Seq(S), NEW p \in S, ps \in P PROVE Append(ps, p) \in P
  <2>1. NonEmpty(Append(ps, p)) = Keep(NonEmpty(ps), p)
    BY NonEmptyAppend
  <2>2. Append(ps, p) \in Seq(S)
    BY AppendProperties
  <2> QED BY <1>2, <2>1, <2>2, KeepType
<1> HIDE DEF P
<1>3. parts \in P
  BY <1>1, <1>2, ListInduction
<1> QED BY <1>3 DEF P

LEMMA NonEmptyConcat ==
  ASSUME NEW S, NEW A \in Seq(S), NEW B \in Seq(S)
  PROVE  NonEmpty(A \o B) = NonEmpty(A) \o NonEmpty(B)
<1> DEFINE P == {ps \in Seq(S) : NonEmpty(A \o ps) = NonEmpty(A) \o NonEmpty(ps)}
<1>1. <<>> \in P
  <2>1. A \o <<>> = A /\ NonEmpty(A) \o <<>> = NonEmpty(A)
    BY NonEmptyType, ConcatEmptySeq
  <2> QED BY <2>1, NonEmptyEmpty, EmptySeq
<1>2. ASSUME NEW ps \in Seq(S), NEW p \in S, ps \in P PROVE Append(ps, p) \in P
  <2>1. A \o Append(ps, p) = Append(A \o ps, p) /\ A \o ps \in Seq(S)
    BY ConcatAppend, ConcatProperties
  <2>2. NonEmpty(Append(A \o ps, p)) = Keep(NonEmpty(A \o ps), p)
    BY <2>1, NonEmptyAppend
  <2>3. NonEmpty(Append(ps, p)) = Keep(NonEmpty(ps), p)
    BY NonEmptyAppend
  <2>4. PICK a \in Seq(S) : a = NonEmpty(A)
    BY NonEmptyType
  <2>5. PICK b \in Seq(S) : b = NonEmpty(ps)
    BY NonEmptyType
  <2>6. Keep(a \o b, p) = a \o Keep(b, p)
    <3>1. a \o Append(b, p) = Append(a \o b, p)
      BY ConcatAppend
    <3> QED BY <3>1 DEF Keep
  <2>7. NonEmpty(A \o ps) = a \o b
    BY <1>2, <2>4, <2>5
  <2>8. NonEmpty(A \o Append(ps, p)) = NonEmpty(A) \o NonEmpty(Append(ps, p))
    BY <2>1, <2>2, <2>3, <2>4, <2>5, <2>6, <2>7
  <2> QED BY <2>8, AppendProperties
<1> HIDE DEF P
<1>3. B \in P
  BY <1>1, <1>2, ListInduction
<1> QED BY <1>3 DEF P

LEMMA NonEmptyAll ==
  ASSUME NEW S, Empty \notin S, NEW parts \in Seq(S)
  PROVE  NonEmpty(parts) = parts
<1> DEFINE P == {ps \in Seq(S) : NonEmpty(ps) = ps}
<1>1. <<>> \in P
  BY NonEmptyEmpty, EmptySeq
<1>2. ASSUME NEW ps \in Seq(S), NEW p \in S, ps \in P PROVE Append(ps, p) \in P
  <2>1. NonEmpty(Append(ps, p)) = Keep(NonEmpty(ps), p)
    BY NonEmptyAppend
  <2>2. Append(ps, p) \in Seq(S)
    BY AppendProperties
  <2> QED BY <1>2, <2>1, <2>2 DEF Keep
<1> HIDE DEF P
<1>3. parts \in P
  BY <1>1, <1>2, ListInduction
<1> QED BY <1>3 DEF P

LEMMA NamesType ==
  ASSUME NEW t \in Texts
  PROVE  Names(t) \in Seq(Texts)
<1>1. Split(t, Slash) \in Seq(Texts)
  BY SplitType DEF Texts
<1> QED BY <1>1, NonEmptyType DEF Names

LEMMA NamesOfEmpty == Names(Empty) = <<>>
<1>1. PICK nothing \in Texts : nothing = Empty
  BY TextsAre
<1>2. NonEmpty(<<nothing>>) = <<>>
  <2>1. <<nothing>> = Append(<<>>, nothing) /\ <<>> \in Seq(Texts)
    BY Single, EmptySeq
  <2>2. NonEmpty(Append(<<>>, nothing)) = Keep(NonEmpty(<<>>), nothing)
    BY <2>1, NonEmptyAppend
  <2> QED BY <1>1, <2>1, <2>2, NonEmptyEmpty DEF Keep
<1> QED BY <1>1, <1>2, SplitEmpty, TextsAre DEF Names

(* A slash between two paths puts the names of one below those of the other.*)
LEMMA NamesConcat ==
  ASSUME NEW t \in Texts, NEW u \in Texts
  PROVE  Names(t \o <<Slash>> \o u) = Names(t) \o Names(u)
<1>1. PICK T : T = Seq(Tokens)
  OBVIOUS
<1>2. PICK A \in Seq(T) : A = Split(t, Slash)
  BY <1>1, SplitType DEF Texts
<1>3. PICK B \in Seq(T) : B = Split(u, Slash)
  BY <1>1, SplitType DEF Texts
<1>4. Split(t \o <<Slash>> \o u, Slash) = A \o B
  <2>1. Slash \in Tokens /\ t \in Seq(Tokens) /\ u \in Seq(Tokens)
    BY TextsAre
  <2>2. Append(t, Slash) = t \o <<Slash>>
    BY <2>1, AppendIsConcat
  <2>3. Split(Append(t, Slash) \o u, Slash) = Split(t, Slash) \o Split(u, Slash)
    BY <2>1, SplitConcat
  <2> QED BY <1>2, <1>3, <2>2, <2>3
<1>5. NonEmpty(A \o B) = NonEmpty(A) \o NonEmpty(B)
  BY NonEmptyConcat
<1> QED BY <1>2, <1>3, <1>4, <1>5 DEF Names

LEMMA NamesOfSlash ==
  ASSUME NEW t \in Texts
  PROVE  Names(<<Slash>> \o t) = Names(t)
<1>1. PICK nothing \in Texts : nothing = Empty
  BY TextsAre
<1>2. Names(nothing \o <<Slash>> \o t) = Names(nothing) \o Names(t)
  BY NamesConcat
<1>3. nothing \o <<Slash>> = <<Slash>>
  <2>1. <<Slash>> \in Seq(Tokens)
    BY TextsAre, Single
  <2> QED BY <1>1, <2>1, ConcatEmptySeq DEF Empty
<1>4. <<>> \o Names(t) = Names(t)
  BY NamesType, ConcatEmptySeq
<1> QED BY <1>1, <1>2, <1>3, <1>4, NamesOfEmpty

(* The path of a place leads to it.                                         *)
LEMMA NamesOfPath ==
  ASSUME NEW names \in Seq(StorageNames)
  PROVE  Names(Join(names, Slash)) = names
<1>1. CASE names = <<>>
  BY <1>1, JoinEmpty, NamesOfEmpty
<1>2. CASE names # <<>>
  <2>1. Split(Join(names, Slash), Slash) = names
    BY <1>2, PathOfNames
  <2>2. Empty \notin StorageNames
    BY DEF StorageNames
  <2>3. NonEmpty(names) = names
    BY <2>2, NonEmptyAll
  <2> QED BY <2>1, <2>3 DEF Names
<1> QED BY <1>1, <1>2

LEMMA NamesOfName ==
  ASSUME NEW name \in StorageNames
  PROVE  Names(name) = <<name>>
<1>1. <<name>> \in Seq(StorageNames) /\ <<name>> = Append(<<>>, name) /\ <<>> \in Seq(StorageNames)
  BY Single, EmptySeq
<1>2. Join(Append(<<>>, name), Slash) = name
  <2>1. Join(Append(<<>>, name), Slash) = AddPart(Join(<<>>, Slash), Len(<<>>) + 1, name, Slash)
    BY <1>1, JoinAppend
  <2>2. Len(<<>>) + 1 = 1
    BY <1>1, EmptySeq
  <2> QED BY <2>1, <2>2 DEF AddPart
<1> QED BY <1>1, <1>2, NamesOfPath

LEMMA NamesOfAppend ==
  ASSUME NEW t \in Texts
  PROVE  Names(Append(t, Slash)) = Names(t)
<1>1. PICK nothing \in Texts : nothing = Empty
  BY TextsAre
<1>2. Names(t \o <<Slash>> \o nothing) = Names(t) \o Names(nothing)
  BY NamesConcat
<1>3. t \o <<Slash>> \o nothing = Append(t, Slash)
  <2>1. t \in Seq(Tokens) /\ Slash \in Tokens
    BY TextsAre
  <2>2. Append(t, Slash) = t \o <<Slash>> /\ Append(t, Slash) \in Seq(Tokens)
    BY <2>1, AppendIsConcat, AppendProperties
  <2>3. Append(t, Slash) \o <<>> = Append(t, Slash)
    BY <2>2, ConcatEmptySeq
  <2> QED BY <1>1, <2>2, <2>3 DEF Empty
<1>4. Names(t) \o <<>> = Names(t)
  BY NamesType, ConcatEmptySeq
<1> QED BY <1>1, <1>2, <1>3, <1>4, NamesOfEmpty

-----------------------------------------------------------------------------
(* What the dialogs and uploads put together, by the names it leads through.*)

(* A set of numbers that is bounded has a greatest one.                     *)
LEMMA GreatestNumber ==
  ASSUME NEW N \in Nat, NEW M, M \subseteq 0..N, M # {}
  PROVE  \E n \in M : \A m \in M : m <= n
<1>1. \A m \in M : m \in Nat /\ m <= N /\ N - m \in Nat
  <2>1. \A m \in 0..N : m \in Nat /\ m <= N /\ N - m \in Nat
    OBVIOUS
  <2> QED BY <2>1
<1> DEFINE T == {N - m : m \in M}
<1>2. T \subseteq Nat /\ T # {}
  BY <1>1
<1>3. PICK t \in T : \A u \in T : t <= u
  BY <1>2, LeastNumber
<1>4. PICK n \in M : t = N - n
  OBVIOUS
<1>5. ASSUME NEW m \in M PROVE m <= n
  <2>1. t <= N - m
    BY <1>3
  <2>2. m \in Nat /\ n \in Nat
    BY <1>1
  <2> QED BY <1>4, <2>1, <2>2
<1> QED BY <1>5

(* Only marks are cut off.                                                  *)
LEMMA CutEndIs ==
  ASSUME NEW S, NEW text \in Seq(S), NEW mark
  PROVE  \E n \in 0..Len(text) : /\ CutEnd(text, mark) = SubSeq(text, 1, n)
                                 /\ \A i \in n + 1..Len(text) : text[i] = mark
<1> DEFINE N == Len(text)
           kept == {i \in DOMAIN text : text[i] # mark}
<1>1. N \in Nat /\ DOMAIN text = 1..N
  BY LenProperties
<1>2. CASE kept = {}
  <2>1. CutEnd(text, mark) = SubSeq(text, 1, 0)
    BY <1>2 DEF CutEnd
  <2>2. \A i \in 0 + 1..N : text[i] = mark
    BY <1>1, <1>2
  <2> QED BY <1>1, <2>1, <2>2
<1>3. CASE kept # {}
  <2>1. \E i \in kept : \A j \in kept : j <= i
    <3>1. kept \subseteq 0..N
      BY <1>1
    <3> HIDE DEF kept
    <3> QED BY <1>1, <1>3, <3>1, GreatestNumber
  <2>2. PICK n : n = CHOOSE i \in kept : \A j \in kept : j <= i
    OBVIOUS
  <2>3. n \in kept /\ \A j \in kept : j <= n
    BY <2>1, <2>2
  <2>4. CutEnd(text, mark) = SubSeq(text, 1, n)
    BY <1>3, <2>2 DEF CutEnd
  <2>5. \A i \in n + 1..N : text[i] = mark
    BY <1>1, <2>3
  <2> QED BY <1>1, <2>3, <2>4, <2>5
<1> QED BY <1>2, <1>3

LEMMA CutEndType ==
  ASSUME NEW S, NEW text \in Seq(S), NEW mark
  PROVE  CutEnd(text, mark) \in Seq(S)
BY CutEndIs, Prefix

LEMMA ReverseType ==
  ASSUME NEW S, NEW text \in Seq(S)
  PROVE  Reverse(text) \in Seq(S)
<1>1. Len(text) \in Nat /\ \A i \in 1..Len(text) : text[i] \in S
  BY LenProperties, ElementOfSeq
<1>2. \A i \in 1..Len(text) : Len(text) - i + 1 \in 1..Len(text)
  BY <1>1
<1>3. Reverse(text) \in [1..Len(text) -> S]
  BY <1>1, <1>2 DEF Reverse
<1> QED BY <1>1, <1>3, Listed

LEMMA TrimType ==
  ASSUME NEW text \in Texts
  PROVE  Trim(text) \in Texts
<1>1. PICK back \in Seq(Tokens) : back = CutEnd(Reverse(text), Blank)
  BY ReverseType, CutEndType DEF Texts
<1>2. CutEnd(Reverse(back), Blank) \in Seq(Tokens)
  BY ReverseType, CutEndType
<1> QED BY <1>1, <1>2 DEF Trim, Texts

(* Slashes at its end lead a path nowhere else.                             *)
LEMMA NamesOfCut ==
  ASSUME NEW text \in Texts
  PROVE  Names(CutEnd(text, Slash)) = Names(text)
<1>1. text \in Seq(Tokens)
  BY TextsAre
<1>2. PICK n \in 0..Len(text) : /\ CutEnd(text, Slash) = SubSeq(text, 1, n)
                                /\ \A i \in n + 1..Len(text) : text[i] = Slash
  BY <1>1, CutEndIs
<1> DEFINE P == {m \in Nat : n + m <= Len(text) =>
                   Names(SubSeq(text, 1, n + m)) = Names(SubSeq(text, 1, n))}
<1>3. 0 \in P
  BY <1>1, LenProperties
<1>4. ASSUME NEW m \in Nat, m \in P PROVE m + 1 \in P
  <2> SUFFICES ASSUME n + m + 1 <= Len(text)
               PROVE  Names(SubSeq(text, 1, n + m + 1)) = Names(SubSeq(text, 1, n))
    BY <1>1, LenProperties
  <2>1. /\ n + m \in 0..Len(text) /\ n + m < Len(text) /\ n + m + 1 \in n + 1..Len(text)
        /\ n + m <= Len(text)
    BY <1>1, LenProperties
  <2>2. PICK start \in Texts : start = SubSeq(text, 1, n + m)
    BY <1>1, <2>1, Prefix DEF Texts
  <2>3. SubSeq(text, 1, n + m + 1) = Append(start, Slash)
    BY <1>1, <1>2, <2>1, <2>2, Prefix
  <2>4. Names(Append(start, Slash)) = Names(start)
    BY NamesOfAppend
  <2> QED BY <1>4, <2>1, <2>2, <2>3, <2>4
<1> HIDE DEF P
<1>5. Nat \subseteq P
  BY <1>3, <1>4, NumberInduction
<1>6. Len(text) - n \in Nat /\ n + (Len(text) - n) = Len(text) /\ Len(text) <= Len(text)
  BY <1>1, LenProperties
<1>7. Names(SubSeq(text, 1, Len(text))) = Names(SubSeq(text, 1, n))
  BY <1>5, <1>6 DEF P
<1> QED BY <1>1, <1>2, <1>7, SubSeqFull

LEMMA Beneath ==
  ASSUME NEW t \in Texts, NEW u \in Texts
  PROVE  /\ t \o <<Slash>> \o u \in Texts
         /\ <<Slash>> \o u \in Texts
<1>1. PICK slash \in Seq(Tokens) : slash = <<Slash>>
  BY TextsAre, Single
<1>2. PICK s \in Seq(Tokens) : s = t \o slash
  BY ConcatProperties, TextsAre
<1>3. s \o u \in Seq(Tokens) /\ slash \o u \in Seq(Tokens)
  BY ConcatProperties, TextsAre
<1> QED BY <1>1, <1>2, <1>3, TextsAre

(* A path joined to another leads below it, whichever of the three ways the *)
(* code joins them.                                                         *)
THEOREM NamesOfJoined ==
  ASSUME NEW base \in Texts, NEW child \in Texts
  PROVE  /\ JoinRemotePath(base, child) \in Texts
         /\ Names(JoinRemotePath(base, child)) = Names(base) \o Names(child)
         /\ RenameTarget(base, child) \in Texts
         /\ Names(RenameTarget(base, child)) = Names(base) \o Names(child)
         /\ JoinPath(base, child) \in Texts
         /\ Names(JoinPath(base, child)) = Names(base) \o Names(child)
<1>1. /\ <<>> \o Names(child) = Names(child) /\ Names(base) \o <<>> = Names(base)
      /\ Names(Empty) = <<>>
  BY NamesType, NamesOfEmpty, ConcatEmptySeq
<1>2. /\ base \o <<Slash>> \o child \in Texts
      /\ Names(base \o <<Slash>> \o child) = Names(base) \o Names(child)
  BY Beneath, NamesConcat
<1>3. /\ <<Slash>> \o child \in Texts
      /\ Names(<<Slash>> \o child) = Names(child)
  BY Beneath, NamesOfSlash
<1>4. Names(<<Slash>>) = <<>>
  <2>1. PICK nothing \in Texts : nothing = Empty
    BY TextsAre
  <2>2. Names(Append(nothing, Slash)) = Names(nothing)
    BY NamesOfAppend
  <2>3. Append(nothing, Slash) = <<Slash>>
    BY <2>1 DEF Empty
  <2> QED BY <1>1, <2>1, <2>2, <2>3
<1>5. CASE base = Empty
  BY <1>1, <1>2, <1>3, <1>5 DEF JoinRemotePath, RenameTarget, JoinPath
<1>6. CASE base # Empty
  <2>1. /\ JoinRemotePath(base, child) \in Texts
        /\ Names(JoinRemotePath(base, child)) = Names(base) \o Names(child)
    BY <1>1, <1>2, <1>6 DEF JoinRemotePath
  <2>2. RenameTarget(base, child) = base \o <<Slash>> \o child
    BY <1>6 DEF RenameTarget
  <2>3. CASE base = <<Slash>>
    <3>1. JoinPath(base, child) = <<Slash>> \o child
      BY <2>3 DEF JoinPath
    <3>2. Names(base) = <<>>
      BY <1>4, <2>3
    <3> QED BY <1>1, <1>2, <1>3, <2>1, <2>2, <3>1, <3>2
  <2>4. CASE base # <<Slash>>
    <3>1. JoinPath(base, child) = base \o <<Slash>> \o child
      BY <1>6, <2>4 DEF JoinPath
    <3> QED BY <1>2, <2>1, <2>2, <3>1
  <2> QED BY <2>3, <2>4
<1> QED BY <1>5, <1>6

(* The file of an upload and the directory it goes to lead where its path   *)
(* in the folder does.                                                      *)
LEMMA NamesOfUpload ==
  ASSUME NEW relative \in Texts, Last(Split(relative, Slash)) # Empty
  PROVE  /\ TargetDirectory(relative) \in Texts
         /\ Last(Split(relative, Slash)) \in StorageNames
         /\ Names(relative) = Append(Names(TargetDirectory(relative)), Last(Split(relative, Slash)))
<1>1. PICK T : T = Seq(Tokens)
  OBVIOUS
<1>2. relative \in Seq(Tokens) /\ Slash \in Tokens /\ Texts = T
  BY <1>1, TextsAre
<1>3. PICK parts \in Seq(T) : parts = Split(relative, Slash) /\ parts # <<>>
  BY <1>1, <1>2, SplitType
<1>4. PICK dirs \in Seq(T), name \in T : parts = Append(dirs, name)
  BY <1>3, SequenceEmptyOrAppend
<1>5. Front(parts) = dirs /\ Last(parts) = name /\ Len(parts) = Len(dirs) + 1 /\ Len(dirs) \in Nat
      /\ \A i \in 1..Len(dirs) : parts[i] = dirs[i]
  BY <1>4, FrontOfAppend, AppendProperties, LenProperties
<1>6. \A i \in 1..Len(parts) : ~Has(parts[i], Slash)
  BY <1>2, <1>3, SplitParts
<1>7. ~Has(name, Slash) /\ \A i \in 1..Len(dirs) : ~Has(dirs[i], Slash)
  <2>1. Len(parts) \in 1..Len(parts) /\ \A i \in 1..Len(dirs) : i \in 1..Len(parts)
    BY <1>5
  <2>2. name = parts[Len(parts)]
    BY <1>5 DEF Last
  <2> QED BY <1>5, <1>6, <2>1, <2>2
<1>8. name \in StorageNames /\ name # Empty
  BY <1>2, <1>3, <1>5, <1>7 DEF StorageNames
<1>9. TargetDirectory(relative) = Join(dirs, Slash) /\ Join(dirs, Slash) \in Texts
  BY <1>1, <1>2, <1>3, <1>5, JoinType DEF TargetDirectory
<1>10. Names(Join(dirs, Slash)) = NonEmpty(dirs)
  <2>1. CASE dirs = <<>>
    BY <2>1, JoinEmpty, NamesOfEmpty, NonEmptyEmpty
  <2>2. CASE dirs # <<>>
    <3>1. Split(Join(dirs, Slash), Slash) = dirs
      BY <1>1, <1>2, <1>7, <2>2, SplitJoin
    <3> QED BY <3>1 DEF Names
  <2> QED BY <2>1, <2>2
<1>11. Names(relative) = Append(NonEmpty(dirs), name)
  <2>1. NonEmpty(Append(dirs, name)) = Keep(NonEmpty(dirs), name)
    BY NonEmptyAppend
  <2> QED BY <1>3, <1>4, <1>8, <2>1 DEF Names, Keep
<1> QED BY <1>3, <1>5, <1>8, <1>9, <1>10, <1>11

-----------------------------------------------------------------------------
(* Where rclone is led to.                                                  *)

LEMMA JoinOne ==
  ASSUME NEW a \in Texts
  PROVE  Join(<<a>>, Slash) = a
<1>1. <<>> \in Seq(Texts) /\ <<a>> = Append(<<>>, a)
  BY Single, EmptySeq
<1>2. Join(Append(<<>>, a), Slash) = AddPart(Join(<<>>, Slash), Len(<<>>) + 1, a, Slash)
  BY <1>1, JoinAppend
<1>3. Len(<<>>) + 1 = 1
  BY <1>1, EmptySeq
<1> QED BY <1>1, <1>2, <1>3 DEF AddPart

LEMMA PairAppend ==
  ASSUME NEW S, NEW a \in S, NEW b \in S, NEW c \in S
  PROVE  /\ <<a, b>> \in Seq(S)
         /\ <<a, b>> = Append(<<a>>, b)
         /\ <<a, b, c>> = Append(<<a, b>>, c)
<1>1. /\ <<a>> \in Seq(S) /\ Len(<<a>>) = 1 /\ <<a>>[1] = a
      /\ <<a, b>> \in Seq(S) /\ Len(<<a, b>>) = 2 /\ <<a, b>>[1] = a /\ <<a, b>>[2] = b
  BY Single, Pair
<1>2. PICK one \in Seq(S) : one = <<a>>
  BY <1>1
<1>3. PICK two \in Seq(S) : two = <<a, b>>
  BY <1>1
<1>4. /\ Append(one, b) \in Seq(S) /\ Len(Append(one, b)) = 2
      /\ Append(one, b)[1] = a /\ Append(one, b)[2] = b
  <2>1. /\ Len(Append(one, b)) = Len(one) + 1
        /\ \A i \in 1..Len(one) : Append(one, b)[i] = one[i]
        /\ Append(one, b)[Len(one) + 1] = b
        /\ Append(one, b) \in Seq(S)
    BY AppendProperties
  <2> QED BY <1>1, <1>2, <2>1
<1>5. two = Append(one, b)
  <2>1. Len(two) = 2 /\ two[1] = a /\ two[2] = b
    BY <1>1, <1>3
  <2>2. \A i \in 1..2 : two[i] = Append(one, b)[i]
    BY <1>4, <2>1
  <2> QED BY <1>4, <2>1, <2>2, SeqEqual
<1>6. /\ <<a, b, c>> \in [1..3 -> S]
      /\ <<a, b, c>>[1] = a /\ <<a, b, c>>[2] = b /\ <<a, b, c>>[3] = c
  OBVIOUS
<1>7. PICK three \in Seq(S) : three = <<a, b, c>>
  BY <1>6, Listed
<1>8. Len(three) = 3 /\ three[1] = a /\ three[2] = b /\ three[3] = c
  BY <1>6, <1>7, LenProperties
<1>9. /\ Append(two, c) \in Seq(S) /\ Len(Append(two, c)) = 3
      /\ Append(two, c)[1] = a /\ Append(two, c)[2] = b /\ Append(two, c)[3] = c
  <2>1. /\ Len(Append(two, c)) = Len(two) + 1
        /\ \A i \in 1..Len(two) : Append(two, c)[i] = two[i]
        /\ Append(two, c)[Len(two) + 1] = c
        /\ Append(two, c) \in Seq(S)
    BY AppendProperties
  <2> QED BY <1>1, <1>3, <2>1
<1>10. three = Append(two, c)
  <2>1. \A i \in 1..3 : three[i] = Append(two, c)[i]
    BY <1>8, <1>9
  <2> QED BY <1>8, <1>9, <2>1, SeqEqual
<1> QED BY <1>1, <1>2, <1>3, <1>5, <1>7, <1>10

(* What follows the remote and its colon.                                   *)
LEMMA AfterRemote ==
  ASSUME NEW remote \in Tokens, NEW rest \in Texts
  PROVE  LET full == <<remote, Colon>> \o rest
         IN  /\ full \in Texts /\ Head(full) = remote
             /\ SubSeq(full, 3, Len(full)) = rest
<1>1. Colon \in Tokens
  BY TextsAre
<1>2. PICK start \in Seq(Tokens) : start = <<remote, Colon>> /\ Len(start) = 2 /\ start[1] = remote
  <2>1. /\ <<remote, Colon>> \in Seq(Tokens) /\ Len(<<remote, Colon>>) = 2
        /\ <<remote, Colon>>[1] = remote
    BY <1>1, Pair
  <2> QED BY <2>1
<1>3. PICK full \in Seq(Tokens) : full = start \o rest
  BY TextsAre, ConcatProperties
<1>4. /\ Len(rest) \in Nat /\ Len(full) = 2 + Len(rest)
      /\ \A i \in 1..2 + Len(rest) : full[i] = IF i <= 2 THEN start[i] ELSE rest[i - 2]
  BY <1>2, <1>3, TextsAre, ConcatProperties, LenProperties
<1>5. full # <<>> /\ Head(full) = full[1] /\ full[1] = remote
  <2>1. full # <<>>
    BY <1>4, EmptySeq
  <2>2. 1 \in 1..2 + Len(rest)
    BY <1>4
  <2> QED BY <1>2, <1>4, <2>1, <2>2, HeadTailProperties
<1>6. SubSeq(full, 3, Len(full)) = rest
  <2>1. \A i \in 3..Len(full) : full[i] \in Tokens
    <3>1. \A i \in 3..Len(full) : i \in 1..Len(full)
      BY <1>4
    <3>2. \A i \in 1..Len(full) : full[i] \in Tokens
      BY ElementOfSeq
    <3> QED BY <3>1, <3>2
  <2>2. /\ SubSeq(full, 3, Len(full)) \in Seq(Tokens)
        /\ Len(SubSeq(full, 3, Len(full))) = IF 3 <= Len(full) THEN Len(full) - 3 + 1 ELSE 0
        /\ \A i \in 1..Len(full) - 3 + 1 : SubSeq(full, 3, Len(full))[i] = full[3 + i - 1]
    <3>1. 3 \in 1..Len(full) + 1 /\ Len(full) \in Int
      BY <1>4
    <3> QED BY <2>1, <3>1, SubSeqProperties
  <2>3. PICK end : end = SubSeq(full, 3, Len(full))
    OBVIOUS
  <2>4. /\ end \in Seq(Tokens)
        /\ Len(end) = IF 3 <= Len(full) THEN Len(full) - 3 + 1 ELSE 0
        /\ \A i \in 1..Len(full) - 3 + 1 : end[i] = full[3 + i - 1]
    BY <2>2, <2>3
  <2>5. Len(end) = Len(rest) /\ Len(full) - 3 + 1 = Len(rest)
    BY <1>4, <2>4
  <2>6. \A i \in 1..Len(rest) : end[i] = full[i + 2]
    BY <1>4, <2>4, <2>5
  <2>7. \A i \in 1..Len(rest) : full[i + 2] = rest[i]
    BY <1>4
  <2>8. end = rest
    BY <2>7, <2>4, <2>5, <2>6, TextsAre, SeqEqual
  <2> QED BY <2>3, <2>8
<1> QED BY <1>2, <1>3, <1>5, <1>6, TextsAre

LEMMA JoinBelow ==
  ASSUME NEW parts \in Seq(Texts), NEW part \in Texts, parts # <<>>
  PROVE  /\ Join(Append(parts, part), Slash) = Join(parts, Slash) \o <<Slash>> \o part
         /\ Append(parts, part) \in Seq(Texts) /\ Append(parts, part) # <<>>
<1>1. Join(Append(parts, part), Slash) = Join(parts, Slash) \o <<Slash>> \o part
  BY TextsAre, JoinMore
<1> QED BY <1>1, AppendProperties

Regrouped(a, b, c, d) ==
  \E bc : bc = b \o c /\ (a \o b) \o c = a \o bc /\ (a \o bc) \o d = a \o (bc \o d)

LEMMA Regroup ==
  ASSUME NEW S, NEW a \in Seq(S), NEW b \in Seq(S), NEW c \in Seq(S), NEW d \in Seq(S)
  PROVE  Regrouped(a, b, c, d)
<1>1. PICK bc \in Seq(S) : bc = b \o c
  BY ConcatProperties
<1>2. (a \o b) \o c = a \o bc
  BY <1>1, ConcatAssociative
<1>3. (a \o bc) \o d = a \o (bc \o d)
  BY ConcatAssociative
<1> QED BY <1>1, <1>2, <1>3 DEF Regrouped

(* What rclone makes of the texts a call names a place by: a file system of *)
(* its own, one and a path in it, or one, a directory and a name.           *)
THEOREM Leads ==
  ASSUME NEW remote \in Tokens, NEW path \in Texts, NEW name \in Texts
  PROVE  /\ RclonePlace(<<Fs(remote, path)>>) = [remote |-> remote, names |-> Names(path)]
         /\ RclonePlace(<<Fs(remote, Empty), path>>)
              = [remote |-> remote, names |-> Names(path)]
         /\ RclonePlace(<<Fs(remote, Empty), path, name>>)
              = [remote |-> remote, names |-> Names(path) \o Names(name)]
         /\ RclonePlace(<<>>) = Nowhere
<1>1. ASSUME NEW rest \in Texts, NEW texts, texts # <<>>, Join(texts, Slash) = Fs(remote, rest)
      PROVE  RclonePlace(texts) = [remote |-> remote, names |-> Names(rest)]
  <2>1. PICK full : full = <<remote, Colon>> \o rest
    OBVIOUS
  <2>2. Join(texts, Slash) = full
    BY <1>1, <2>1 DEF Fs
  <2>3. Head(full) = remote /\ SubSeq(full, 3, Len(full)) = rest
    BY <2>1, AfterRemote
  <2> QED BY <1>1, <2>2, <2>3 DEF RclonePlace
<1>2. PICK s \in Texts : s = <<Slash>>
  BY TextsAre, Single
<1>3. PICK fs \in Texts : fs = <<remote, Colon>>
  BY TextsAre, Pair
<1>4. Fs(remote, Empty) = fs /\ \A rest \in Texts : Fs(remote, rest) = fs \o rest
  BY <1>3, TextsAre, ConcatEmptySeq DEF Fs
<1>5. PICK sp \in Texts : sp = s \o path /\ Names(sp) = Names(path)
  BY <1>2, Beneath, NamesOfSlash
<1>6. PICK spn \in Texts : spn = sp \o s \o name /\ Names(spn) = Names(sp) \o Names(name)
  BY <1>2, Beneath, NamesConcat
<1>7. /\ fs \in Seq(Tokens) /\ s \in Seq(Tokens) /\ sp \in Seq(Tokens)
       /\ path \in Seq(Tokens) /\ name \in Seq(Tokens)
  BY TextsAre
<1>8. RclonePlace(<<Fs(remote, path)>>) = [remote |-> remote, names |-> Names(path)]
  <2>1. PICK f \in Texts : f = Fs(remote, path)
    BY AfterRemote DEF Fs
  <2>2. <<f>> # <<>> /\ Join(<<f>>, Slash) = f
    BY JoinOne, Single
  <2> QED BY <1>1, <2>1, <2>2
<1>9. PICK one \in Seq(Texts) : one = <<fs>> /\ one # <<>> /\ Join(one, Slash) = fs
  BY JoinOne, Single
<1>10. PICK two \in Seq(Texts) : /\ two = <<fs, path>> /\ two # <<>>
                                /\ Join(two, Slash) = fs \o s \o path
  <2>1. <<fs, path>> \in Seq(Texts) /\ <<fs, path>> = Append(one, path)
    BY <1>9, PairAppend
  <2>2. /\ Join(Append(one, path), Slash) = Join(one, Slash) \o <<Slash>> \o path
        /\ Append(one, path) # <<>>
    BY <1>9, JoinBelow
  <2> QED BY <1>2, <1>9, <2>1, <2>2
<1>11. PICK three : /\ three = <<fs, path, name>> /\ three # <<>>
                    /\ Join(three, Slash) = fs \o s \o path \o s \o name
  <2>1. <<fs, path, name>> = Append(two, name)
    <3>1. <<fs, path, name>> = Append(<<fs, path>>, name)
      BY PairAppend
    <3> QED BY <1>10, <3>1
  <2>2. /\ Join(Append(two, name), Slash) = Join(two, Slash) \o <<Slash>> \o name
        /\ Append(two, name) # <<>>
    BY <1>10, JoinBelow
  <2> QED BY <1>2, <1>10, <2>1, <2>2
<1>12. fs \o s \o path = fs \o sp
  BY <1>5, <1>7, ConcatAssociative
<1>13. fs \o s \o path \o s \o name = fs \o spn
  <2>1. Regrouped(fs, sp, s, name)
    BY <1>7, Regroup
  <2>2. PICK sps : /\ sps = sp \o s /\ (fs \o sp) \o s = fs \o sps
                   /\ (fs \o sps) \o name = fs \o (sps \o name)
    BY <2>1 DEF Regrouped
  <2>3. spn = sps \o name
    BY <1>6, <2>2
  <2> QED BY <1>12, <2>2, <2>3
<1>14. RclonePlace(two) = [remote |-> remote, names |-> Names(path)]
  BY <1>1, <1>4, <1>5, <1>10, <1>12
<1>15. RclonePlace(three) = [remote |-> remote, names |-> Names(path) \o Names(name)]
  <2>1. Join(three, Slash) = Fs(remote, spn)
    BY <1>4, <1>11, <1>13
  <2>2. RclonePlace(three) = [remote |-> remote, names |-> Names(spn)]
    BY <1>1, <1>11, <2>1
  <2> QED BY <1>5, <1>6, <2>2
<1>16. RclonePlace(<<>>) = Nowhere
  BY DEF RclonePlace
<1> QED BY <1>4, <1>8, <1>10, <1>11, <1>14, <1>15, <1>16

(* The path of a place is that of its folder and its name.                  *)
LEMMA PathOfItem ==
  ASSUME NEW names \in Seq(StorageNames), names # <<>>
  PROVE  /\ Front(names) \in Seq(StorageNames) /\ Last(names) \in StorageNames
         /\ names = Front(names) \o <<Last(names)>>
         /\ JoinRemotePath(Join(Front(names), Slash), Last(names)) = Join(names, Slash)
<1>1. PICK dirs \in Seq(StorageNames), name \in StorageNames : names = Append(dirs, name)
  BY SequenceEmptyOrAppend
<1>2. Front(names) = dirs /\ Last(names) = name
  BY <1>1, FrontOfAppend
<1>3. name # Empty /\ name \in Seq(Tokens) /\ Texts = Seq(Tokens) /\ StorageNames \subseteq Texts
  BY TextsAre DEF StorageNames
<1>4. dirs \in Seq(Seq(Tokens))
  BY <1>3, SeqMonotonic
<1>5. Join(Append(dirs, name), Slash) = IF dirs = <<>> THEN name
                                        ELSE Join(dirs, Slash) \o <<Slash>> \o name
  BY <1>3, <1>4, JoinMore
<1>6. Join(dirs, Slash) = Empty <=> dirs = <<>>
  BY PathOfNames
<1>7. names = dirs \o <<name>>
  BY <1>1, AppendIsConcat
<1> QED BY <1>1, <1>2, <1>3, <1>5, <1>6, <1>7 DEF JoinRemotePath

-----------------------------------------------------------------------------
(* The sort of the table, for every list of rows.                           *)

(* The comparison is an order of rows, but for ties.                        *)
LEMMA KeyIsNumber ==
  ASSUME NEW a, IsRow(a), NEW sort \in SortConfigs
  PROVE  SortKey(a, sort) \in Int
<1>1. sort.field \in {"none"} \cup SortFields
  BY DEF SortConfigs, NoSort
<1> QED BY <1>1, RanksAreNumbers DEF SortKey, IsRow, SortFields

LEMMA BeforeIsAnOrder ==
  ASSUME NEW a, NEW b, NEW c, IsRow(a), IsRow(b), IsRow(c), NEW sort \in SortConfigs
  PROVE  /\ ~Before(a, a, sort)
         /\ Before(a, b, sort) => ~Before(b, a, sort)
         /\ Before(a, b, sort) /\ Before(b, c, sort) => Before(a, c, sort)
         /\ ~Before(a, b, sort) /\ ~Before(b, c, sort) => ~Before(a, c, sort)
<1>1. /\ SortKey(a, sort) \in Int /\ SortKey(b, sort) \in Int /\ SortKey(c, sort) \in Int
  BY KeyIsNumber
<1>2. a.isDir \in BOOLEAN /\ b.isDir \in BOOLEAN /\ c.isDir \in BOOLEAN
  BY DEF IsRow
<1> QED BY <1>1, <1>2 DEF Before

(* Ties broken by the server's order, it is a total one.                    *)
LEMMA AheadIsTotal ==
  ASSUME NEW rows, NEW n \in Nat, DOMAIN rows = 1..n,
         \A i \in 1..n : IsRow(rows[i]), NEW sort \in SortConfigs
  PROVE  /\ \A i \in 1..n : ~Ahead(rows, sort, i, i)
         /\ \A i, j \in 1..n : i # j =>
              Ahead(rows, sort, i, j) \/ Ahead(rows, sort, j, i)
         /\ \A i, j, k \in 1..n :
              Ahead(rows, sort, i, j) /\ Ahead(rows, sort, j, k) => Ahead(rows, sort, i, k)
<1>1. \A i, j, k \in 1..n :
        /\ ~Before(rows[i], rows[i], sort)
        /\ Before(rows[i], rows[j], sort) => ~Before(rows[j], rows[i], sort)
        /\ Before(rows[i], rows[j], sort) /\ Before(rows[j], rows[k], sort)
             => Before(rows[i], rows[k], sort)
        /\ ~Before(rows[i], rows[j], sort) /\ ~Before(rows[j], rows[k], sort)
             => ~Before(rows[i], rows[k], sort)
  BY BeforeIsAnOrder
<1> QED BY <1>1 DEF Ahead

(* Where the row i goes: a place of its own, before those it is ahead of.   *)
LEMMA PlacesOfRows ==
  ASSUME NEW rows, NEW n \in Nat, DOMAIN rows = 1..n,
         \A i \in 1..n : IsRow(rows[i]), NEW sort \in SortConfigs
  PROVE  /\ \A i \in 1..n : Place(rows, sort, i) \in 1..n
         /\ \A i, j \in 1..n : Ahead(rows, sort, i, j)
              => Place(rows, sort, i) < Place(rows, sort, j)
<1> DEFINE Those(j) == {i \in 1..n : Ahead(rows, sort, i, j)}
<1>1. IsFiniteSet(1..n) /\ Cardinality(1..n) = n
  BY FS_Interval
<1>2. \A j \in 1..n : IsFiniteSet(Those(j)) /\ Cardinality(Those(j)) \in Nat
  BY <1>1, FS_Subset, FS_CardinalityType
<1>3. ASSUME NEW j \in 1..n PROVE Cardinality(Those(j)) <= n - 1
  <2>1. Those(j) \subseteq (1..n) \ {j}
    BY AheadIsTotal
  <2>2. IsFiniteSet((1..n) \ {j}) /\ Cardinality((1..n) \ {j}) = n - 1
    BY <1>1, FS_RemoveElement
  <2> QED BY <2>1, <2>2, FS_Subset
<1>4. ASSUME NEW i \in 1..n, NEW j \in 1..n, Ahead(rows, sort, i, j)
      PROVE  Cardinality(Those(i)) + 1 <= Cardinality(Those(j))
  <2>1. Those(i) \cup {i} \subseteq Those(j) /\ i \notin Those(i)
    BY <1>4, AheadIsTotal
  <2>2. Cardinality(Those(i) \cup {i}) = Cardinality(Those(i)) + 1
    BY <1>2, <2>1, FS_AddElement
  <2> QED BY <1>2, <2>1, <2>2, FS_Subset
<1>5. \A j \in 1..n : Place(rows, sort, j) = 1 + Cardinality(Those(j))
  BY DEF Place
<1> HIDE DEF Those
<1>6. ASSUME NEW j \in 1..n PROVE Place(rows, sort, j) \in 1..n
  <2>1. /\ Cardinality(Those(j)) \in Nat /\ Cardinality(Those(j)) <= n - 1
        /\ Place(rows, sort, j) = 1 + Cardinality(Those(j))
    BY <1>2, <1>3, <1>5
  <2> QED BY <2>1
<1>7. ASSUME NEW i \in 1..n, NEW j \in 1..n, Ahead(rows, sort, i, j)
      PROVE  Place(rows, sort, i) < Place(rows, sort, j)
  BY <1>2, <1>4, <1>5, <1>7
<1> QED BY <1>6, <1>7

(* The sort of the table rearranges the rows: every row is shown once, each *)
(* before those it is ahead of, whatever list the server sends and whatever *)
(* column and direction is chosen.                                          *)
THEOREM SortedRowsInOrder ==
  ASSUME NEW rows, NEW n \in Nat, DOMAIN rows = 1..n,
         \A i \in 1..n : IsRow(rows[i]), NEW sort \in SortConfigs
  PROVE  \E from \in Bijection(1..n, 1..n) :
           /\ SortedRows(rows, sort) = [k \in 1..n |-> rows[from[k]]]
           /\ \A k, l \in 1..n : k < l => Ahead(rows, sort, from[k], from[l])
<1> DEFINE place == [j \in 1..n |-> Place(rows, sort, j)]
           from == [k \in DOMAIN rows |->
                      CHOOSE j \in DOMAIN rows : Place(rows, sort, j) = k]
<1>1. \A i, j \in 1..n : i # j => place[i] # place[j]
  BY PlacesOfRows, AheadIsTotal
<1>2. place \in Injection(1..n, 1..n)
  BY <1>1, PlacesOfRows DEF Injection, IsInjective
<1>3. IsFiniteSet(1..n)
  BY FS_Interval
<1>4. place \in Surjection(1..n, 1..n)
  BY <1>2, <1>3, FS_Injection
<1>5. \A k \in 1..n : from[k] \in 1..n /\ place[from[k]] = k
  <2>1. \A k \in 1..n : \E j \in 1..n : place[j] = k
    BY <1>4 DEF Surjection
  <2> QED BY <2>1
<1>6. from \in Bijection(1..n, 1..n)
  <2>1. from \in [1..n -> 1..n]
    BY <1>5
  <2>2. \A k, l \in 1..n : from[k] = from[l] => k = l
    BY <1>5
  <2>3. \A j \in 1..n : place[j] \in 1..n
    BY PlacesOfRows
  <2>4. \A j \in 1..n : from[place[j]] = j
    BY <1>1, <1>5, <2>3
  <2> QED BY <2>1, <2>2, <2>3, <2>4 DEF Bijection, Injection, Surjection, IsInjective
<1>7. ASSUME NEW k \in 1..n, NEW l \in 1..n, k < l
      PROVE  Ahead(rows, sort, from[k], from[l])
  <2>1. \A j \in 1..n : place[j] = Place(rows, sort, j)
    OBVIOUS
  <2> HIDE DEF place, from
  <2>2. /\ from[k] \in 1..n /\ from[l] \in 1..n /\ from[k] # from[l]
        /\ Place(rows, sort, from[k]) = k /\ Place(rows, sort, from[l]) = l
    BY <1>5, <1>7, <2>1
  <2>3. ~Ahead(rows, sort, from[l], from[k])
    <3>1. Ahead(rows, sort, from[l], from[k])
            => Place(rows, sort, from[l]) < Place(rows, sort, from[k])
      BY <2>2, PlacesOfRows
    <3> QED BY <1>7, <2>2, <3>1
  <2> QED BY <2>2, <2>3, AheadIsTotal
<1>8. SortedRows(rows, sort) = [k \in 1..n |-> rows[from[k]]]
  BY DEF SortedRows
<1> QED BY <1>6, <1>7, <1>8
=============================================================================
