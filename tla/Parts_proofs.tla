----------------------------- MODULE Parts_proofs -----------------------------
(***************************************************************************)
(* Proofs about the small parts: the router, for any number of servers and *)
(* languages; the text of a document, for texts and changes of any length; *)
(* the bridge, for any number of requests and of lives; the configuration, *)
(* for any contents of the files, any number of changes and of loads.      *)
(***************************************************************************)
EXTENDS Router, TextEdits, Bridge, Configuration,
        FiniteSetTheorems, WellFoundedInduction, TLAPS

-----------------------------------------------------------------------------
(* A set of naturals that is not empty has a least element: with it the       *)
(* recursive function of TextEdits is treated without an induction over an    *)
(* operator.                                                                  *)

LEMMA LeastElement ==
  ASSUME NEW T \in SUBSET Nat, T # {}
  PROVE  \E x \in T : \A y \in T : x <= y
<1> DEFINE R == OpToRel(<, Nat)
<1>1. IsWellFoundedOn(R, Nat)
  BY NatLessThanWellFounded
<1>2. \A x, y \in Nat : y < x => <<y, x>> \in R
  BY DEF OpToRel
<1> HIDE DEF R
<1>3. PICK x \in T : \A y \in T : ~(<<y, x>> \in R)
  BY <1>1, WFMin
<1>4. ASSUME NEW y \in T PROVE x <= y
  <2>1. ~(y < x)
    BY <1>2, <1>3
  <2>2. x \in Nat /\ y \in Nat
    OBVIOUS
  <2> QED BY <2>1, <2>2
<1> QED BY <1>3, <1>4

-----------------------------------------------------------------------------
(* The router. *)

LEMMA ConfigTyped ==
  ASSUME RouterInit, NEW n \in 1..N
  PROVE  config[n] \in Seq(Entries) /\ Len(config[n]) \in 0..Cardinality(Languages)
<1>1. Cardinality(Languages) \in Nat
  BY RouterAssumption, FS_CardinalityType
<1>2. config[n] \in BoundedSeq(Entries, Cardinality(Languages))
  BY DEF RouterInit, ServerConfigs
<1>3. PICK m \in 0..Cardinality(Languages) : config[n] \in [1..m -> Entries]
  BY <1>2 DEF BoundedSeq, SeqOf
<1> QED BY <1>1, <1>3

(* In a list of claims one comes first. *)
LEMMA SomeClaimIsFirst ==
  ASSUME NEW claims \in SUBSET (Nat \X Nat), claims # {}
  PROVE  FirstOf(claims) \in claims
<1> DEFINE servers == {n \in Nat : \E j \in Nat : <<n, j>> \in claims}
<1>1. PICK n \in servers : \A m \in servers : n <= m
  <2>1. servers \in SUBSET Nat /\ servers # {}
    OBVIOUS
  <2> HIDE DEF servers
  <2> QED BY <2>1, LeastElement
<1> DEFINE places == {j \in Nat : <<n, j>> \in claims}
<1>2. PICK j \in places : \A k \in places : j <= k
  <2>1. places \in SUBSET Nat /\ places # {}
    BY <1>1
  <2> HIDE DEF places
  <2> QED BY <2>1, LeastElement
<1>3. <<n, j>> \in claims
  BY <1>2
<1>4. ASSUME NEW d \in claims PROVE n < d[1] \/ (n = d[1] /\ j <= d[2])
  <2>1. d = <<d[1], d[2]>> /\ d[1] \in Nat /\ d[2] \in Nat
    OBVIOUS
  <2>2. d[1] \in servers
    BY <2>1
  <2>3. n <= d[1] /\ n \in Nat
    BY <1>1, <2>2
  <2>4. CASE n = d[1]
    <3>1. d[2] \in places
      BY <2>1, <2>4
    <3>2. j <= d[2]
      BY <1>2, <3>1
    <3> QED BY <2>4, <3>2
  <2> QED BY <2>1, <2>3, <2>4
<1> DEFINE First(c) == \A d \in claims : c[1] < d[1] \/ (c[1] = d[1] /\ c[2] <= d[2])
<1>5. First(<<n, j>>)
  BY <1>4
<1>6. FirstOf(claims) = CHOOSE c \in claims : First(c)
  BY DEF FirstOf
<1> HIDE DEF First
<1> QED BY <1>3, <1>5, <1>6

LEMMA RoutesFollowClaims == RouterInit => RoutedAsConfigured
<1> SUFFICES ASSUME RouterInit, NEW ext \in Extensions, Claims(ext) # {}, Agreed(ext)
             PROVE  ServersForUri(ext) = InConfigOrder({n \in 1..N : Handles(n, ext)})
  BY DEF RoutedAsConfigured
<1> DEFINE first == FirstOf(Claims(ext))
           lang == ExtToLang(ext)
<1>1. first \in Claims(ext)
  <2>1. Cardinality(Languages) \in Nat
    BY RouterAssumption, FS_CardinalityType
  <2>2. Claims(ext) \in SUBSET (Nat \X Nat)
    BY <2>1, RouterAssumption DEF Claims
  <2> QED BY <2>2, SomeClaimIsFirst
<1>2. lang = Entry(first).lang
  BY DEF ExtToLang
<1>3. lang \in Languages
  <2>1. /\ first[1] \in 1..N /\ first[2] \in 1..Cardinality(Languages)
        /\ first[2] <= Len(config[first[1]])
    BY <1>1 DEF Claims
  <2>2. config[first[1]] \in Seq(Entries) /\ Len(config[first[1]]) \in 0..Cardinality(Languages)
    BY <2>1, ConfigTyped
  <2> HIDE DEF first
  <2>3. Entry(first) \in Entries
    BY <2>1, <2>2 DEF Entry
  <2> QED BY <1>2, <2>3 DEF Entries
<1>4. lang # None /\ ext # None
  BY <1>3, RouterAssumption
<1>5. ServersForUri(ext) = InConfigOrder(ServersWith(lang))
  BY <1>4 DEF ServersForUri, LangToServers
<1> HIDE DEF lang
<1>6. \A n \in 1..N : \A j \in 1..Len(config[n]) : config[n][j].lang = lang <=> ext \in config[n][j].exts
  BY DEF Agreed, lang
<1>7. ServersWith(lang) = {n \in 1..N : Handles(n, ext)}
  BY <1>6 DEF ServersWith, Handles
<1> QED BY <1>5, <1>7

(* Where the servers agree on a language's extensions, a document goes to the
   servers that list its extension, in config order, for any configuration. The
   router is made once and never changes (router.ts:95-108). *)
THEOREM RoutesAreAsConfigured ==
  RouterInit /\ [][UNCHANGED config]_config => []RoutedAsConfigured
<1>1. RouterInit /\ [UNCHANGED config]_config => RouterInit'
  BY DEF RouterInit
<1> QED BY <1>1, RoutesFollowClaims, PTL

-----------------------------------------------------------------------------
(* The text of a document. *)

LEMMA LineStartsInText ==
  ASSUME NEW text \in Seq(Chars)
  PROVE  /\ LineStarts(text) \subseteq 0..Len(text)
         /\ 0 \in LineStarts(text)
         /\ IsFiniteSet(LineStarts(text))
<1>1. LineStarts(text) \subseteq 0..Len(text) /\ 0 \in LineStarts(text)
  BY DEF LineStarts
<1>2. IsFiniteSet(0..Len(text))
  BY FS_Interval
<1>3. IsFiniteSet(LineStarts(text))
  BY <1>1, <1>2, FS_Subset
<1> QED BY <1>1, <1>3

LEMMA StartsBeforeAreFinite ==
  ASSUME NEW text \in Seq(Chars), NEW o
  PROVE  /\ StartsBefore(text, o) \subseteq LineStarts(text)
         /\ IsFiniteSet(StartsBefore(text, o))
         /\ Cardinality(StartsBefore(text, o)) \in Nat
<1>1. StartsBefore(text, o) \in SUBSET LineStarts(text)
  BY DEF StartsBefore
<1> QED BY <1>1, LineStartsInText, FS_Subset, FS_CardinalityType

(* indexOf finds the first of the terminators left. *)
LEMMA FirstEolIsFirst ==
  ASSUME NEW text \in Seq(Chars), NEW r \in Nat,
         \E i \in (r + 1)..Len(text) : text[i] \in {"CR", "LF"}
  PROVE  /\ FirstEol(text, r) \in (r + 1)..Len(text)
         /\ text[FirstEol(text, r)] \in {"CR", "LF"}
         /\ \A i \in (r + 1)..Len(text) : text[i] \in {"CR", "LF"} => FirstEol(text, r) <= i
<1> DEFINE found == {i \in (r + 1)..Len(text) : text[i] \in {"CR", "LF"}}
<1>1. found # {} /\ found \in SUBSET Nat
  OBVIOUS
<1>2. FirstEol(text, r) = CHOOSE i \in found : \A j \in found : i <= j
  BY <1>1 DEF FirstEol
<1> HIDE DEF found
<1>3. \E i \in found : \A j \in found : i <= j
  BY <1>1, LeastElement
<1>4. FirstEol(text, r) \in found /\ \A j \in found : FirstEol(text, r) <= j
  BY <1>2, <1>3
<1> QED BY <1>4 DEF found

(* One turn of the loop goes to the next line, over CR LF as over CR or LF. *)
LEMMA NextLineIsNext ==
  ASSUME NEW text \in Seq(Chars), NEW r \in LineStarts(text), NEW q \in LineStarts(text),
         r < q, \A p \in LineStarts(text) : r < p => q <= p
  PROVE  NextLine(text, r) = q
<1> DEFINE e == FirstEol(text, r)
<1>1. r \in Nat /\ q \in (r + 1)..Len(text) /\ EndsLine(text, q) /\ text[q] \in {"CR", "LF"}
  BY LineStartsInText DEF LineStarts, EndsLine
<1>2. /\ e \in (r + 1)..Len(text) /\ text[e] \in {"CR", "LF"} /\ e <= q
  BY <1>1, FirstEolIsFirst
<1> HIDE DEF e
<1>3. NextLine(text, r) = AfterEol(text, e)
  BY <1>1, <1>2 DEF NextLine, PastEnd, Absent, e
<1>4. CASE text[e] = "CR" /\ e < Len(text) /\ text[e + 1] = "LF"
  <2>1. e + 1 \in LineStarts(text) /\ r < e + 1
    BY <1>1, <1>2, <1>4 DEF LineStarts, EndsLine
  <2>2. q <= e + 1
    BY <2>1
  <2>3. ~EndsLine(text, e)
    BY <1>2, <1>4 DEF EndsLine
  <2>4. q # e
    BY <1>1, <2>3
  <2>5. q = e + 1
    BY <1>1, <1>2, <2>2, <2>4
  <2> QED BY <1>3, <1>4, <2>5 DEF AfterEol
<1>5. CASE ~(text[e] = "CR" /\ e < Len(text) /\ text[e + 1] = "LF")
  <2>1. EndsLine(text, e)
    BY <1>2, <1>5 DEF EndsLine
  <2>2. e \in LineStarts(text) /\ r < e
    BY <1>1, <1>2, <2>1 DEF LineStarts
  <2>3. q <= e
    BY <2>2
  <2>4. q = e
    BY <1>1, <1>2, <2>3
  <2> QED BY <1>3, <1>5, <2>4 DEF AfterEol
<1> QED BY <1>4, <1>5

(* From the last line it finds that there is no other. *)
LEMMA LastLineIsLast ==
  ASSUME NEW text \in Seq(Chars), NEW r \in LineStarts(text), \A p \in LineStarts(text) : ~(r < p)
  PROVE  NextLine(text, r) = PastEnd
<1> DEFINE e == FirstEol(text, r)
<1>1. SUFFICES ASSUME \E i \in (r + 1)..Len(text) : text[i] \in {"CR", "LF"} PROVE FALSE
  BY DEF NextLine, FirstEol
<1>2. r \in Nat
  BY LineStartsInText
<1>3. e \in (r + 1)..Len(text) /\ text[e] \in {"CR", "LF"}
  BY <1>1, <1>2, FirstEolIsFirst
<1> HIDE DEF e
<1>4. e \in 1..Len(text) /\ r < e /\ r < e + 1
  BY <1>2, <1>3
<1>5. EndsLine(text, e) \/ (e + 1 \in 1..Len(text) /\ EndsLine(text, e + 1))
  <2>1. CASE text[e] = "CR" /\ e < Len(text) /\ text[e + 1] = "LF"
    BY <1>4, <2>1 DEF EndsLine
  <2>2. CASE ~(text[e] = "CR" /\ e < Len(text) /\ text[e + 1] = "LF")
    <3>1. EndsLine(text, e)
      BY <1>3, <2>2 DEF EndsLine
    <3> QED BY <3>1
  <2> QED BY <2>1, <2>2
<1> QED BY <1>4, <1>5 DEF LineStarts

(* Among the starts of lines, each has its own number. *)
LEMMA StartsAreNumbered ==
  ASSUME NEW text \in Seq(Chars), NEW o1 \in LineStarts(text), NEW o2 \in LineStarts(text), o1 < o2
  PROVE  Cardinality(StartsBefore(text, o1)) < Cardinality(StartsBefore(text, o2))
<1>1. LineStarts(text) \subseteq Nat /\ o1 \in Nat /\ o2 \in Nat
  BY LineStartsInText
<1>2. StartsBefore(text, o1) \in SUBSET StartsBefore(text, o2) /\ o1 \in StartsBefore(text, o2)
      /\ o1 \notin StartsBefore(text, o1)
  BY <1>1 DEF StartsBefore
<1>3. /\ IsFiniteSet(StartsBefore(text, o2))
      /\ Cardinality(StartsBefore(text, o1)) \in Nat /\ Cardinality(StartsBefore(text, o2)) \in Nat
  BY StartsBeforeAreFinite
<1> QED BY <1>2, <1>3, FS_Subset

(* Each line of the text begins somewhere. *)
LEMMA LinesBegin ==
  ASSUME NEW text \in Seq(Chars), NEW line \in Lines(text)
  PROVE  \E o \in LineStarts(text) : Cardinality(StartsBefore(text, o)) = line
<1> DEFINE starts == LineStarts(text)
           Below(o) == StartsBefore(text, o)
           Begins(n) == \E o \in starts : Cardinality(Below(o)) = n
           Lost == {n \in Lines(text) : ~Begins(n)}
<1>1. starts \subseteq Nat /\ 0 \in starts /\ IsFiniteSet(starts) /\ Cardinality(starts) \in Nat
  BY LineStartsInText, FS_CardinalityType
<1>2. Lines(text) \subseteq Nat /\ \A n \in Lines(text) : n < Cardinality(starts) /\ (n # 0 => n - 1 \in Lines(text))
  BY <1>1 DEF Lines
<1>3. SUFFICES ASSUME Lost # {} PROVE FALSE
  OBVIOUS
<1>4. PICK n \in Lost : \A m \in Lost : n <= m
  <2>1. Lost \in SUBSET Nat
    BY <1>2
  <2> HIDE DEF Lost
  <2> QED BY <1>3, <2>1, LeastElement
<1>5. n \in Nat /\ n < Cardinality(starts) /\ ~Begins(n)
  BY <1>2
<1>6. n # 0
  <2>1. Below(0) = {}
    BY <1>1 DEF StartsBefore
  <2>2. Begins(0)
    BY <1>1, <2>1, FS_EmptySet
  <2> QED BY <1>5, <2>2
<1>7. PICK r \in starts : Cardinality(Below(r)) = n - 1
  <2>1. n - 1 \in Lines(text) /\ n - 1 < n
    BY <1>2, <1>5, <1>6
  <2>2. n - 1 \notin Lost
    <3>1. ~(n <= n - 1)
      BY <1>5
    <3> HIDE DEF Lost
    <3> QED BY <1>4, <3>1
  <2>3. Begins(n - 1)
    BY <2>1, <2>2
  <2> QED BY <2>3
<1> DEFINE later == {p \in starts : r < p}
<1>8. IsFiniteSet(Below(r) \cup {r}) /\ Cardinality(Below(r) \cup {r}) = n
  <2>1. r \notin Below(r)
    BY <1>1 DEF StartsBefore
  <2>2. IsFiniteSet(Below(r))
    BY StartsBeforeAreFinite
  <2> HIDE DEF Below
  <2>3. /\ IsFiniteSet(Below(r) \cup {r})
        /\ Cardinality(Below(r) \cup {r}) = (n - 1) + 1
    BY <1>7, <2>1, <2>2, FS_AddElement
  <2> QED BY <1>5, <2>3
<1>9. PICK q \in later : \A p \in later : q <= p
  <2>1. starts # Below(r) \cup {r}
    <3>1. ASSUME starts = Below(r) \cup {r} PROVE Cardinality(starts) = n
      BY <1>8, <3>1
    <3>2. Cardinality(starts) # n
      <4> HIDE DEF starts
      <4> QED BY <1>1, <1>5
    <3> QED BY <3>1, <3>2
  <2>2. Below(r) \cup {r} \subseteq starts
    BY DEF StartsBefore
  <2>3. PICK p \in starts : p \notin Below(r) /\ p # r
    <3> HIDE DEF Below, starts
    <3> QED BY <2>1, <2>2
  <2>4. p \in later
    <3>1. p \in Nat /\ r \in Nat /\ ~(p < r)
      BY <1>1, <2>3 DEF StartsBefore
    <3> QED BY <2>3, <3>1
  <2>5. later \in SUBSET Nat
    BY <1>1
  <2> HIDE DEF later
  <2> QED BY <2>4, <2>5, LeastElement
<1>10. Below(q) = Below(r) \cup {r}
  BY <1>1, <1>9 DEF StartsBefore
<1> QED BY <1>5, <1>8, <1>9, <1>10

(* It begins in one place, which StartOf is. *)
LEMMA StartIsTheOnly ==
  ASSUME NEW text \in Seq(Chars), NEW line \in Lines(text)
  PROVE  /\ StartOf(text, line) \in LineStarts(text)
         /\ Cardinality(StartsBefore(text, StartOf(text, line))) = line
         /\ \A o \in LineStarts(text) :
              Cardinality(StartsBefore(text, o)) = line => o = StartOf(text, line)
<1>1. /\ StartOf(text, line) \in LineStarts(text)
      /\ Cardinality(StartsBefore(text, StartOf(text, line))) = line
  BY LinesBegin DEF StartOf
<1>2. ASSUME NEW o \in LineStarts(text), Cardinality(StartsBefore(text, o)) = line
      PROVE  o = StartOf(text, line)
  <2>1. o \in Nat /\ StartOf(text, line) \in Nat /\ line \in Nat
    BY <1>1, <1>2, LineStartsInText, StartsBeforeAreFinite
  <2>2. ~(o < StartOf(text, line)) /\ ~(StartOf(text, line) < o)
    BY <1>1, <1>2, <2>1, StartsAreNumbered
  <2> QED BY <2>1, <2>2
<1> QED BY <1>1, <1>2

(* The next start after the n-th is the n+1-st. *)
LEMMA StartsFollowEachOther ==
  ASSUME NEW text \in Seq(Chars), NEW n \in Lines(text)
  PROVE  NextLine(text, StartOf(text, n)) =
           IF n + 1 \in Lines(text) THEN StartOf(text, n + 1) ELSE PastEnd
<1> DEFINE r == StartOf(text, n)
           later == {p \in LineStarts(text) : r < p}
<1>1. /\ LineStarts(text) \subseteq Nat /\ IsFiniteSet(LineStarts(text))
      /\ Cardinality(LineStarts(text)) \in Nat
  BY LineStartsInText, FS_CardinalityType
<1>2. n \in Nat /\ r \in LineStarts(text) /\ Cardinality(StartsBefore(text, r)) = n
  BY <1>1, StartIsTheOnly DEF Lines
<1> HIDE DEF r
<1>3. /\ IsFiniteSet(StartsBefore(text, r) \cup {r})
      /\ Cardinality(StartsBefore(text, r) \cup {r}) = n + 1
  <2>1. r \notin StartsBefore(text, r)
    BY <1>1, <1>2 DEF StartsBefore
  <2> QED BY <1>2, <2>1, FS_AddElement, StartsBeforeAreFinite
<1>4. CASE later = {}
  <2>1. LineStarts(text) = StartsBefore(text, r) \cup {r}
    BY <1>1, <1>2, <1>4 DEF StartsBefore
  <2>2. Cardinality(LineStarts(text)) = n + 1
    BY <1>3, <2>1
  <2>3. n + 1 \notin Lines(text)
    BY <1>2, <2>2 DEF Lines
  <2>4. NextLine(text, r) = PastEnd
    BY <1>2, <1>4, LastLineIsLast
  <2> QED BY <2>3, <2>4 DEF r
<1>5. CASE later # {}
  <2>1. PICK q \in later : \A p \in later : q <= p
    <3>1. later \in SUBSET Nat
      BY <1>1
    <3> HIDE DEF later
    <3> QED BY <1>5, <3>1, LeastElement
  <2>2. NextLine(text, r) = q
    BY <1>2, <2>1, NextLineIsNext
  <2>3. StartsBefore(text, q) = StartsBefore(text, r) \cup {r}
    BY <1>1, <1>2, <2>1 DEF StartsBefore
  <2>4. Cardinality(StartsBefore(text, q)) = n + 1
    BY <1>3, <2>3
  <2>5. n + 1 \in Lines(text)
    <3>1. StartsBefore(text, q) \subseteq LineStarts(text) /\ q \notin StartsBefore(text, q) /\ q \in LineStarts(text)
      BY <1>1, <2>1 DEF StartsBefore
    <3>2. Cardinality(StartsBefore(text, q)) <= Cardinality(LineStarts(text))
          /\ Cardinality(StartsBefore(text, q)) # Cardinality(LineStarts(text))
      BY <1>1, <3>1, FS_Subset
    <3> QED BY <1>1, <1>2, <2>4, <3>2 DEF Lines
  <2>6. q = StartOf(text, n + 1)
    BY <2>1, <2>4, <2>5, StartIsTheOnly
  <2> QED BY <2>2, <2>5, <2>6 DEF r
<1> QED BY <1>4, <1>5

(* The loop finds where each line of the text begins, and no line after them. The
   recursive function it is exists, since this one satisfies its definition. *)
LEMMA LoopFindsLines ==
  ASSUME NEW text \in Seq(Chars)
  PROVE  LineOffsets(text) =
           [n \in Nat |-> IF n \in Lines(text) THEN StartOf(text, n) ELSE PastEnd]
<1> DEFINE f == [n \in Nat |-> IF n \in Lines(text) THEN StartOf(text, n) ELSE PastEnd]
           reach == LineOffsets(text)
           Loop(g) == g = [line \in Nat |-> IF line = 0 THEN 0 ELSE NextLine(text, g[line - 1])]
           Wrong == {n \in Nat : reach[n] # f[n]}
<1>1. /\ Lines(text) \subseteq Nat /\ 0 \in Lines(text)
      /\ \A n \in Nat \ {0} : n \in Lines(text) => n - 1 \in Lines(text)
  <2>1. /\ 0 \in LineStarts(text) /\ IsFiniteSet(LineStarts(text))
        /\ Cardinality(LineStarts(text)) \in Nat
    BY LineStartsInText, FS_CardinalityType
  <2>2. Cardinality(LineStarts(text)) # 0
    BY <2>1, FS_EmptySet
  <2> QED BY <2>1, <2>2 DEF Lines
<1>2. f[0] = 0
  <2>1. StartsBefore(text, 0) = {} /\ 0 \in LineStarts(text)
    BY LineStartsInText DEF StartsBefore
  <2>2. Cardinality(StartsBefore(text, 0)) = 0
    BY <2>1, FS_EmptySet
  <2>3. StartOf(text, 0) = 0
    BY <1>1, <2>1, <2>2, StartIsTheOnly
  <2> QED BY <1>1, <2>3
<1>3. ASSUME NEW n \in Nat \ {0} PROVE f[n] = NextLine(text, f[n - 1])
  <2>0. n - 1 \in Nat /\ (n - 1) + 1 = n
    OBVIOUS
  <2>1. CASE n - 1 \in Lines(text)
    <3>1. NextLine(text, StartOf(text, n - 1)) =
            IF (n - 1) + 1 \in Lines(text) THEN StartOf(text, (n - 1) + 1) ELSE PastEnd
      BY <2>1, StartsFollowEachOther
    <3> QED BY <2>0, <2>1, <3>1
  <2>2. CASE n - 1 \notin Lines(text)
    <3>1. f[n - 1] = PastEnd /\ f[n] = PastEnd
      BY <1>1, <2>0, <2>2
    <3> QED BY <3>1 DEF NextLine
  <2> QED BY <2>1, <2>2
<1>4. Loop(f)
  <2> DEFINE g == [line \in Nat |-> IF line = 0 THEN 0 ELSE NextLine(text, f[line - 1])]
  <2>1. \A n \in Nat : f[n] = g[n]
    <3>1. ASSUME NEW n \in Nat PROVE f[n] = g[n]
      <4> HIDE DEF f
      <4> QED BY <1>2, <1>3
    <3> QED BY <3>1
  <2> QED BY <2>1
<1>5. reach = CHOOSE g : Loop(g)
  BY DEF LineOffsets
<1>6. Loop(reach)
  <2> HIDE DEF Loop, reach
  <2> QED BY <1>4, <1>5
<1> HIDE DEF f, reach
<1>7. reach[0] = 0 /\ \A n \in Nat \ {0} : reach[n] = NextLine(text, reach[n - 1])
  BY <1>6
<1>8. Wrong = {}
  <2>1. SUFFICES ASSUME Wrong # {} PROVE FALSE
    OBVIOUS
  <2>2. PICK n \in Wrong : \A m \in Wrong : n <= m
    <3>1. Wrong \in SUBSET Nat
      OBVIOUS
    <3> HIDE DEF Wrong
    <3> QED BY <2>1, <3>1, LeastElement
  <2>3. n \in Nat \ {0} /\ n - 1 \in Nat
    BY <1>2, <1>7
  <2>4. n - 1 \notin Wrong
    <3>1. ~(n <= n - 1)
      BY <2>3
    <3> HIDE DEF Wrong
    <3> QED BY <2>2, <3>1
  <2>5. reach[n - 1] = f[n - 1]
    BY <2>3, <2>4
  <2>6. reach[n] = f[n]
    BY <1>3, <1>7, <2>3, <2>5
  <2> QED BY <2>6
<1>9. \A n \in Nat : reach[n] = f[n]
  BY <1>8
<1>10. reach = [n \in Nat |-> reach[n]]
  BY <1>6
<1>11. f = [n \in Nat |-> f[n]]
  BY DEF f
<1> QED BY <1>9, <1>10, <1>11 DEF f, reach

(* A position in the text is the offset the proxy finds. *)
LEMMA PositionsAreFound ==
  ASSUME NEW text \in Seq(Chars), NEW pos \in Positions(text)
  PROVE  /\ PositionToOffset(text, pos) = OffsetOf(text, pos)
         /\ OffsetOf(text, pos) \in 0..Len(text)
<1> DEFINE start == StartOf(text, pos.line)
<1>1. pos.line \in Lines(text) /\ pos.character \in Nat /\ Within(text, pos)
  BY DEF Positions
<1>2. start \in LineStarts(text) /\ LineOffsets(text)[pos.line] = start
  BY <1>1, LoopFindsLines, StartIsTheOnly DEF Lines
<1>3. start \in 0..Len(text)
  BY <1>2, LineStartsInText
<1>4. start + pos.character <= Len(text)
  <2>1. CASE pos.character = 0
    BY <1>3, <2>1
  <2>2. CASE pos.character # 0
    BY <1>1, <1>3, <2>2 DEF Within
  <2> QED BY <2>1, <2>2
<1> QED BY <1>1, <1>2, <1>3, <1>4 DEF PositionToOffset, OffsetOf, PastEnd

LEMMA BoundedAreSequences ==
  ASSUME NEW n \in Nat, NEW s \in BoundedSeq(Chars, n)
  PROVE  s \in Seq(Chars)
<1>1. PICK m \in 0..n : s \in [1..m -> Chars]
  BY DEF BoundedSeq, SeqOf
<1> QED BY <1>1

(* A change of a range does to the proxy's text what it does to the client's. *)
LEMMA EditsAgree ==
  ASSUME NEW text \in Seq(Chars), NEW range \in Ranges(text), NEW replacement \in Seq(Chars)
  PROVE  /\ ApplyIncremental(text, range, replacement) = ClientEdit(text, range, replacement)
         /\ ClientEdit(text, range, replacement) \in Seq(Chars)
<1> DEFINE start == OffsetOf(text, range.start)
           end == OffsetOf(text, range.end)
<1>1. range.start \in Positions(text) /\ range.end \in Positions(text)
  BY DEF Ranges
<1>2. /\ PositionToOffset(text, range.start) = start /\ start \in 0..Len(text)
      /\ PositionToOffset(text, range.end) = end /\ end \in 0..Len(text)
  BY <1>1, PositionsAreFound
<1> HIDE DEF start, end
<1>3. ApplyIncremental(text, range, replacement) = Splice(text, start, end, replacement)
  BY <1>2 DEF ApplyIncremental
<1>4. ClientEdit(text, range, replacement) = Splice(text, start, end, replacement)
  BY DEF ClientEdit, start, end
<1>5. Splice(text, start, end, replacement) \in Seq(Chars)
  <2>1. SubSeq(text, 1, start) \in Seq(Chars) /\ SubSeq(text, end + 1, Len(text)) \in Seq(Chars)
    BY <1>2
  <2> QED BY <2>1 DEF Splice
<1> QED BY <1>3, <1>4, <1>5

TextInv == content = client /\ client \in Seq(Chars)

LEMMA TextStep == TextInv /\ [TextNext]_textVars => TextInv'
<1> SUFFICES ASSUME TextInv, [TextNext]_textVars PROVE TextInv'
  OBVIOUS
<1> USE TextEditsAssumption DEF TextInv
<1>1. CASE ChangeWhole
  BY <1>1, BoundedAreSequences DEF ChangeWhole
<1>2. CASE ChangeRange
  <2>1. PICK range \in Ranges(client), replacement \in BoundedSeq(Chars, MaxInsert) :
          /\ client' = ClientEdit(client, range, replacement)
          /\ content' = ApplyIncremental(content, range, replacement)
    BY <1>2 DEF ChangeRange
  <2>2. replacement \in Seq(Chars)
    BY BoundedAreSequences
  <2> QED BY <2>1, <2>2, EditsAgree
<1>3. CASE ChangeTwice
  <2> DEFINE Between(range1, replacement1) == ClientEdit(client, range1, replacement1)
             Twice(range1, replacement1, range2, replacement2) ==
               /\ client' = ClientEdit(Between(range1, replacement1), range2, replacement2)
               /\ content' = Applied(content, range1, replacement1, range2, replacement2)
  <2>1. PICK range1 \in Ranges(client), replacement1 \in BoundedSeq(Chars, 1),
             replacement2 \in BoundedSeq(Chars, 1) :
          \E range2 \in Ranges(Between(range1, replacement1)) :
            Twice(range1, replacement1, range2, replacement2)
    BY <1>3 DEF ChangeTwice
  <2> DEFINE between == Between(range1, replacement1)
  <2>6. PICK range2 \in Ranges(between) : Twice(range1, replacement1, range2, replacement2)
    BY <2>1
  <2>2. replacement1 \in Seq(Chars) /\ replacement2 \in Seq(Chars)
    BY BoundedAreSequences
  <2>3. between \in Seq(Chars) /\ ApplyIncremental(content, range1, replacement1) = between
    BY <2>2, EditsAgree
  <2>4. content' = ApplyIncremental(between, range2, replacement2)
    BY <2>3, <2>6 DEF Applied
  <2> HIDE DEF between
  <2>5. client' = ClientEdit(between, range2, replacement2) /\ range2 \in Ranges(between)
    BY <2>6 DEF between
  <2> QED BY <2>2, <2>3, <2>4, <2>5, EditsAgree
<1>4. CASE UNCHANGED textVars
  BY <1>4 DEF textVars
<1> QED BY <1>1, <1>2, <1>3, <1>4 DEF TextNext

(* The proxy's text is the client's after any changes, of any texts, whatever
   their terminators and however the changes split or join them. *)
THEOREM TheTextIsTheClients == TextInit /\ [][TextNext]_textVars => []TracksTheClient
<1>1. TextInit => TextInv
  BY TextEditsAssumption, BoundedAreSequences DEF TextInit, TextInv
<1>2. TextInv => TracksTheClient
  BY DEF TextInv, TracksTheClient
<1> QED BY <1>1, <1>2, TextStep, PTL

-----------------------------------------------------------------------------
(* The bridge. *)

(* Handlers die with the child that holds them, and ids are given once. *)
HandlersAreOfTheLiving ==
  /\ source # "running" => handlers = {}
  /\ \A id \in handlers : id <= asked

BridgeInv == BridgeTypeOK /\ HandlersAreOfTheLiving /\ NoHandlerStranded

USE BridgeAssumption

LEMMA BridgeInit == BridgeStart => BridgeInv
BY DEF BridgeStart, BridgeInv, BridgeTypeOK, Ids, HandlersAreOfTheLiving, NoHandlerStranded

LEMMA AskStep == ASSUME BridgeInv, Ask PROVE BridgeInv'
<1> USE DEF Ask
<1>0. PICK outcome \in Delivery :
        calls' = calls \cup {[id |-> asked', life |-> life, outcome |-> outcome]}
  OBVIOUS
<1>1. asked' = asked + 1 /\ asked' \in Ids /\ asked' \in 0..MaxAsked
  BY DEF BridgeInv, BridgeTypeOK, Ids
<1>2. target' \in {"starting", "running", "restarting", "stopped"}
  BY DEF BridgeInv, BridgeTypeOK, Started
<1>3. [id |-> asked', life |-> life, outcome |-> outcome]
         \in [id : Ids, life : 1..MaxLives, outcome : Outcomes]
  BY <1>1 DEF BridgeInv, BridgeTypeOK, Outcomes, Delivery
<1>4. BridgeTypeOK'
  BY <1>0, <1>1, <1>2, <1>3 DEF BridgeInv, BridgeTypeOK, sourceVars, targetVars
<1>5. HandlersAreOfTheLiving'
  <2>1. \A id \in handlers : id <= asked' 
    BY <1>1 DEF BridgeInv, BridgeTypeOK, Ids, HandlersAreOfTheLiving
  <2> QED BY <1>1, <2>1 DEF BridgeInv, BridgeTypeOK, HandlersAreOfTheLiving
<1>6. NoHandlerStranded'
  <2> SUFFICES ASSUME NEW id \in handlers'
               PROVE  (\E c \in calls :
                         /\ c.id = id /\ c.life = life
                         /\ c.outcome = "none" => target \notin {"idle", "stopped"})'
    BY DEF NoHandlerStranded
  <2>1. CASE id = asked'
    <3> DEFINE c == [id |-> asked', life |-> life, outcome |-> outcome]
    <3>1. c \in calls'
      BY <1>0
    <3>2. c.id = id /\ c.life = life' /\ c.outcome = outcome
      BY <2>1
    <3>3. outcome = "none" => target' \notin {"idle", "stopped"}
      BY <1>2 DEF Delivery, Started
    <3> HIDE DEF c
    <3> QED BY <3>1, <3>2, <3>3
  <2>2. CASE id \in handlers
    <3>1. PICK c \in calls : c.id = id /\ c.life = life
                             /\ (c.outcome = "none" => target \notin {"idle", "stopped"})
      BY <2>2 DEF BridgeInv, NoHandlerStranded
    <3>2. c \in calls' /\ (c.outcome = "none" => target' = target)
      BY <1>0, <3>1 DEF Started
    <3> QED BY <3>1, <3>2
  <2> QED BY <2>1, <2>2
<1> QED BY <1>4, <1>5, <1>6 DEF BridgeInv

LEMMA CallStep ==
  ASSUME BridgeInv, NEW c \in calls, CommandAnswered(c) \/ CommandTimesOut(c) \/ Respond(c)
  PROVE  BridgeInv'
<1>1. c \in [id : Ids, life : 1..MaxLives, outcome : Outcomes]
  BY DEF BridgeInv, BridgeTypeOK
<1>2. CASE CommandAnswered(c) \/ CommandTimesOut(c)
  <2>1. PICK outcome \in {"body", "nothing"} : Settle(c, outcome)
    BY <1>2 DEF CommandAnswered, CommandTimesOut
  <2>2. UNCHANGED <<sourceVars, handlers, targetVars>> /\ Quiet
    BY <1>2 DEF CommandAnswered, CommandTimesOut
  <2>3. BridgeTypeOK'
    <3>1. [c EXCEPT !.outcome = outcome] \in [id : Ids, life : 1..MaxLives, outcome : Outcomes]
      BY <1>1, <2>1 DEF Outcomes
    <3> QED BY <2>1, <2>2, <3>1 DEF BridgeInv, BridgeTypeOK, Settle, sourceVars, targetVars
  <2>4. HandlersAreOfTheLiving'
    BY <2>2 DEF BridgeInv, HandlersAreOfTheLiving, sourceVars
  <2>5. NoHandlerStranded'
    <3> SUFFICES ASSUME NEW id \in handlers'
                 PROVE  (\E d \in calls :
                           /\ d.id = id /\ d.life = life
                           /\ d.outcome = "none" => target \notin {"idle", "stopped"})'
      BY DEF NoHandlerStranded
    <3>1. PICK d \in calls : d.id = id /\ d.life = life
                             /\ (d.outcome = "none" => target \notin {"idle", "stopped"})
      BY <2>2 DEF BridgeInv, NoHandlerStranded
    <3>2. CASE d = c
      <4> DEFINE e == [c EXCEPT !.outcome = outcome]
      <4>1. e \in calls' /\ e.id = id /\ e.life = life /\ e.outcome # "none"
        BY <1>1, <2>1, <2>2, <3>1, <3>2 DEF Settle, sourceVars
      <4> QED BY <2>2, <4>1 DEF sourceVars
    <3>3. CASE d # c
      <4>1. d \in calls'
        BY <2>1, <3>3 DEF Settle
      <4> QED BY <2>2, <3>1, <4>1 DEF sourceVars, targetVars
    <3> QED BY <3>2, <3>3
  <2> QED BY <2>3, <2>4, <2>5 DEF BridgeInv
<1>3. CASE Respond(c)
  <2>1. BridgeTypeOK' /\ HandlersAreOfTheLiving'
    BY <1>3 DEF Respond, BridgeInv, BridgeTypeOK, HandlersAreOfTheLiving, sourceVars, targetVars
  <2>2. NoHandlerStranded'
    <3> SUFFICES ASSUME NEW id \in handlers'
                 PROVE  (\E d \in calls :
                           /\ d.id = id /\ d.life = life
                           /\ d.outcome = "none" => target \notin {"idle", "stopped"})'
      BY DEF NoHandlerStranded
    <3>1. id \in handlers /\ id # c.id
      BY <1>3 DEF Respond, BridgeInv, HandlersAreOfTheLiving
    <3>2. PICK d \in calls : d.id = id /\ d.life = life
                             /\ (d.outcome = "none" => target \notin {"idle", "stopped"})
      BY <3>1 DEF BridgeInv, NoHandlerStranded
    <3>3. d \in calls'
      BY <1>3, <3>1, <3>2 DEF Respond
    <3> QED BY <1>3, <3>2, <3>3 DEF Respond, sourceVars, targetVars
  <2> QED BY <2>1, <2>2 DEF BridgeInv
<1> QED BY <1>2, <1>3

LEMMA TargetStep ==
  ASSUME BridgeInv, TargetComesUp \/ TargetCrashes \/ TargetGivesUp
  PROVE  BridgeInv'
<1>1. UNCHANGED <<source, life, asked, handlers>>
  BY DEF TargetComesUp, TargetCrashes, TargetGivesUp, sourceVars
<1>2. HandlersAreOfTheLiving'
  BY <1>1 DEF BridgeInv, HandlersAreOfTheLiving
<1>3. CASE TargetComesUp
  <2>1. BridgeTypeOK'
    BY <1>3 DEF TargetComesUp, BridgeInv, BridgeTypeOK, sourceVars
  <2>2. NoHandlerStranded'
    BY <1>3 DEF TargetComesUp, BridgeInv, NoHandlerStranded, sourceVars
  <2> QED BY <1>2, <2>1, <2>2 DEF BridgeInv
<1>4. CASE TargetCrashes \/ TargetGivesUp
  <2>1. RejectAll /\ UNCHANGED targetLife /\ target' \in {"restarting", "stopped"}
    BY <1>4 DEF TargetCrashes, TargetGivesUp
  <2>2. \A c \in calls : LET d == [c EXCEPT !.outcome = "nothing"] IN
          /\ d \in [id : Ids, life : 1..MaxLives, outcome : Outcomes]
          /\ d.id = c.id /\ d.life = c.life /\ d.outcome = "nothing"
    BY DEF BridgeInv, BridgeTypeOK, Outcomes
  <2>3. BridgeTypeOK'
    <3>1. calls' \in SUBSET [id : Ids, life : 1..MaxLives, outcome : Outcomes]
      BY <2>1, <2>2 DEF RejectAll, BridgeInv, BridgeTypeOK
    <3> QED BY <1>1, <2>1, <3>1 DEF BridgeInv, BridgeTypeOK
  <2>4. \A d \in calls' : d.outcome # "none"
    BY <2>1, <2>2 DEF RejectAll
  <2>5. ASSUME NEW id \in handlers'
        PROVE  \E d \in calls' : d.id = id /\ d.life = life'
    <3>1. PICK c \in calls : c.id = id /\ c.life = life
      BY <1>1 DEF BridgeInv, NoHandlerStranded
    <3> DEFINE d == IF c.outcome = "none" THEN [c EXCEPT !.outcome = "nothing"] ELSE c
    <3>2. d \in calls'
      BY <2>1, <3>1 DEF RejectAll
    <3>3. d.id = id /\ d.life = life'
      BY <1>1, <2>2, <3>1
    <3> HIDE DEF d
    <3> QED BY <3>2, <3>3
  <2>6. NoHandlerStranded'
    BY <2>4, <2>5 DEF NoHandlerStranded
  <2> QED BY <1>2, <2>3, <2>6 DEF BridgeInv
<1> QED BY <1>3, <1>4

LEMMA SourceStep ==
  ASSUME BridgeInv, SourceCrashes \/ SourceComesUp \/ SourceGivesUp
  PROVE  BridgeInv'
<1>1. handlers' = {}
  BY DEF SourceCrashes, SourceComesUp, SourceGivesUp, BridgeInv, HandlersAreOfTheLiving
<1>2. BridgeTypeOK'
  BY <1>1 DEF SourceCrashes, SourceComesUp, SourceGivesUp, BridgeInv, BridgeTypeOK, targetVars
<1> QED BY <1>1, <1>2 DEF BridgeInv, HandlersAreOfTheLiving, NoHandlerStranded

LEMMA BridgeStep == BridgeInv /\ [BridgeNext]_bridgeVars => BridgeInv'
<1> SUFFICES ASSUME BridgeInv, [BridgeNext]_bridgeVars PROVE BridgeInv'
  OBVIOUS
<1>1. CASE UNCHANGED bridgeVars
  BY <1>1 DEF bridgeVars, sourceVars, targetVars, BridgeInv, BridgeTypeOK, HandlersAreOfTheLiving,
              NoHandlerStranded
<1> QED BY <1>1, AskStep, CallStep, TargetStep, SourceStep DEF BridgeNext

-----------------------------------------------------------------------------

(* Types. *)
THEOREM BridgeTypeCorrect == BridgeSpec => []BridgeTypeOK
<1>1. BridgeInv => BridgeTypeOK
  BY DEF BridgeInv
<1> QED BY <1>1, BridgeInit, BridgeStep, PTL DEF BridgeSpec

(* The source is never left holding a handler open for nothing. *)
THEOREM HandlersAreServed == BridgeSpec => []NoHandlerStranded
<1>1. BridgeInv => NoHandlerStranded
  BY DEF BridgeInv
<1> QED BY <1>1, BridgeInit, BridgeStep, PTL DEF BridgeSpec

-----------------------------------------------------------------------------
(* The configuration. *)

(* The loads under way are told apart by their numbers. *)
LoadsInv ==
  /\ begun \in Nat /\ last \in Nat /\ last <= begun
  /\ \A l \in loads : /\ l = [n |-> l.n, base |-> l.base] /\ l.n \in 0..begun
                      /\ l.base \in Bases \cup {Missing}
  /\ \A l, m \in loads : l.n = m.n => l = m
  /\ files.base \in Bases /\ files.local \in Locals
  /\ DOMAIN files = FileNames

(* Before it serves, the program has one load and no timer. *)
PhaseInv ==
  /\ stage \in {"loading", "servers", "serving", "fatal", "exited"}
  /\ (\E l \in loads : l.n = 0) => stage = "loading"
  /\ stage \notin {"serving", "exited"} => watched = {} /\ raised = {} /\ ~armed /\ begun = 0

(* What no report is on its way about, the load that began last has read or
   will read. *)
InForce == \A l \in loads : l.n # begun
FreshInv ==
  stage \notin {"fatal", "exited"} /\ raised = {} /\ ~armed /\ unseen = {} =>
    /\ \A l \in loads : l.n = begun => l.base \in {Missing, files.base}
    /\ InForce /\ last = begun => LevelApplied

BootedInv ==
  stage \in {"servers", "serving"} => Accepted(booted) /\ DOMAIN BridgesOf(booted) \subseteq Nat

ConfigInv == LoadsInv /\ PhaseInv /\ FreshInv /\ BootedInv

LEMMA MergedBridges ==
  ASSUME NEW base \in Bases, NEW local \in Locals, Merged(base, local) # Torn
  PROVE  DOMAIN BridgesOf(Merged(base, local)) \subseteq Nat
<1>1. base \notin {Torn, NotObject, Missing} /\ local # Torn
  BY ContentsAssumption DEF Merged
<1>2. DOMAIN BridgesOf(base) \subseteq Nat
  BY <1>1, ContentsAssumption
<1>3. CASE local \in {Missing, NotObject}
  <2>1. Merged(base, local) = base
    BY <1>1, <1>3 DEF Merged
  <2> QED BY <1>2, <2>1
<1>4. CASE local \notin {Missing, NotObject}
  <2>1. DOMAIN BridgesOf(local) \subseteq Nat
    BY <1>1, <1>4, ContentsAssumption
  <2> DEFINE c == [f \in (DOMAIN local) \cup (DOMAIN base) |->
                     IF f \in DOMAIN local THEN local[f] ELSE base[f]]
  <2>2. Merged(base, local) = c
    BY <1>1, <1>4 DEF Merged
  <2>3. BridgesOf(c) \in {BridgesOf(local), BridgesOf(base)}
    BY DEF BridgesOf, Field
  <2> HIDE DEF c
  <2> QED BY <1>2, <2>1, <2>2, <2>3
<1> QED BY <1>3, <1>4

LEMMA ConfigStarts == ConfigInit => ConfigInv
<1> SUFFICES ASSUME ConfigInit PROVE ConfigInv
  OBVIOUS
<1> USE DEF ConfigInit
<1>1. LoadsInv
  BY DEF LoadsInv, FileNames
<1>2. PhaseInv
  BY DEF PhaseInv
<1>3. FreshInv
  BY DEF FreshInv, InForce
<1>4. BootedInv
  BY DEF BootedInv
<1> QED BY <1>1, <1>2, <1>3, <1>4 DEF ConfigInv

LEMMA ReadBaseKeeps == ASSUME ConfigInv, NEW l \in loads, ReadBase(l) PROVE ConfigInv'
<1> USE DEF ConfigInv
<1> DEFINE r == [l EXCEPT !.base = files.base]
<1>1. r.n = l.n /\ r.base = files.base /\ r = [n |-> r.n, base |-> r.base]
  <2>1. l = [n |-> l.n, base |-> l.base]
    BY DEF LoadsInv
  <2>2. r = [n |-> l.n, base |-> files.base]
    BY <2>1
  <2> QED BY <2>2
<1>2. /\ loads' = (loads \ {l}) \cup {r}
      /\ UNCHANGED <<stage, files, watched, raised, armed, begun, booted, level, unseen, last>>
  BY DEF ReadBase, diskVars
<1> HIDE DEF r
<1>3. LoadsInv'
  <2>1. \A m \in loads' : /\ m = [n |-> m.n, base |-> m.base] /\ m.n \in 0..begun
                          /\ m.base \in Bases \cup {Missing}
    BY <1>1, <1>2 DEF LoadsInv
  <2>2. \A m, k \in loads' : m.n = k.n => m = k
    BY <1>1, <1>2 DEF LoadsInv
  <2> QED BY <1>2, <2>1, <2>2 DEF LoadsInv
<1>4. PhaseInv'
  BY <1>1, <1>2 DEF PhaseInv
<1>5. FreshInv'
  <2>1. InForce' => InForce
    BY <1>1, <1>2 DEF InForce
  <2>2. LevelApplied' = LevelApplied
    BY <1>2 DEF LevelApplied, OnDisk
  <2> QED BY <1>1, <1>2, <2>1, <2>2 DEF FreshInv
<1>6. BootedInv'
  BY <1>2 DEF BootedInv
<1> QED BY <1>3, <1>4, <1>5, <1>6

LEMMA EndLoadKeeps == ASSUME ConfigInv, NEW l \in loads, EndLoad(l) PROVE ConfigInv'
<1> USE DEF ConfigInv
<1> DEFINE c == Merged(l.base, files.local)
<1>1. /\ loads' = loads \ {l} /\ last' = l.n /\ l.base # Missing
      /\ level' = IF Accepted(c) THEN Field(c, "logLevel", "INFO") ELSE level
      /\ UNCHANGED <<files, watched, raised, armed, begun, unseen>>
      /\ IF l.n = 0 THEN Boot(c) ELSE UNCHANGED <<stage, booted>>
  BY DEF EndLoad, diskVars
<1>2. l.n \in 0..begun /\ l.base \in Bases /\ files.local \in Locals
  BY <1>1 DEF LoadsInv
<1>3. Accepted(c) => DOMAIN BridgesOf(c) \subseteq Nat
  BY <1>2, MergedBridges DEF Accepted
<1> HIDE DEF c
<1>4. LoadsInv'
  BY <1>1, <1>2 DEF LoadsInv
<1>5. PhaseInv'
  <2>1. ~ \E m \in loads' : m.n = 0 /\ l.n = 0
    BY <1>1 DEF LoadsInv
  <2> QED BY <1>1, <2>1 DEF PhaseInv, Boot
<1>6. BootedInv'
  BY <1>1, <1>3 DEF BootedInv, Boot
<1>7. FreshInv'
  <2> SUFFICES ASSUME stage' \notin {"fatal", "exited"}, raised' = {}, ~armed', unseen' = {}
               PROVE  /\ \A m \in loads' : m.n = begun' => m.base \in {Missing, files'.base}
                      /\ InForce' /\ last' = begun' => LevelApplied'
    BY DEF FreshInv
  <2>1. stage \notin {"fatal", "exited"}
    BY <1>1 DEF Boot, PhaseInv
  <2>2. \A m \in loads : m.n = begun => m.base \in {Missing, files.base}
    BY <1>1, <2>1 DEF FreshInv
  <2>3. ASSUME last' = begun' PROVE LevelApplied'
    <3>1. l.base = files.base
      BY <1>1, <2>2, <2>3
    <3>2. OnDisk' = c /\ OnDisk = c
      BY <1>1, <3>1 DEF OnDisk, c
    <3> QED BY <1>1, <3>2 DEF LevelApplied
  <2> QED BY <1>1, <2>2, <2>3
<1> QED BY <1>4, <1>5, <1>6, <1>7

LEMMA LatestKeeps == ASSUME ConfigInv, ApplyLatestLogLevel PROVE ConfigInv'
<1> USE DEF ConfigInv
<1> DEFINE r == [n |-> begun', base |-> Missing]
<1>1. /\ loads' = loads \cup {r} /\ begun' = begun + 1 /\ armed /\ ~armed'
      /\ UNCHANGED <<stage, files, watched, raised, booted, level, last>>
  BY DEF ApplyLatestLogLevel, diskVars
<1>2. r.n = begun' /\ r.base = Missing /\ r = [n |-> r.n, base |-> r.base]
  OBVIOUS
<1> HIDE DEF r
<1>3. begun \in Nat /\ begun' \in Nat /\ \A l \in loads : l.n \in 0..begun /\ l.n # begun' /\ l.n \in 0..begun'
  BY <1>1 DEF LoadsInv
<1>4. LoadsInv'
  <2>1. \A m, k \in loads' : m.n = k.n => m = k
    BY <1>1, <1>2, <1>3 DEF LoadsInv
  <2>2. \A m \in loads' : /\ m = [n |-> m.n, base |-> m.base] /\ m.n \in 0..begun'
                          /\ m.base \in Bases \cup {Missing}
    BY <1>1, <1>2, <1>3 DEF LoadsInv
  <2> QED BY <1>1, <1>3, <2>1, <2>2 DEF LoadsInv
<1>5. PhaseInv'
  BY <1>1, <1>2, <1>3 DEF PhaseInv
<1>6. BootedInv'
  BY <1>1 DEF BootedInv
<1>7. FreshInv'
  <2>1. ~InForce'
    BY <1>1, <1>2 DEF InForce
  <2>2. \A m \in loads' : m.n = begun' => m.base = Missing
    BY <1>1, <1>2, <1>3
  <2> QED BY <2>1, <2>2 DEF FreshInv
<1> QED BY <1>4, <1>5, <1>6, <1>7

(* A change of a file is reported, or remembered as one that no load knows of. *)
LEMMA ChangeKeeps ==
  ASSUME ConfigInv, NEW f \in FileNames, WriteInPlace(f) \/ Replace(f)
  PROVE  ConfigInv'
<1> USE DEF ConfigInv
<1>1. PICK c \in Contents(f) : Changed(f, c)
  BY DEF WriteInPlace, Replace
<1>2. /\ files' = [files EXCEPT ![f] = c]
      /\ UNCHANGED <<stage, armed, loads, begun, booted, level, last>>
      /\ watched' \subseteq watched /\ raised \subseteq raised'
      /\ raised' # {} \/ unseen' # {}
      /\ raised' # raised => watched # {}
  BY <1>1 DEF Changed, WriteInPlace, Replace
<1>3. DOMAIN files' = FileNames /\ files'.base \in Bases /\ files'.local \in Locals
  BY <1>1, <1>2 DEF LoadsInv, FileNames, Contents
<1>4. LoadsInv'
  BY <1>2, <1>3 DEF LoadsInv
<1>5. PhaseInv'
  BY <1>2 DEF PhaseInv
<1>6. FreshInv' /\ BootedInv'
  BY <1>2 DEF FreshInv, BootedInv
<1> QED BY <1>4, <1>5, <1>6

LEMMA OtherKeeps ==
  ASSUME ConfigInv,
         \/ LoadServers \/ Ends \/ \E f \in FileNames : Reload(f) \/ UNCHANGED configVars
  PROVE  ConfigInv'
<1> USE DEF ConfigInv
<1>1. UNCHANGED <<files, loads, begun, booted, level, last, unseen>>
  BY DEF LoadServers, Ends, Reload, configVars
<1>2. LoadsInv'
  BY <1>1 DEF LoadsInv
<1>3. PhaseInv'
  <2>1. CASE LoadServers
    BY <1>1, <2>1 DEF LoadServers, PhaseInv
  <2>2. CASE Ends
    BY <1>1, <2>2 DEF Ends, PhaseInv
  <2>3. CASE \E f \in FileNames : Reload(f)
    BY <1>1, <2>3 DEF Reload, PhaseInv
  <2>4. CASE UNCHANGED configVars
    BY <2>4 DEF configVars, PhaseInv
  <2> QED BY <2>1, <2>2, <2>3, <2>4
<1>4. BootedInv'
  BY <1>1 DEF BootedInv, LoadServers, Ends, Reload, configVars
<1>5. FreshInv'
  <2>1. LevelApplied' = LevelApplied /\ InForce' = InForce
    BY <1>1 DEF LevelApplied, OnDisk, InForce
  <2>2. CASE LoadServers
    BY <1>1, <2>1, <2>2 DEF LoadServers, FreshInv
  <2>3. CASE Ends \/ \E f \in FileNames : Reload(f)
    BY <2>3 DEF Ends, Reload, FreshInv
  <2>4. CASE UNCHANGED configVars
    BY <1>1, <2>1, <2>4 DEF configVars, FreshInv
  <2> QED BY <2>2, <2>3, <2>4
<1> QED BY <1>2, <1>3, <1>4, <1>5

(* What the two results below rest on: the loads are told apart by their
   numbers; before the proxy serves there is one load and no timer; a proxy that
   has booted was given an accepted configuration; and FreshInv. *)
THEOREM ConfigInvariant == ConfigSpec => []ConfigInv
<1>1. ConfigInv /\ [ConfigNext]_configVars => ConfigInv'
  <2> SUFFICES ASSUME ConfigInv, [ConfigNext]_configVars PROVE ConfigInv'
    OBVIOUS
  <2>1. CASE \E f \in FileNames : WriteInPlace(f) \/ Replace(f)
    BY <2>1, ChangeKeeps
  <2>2. CASE \E l \in loads : ReadBase(l) \/ EndLoad(l)
    BY <2>2, ReadBaseKeeps, EndLoadKeeps
  <2>3. CASE ApplyLatestLogLevel
    BY <2>3, LatestKeeps
  <2>4. CASE LoadServers \/ Ends \/ (\E f \in FileNames : Reload(f)) \/ UNCHANGED configVars
    <3>1. "base" \in FileNames
      BY DEF FileNames
    <3> QED BY <2>4, <3>1, OtherKeeps
  <2> QED BY <2>1, <2>2, <2>3, <2>4 DEF ConfigNext
<1> QED BY <1>1, ConfigStarts, PTL DEF ConfigSpec

(* The log level follows the files. No wake-up is lost: a change that was
   reported is either waiting to be taken up, or behind the debounce timer, or
   older than the load that began last, which has therefore read it or is yet
   to read it. *)
THEOREM LevelFollows == ConfigSpec => []LevelFollowsTheFiles
<1>1. ConfigInv => LevelFollowsTheFiles
  BY DEF ConfigInv, FreshInv, InForce, LevelFollowsTheFiles, Settled
<1> QED BY <1>1, ConfigInvariant, PTL

(* Every bridge of an accepted configuration routes: the schema lets no source
   have two bridges, so the router's map, in which the last bridge of a source
   wins, holds them all, and it checks both ends against the merged servers. *)
THEOREM BridgesRoute == ConfigSpec => []EveryBridgeRoutes
<1>1. ConfigInv => EveryBridgeRoutes
  <2> DEFINE bridges == BridgesOf(booted)
  <2> SUFFICES ASSUME ConfigInv, stage = "serving", NEW b \in Range(bridges)
               PROVE  Target(b.from) = b.to /\ b.to # b.from
                      /\ {b.from, b.to} \subseteq Range(booted.servers)
    BY DEF EveryBridgeRoutes
  <2>1. Accepted(booted) /\ DOMAIN bridges \subseteq Nat
    BY DEF ConfigInv, BootedInv
  <2>2. {b.from, b.to} \subseteq Range(Field(booted, "servers", <<>>)) /\ b.from # b.to
    BY <2>1 DEF Accepted
  <2>3. Field(booted, "servers", <<>>) = booted.servers
    BY <2>1 DEF Accepted, Field
  <2>4. \A i, j \in DOMAIN bridges : bridges[i].from = bridges[j].from => i = j
    BY <2>1 DEF Accepted, IsInjective
  <2>5. PICK k \in DOMAIN bridges : bridges[k] = b
    BY DEF Range
  <2> DEFINE Latest(i) == /\ i \in DOMAIN bridges /\ bridges[i].from = b.from
                        /\ \A j \in DOMAIN bridges : bridges[j].from = b.from => j <= i
  <2>6. Latest(k)
    BY <2>1, <2>4, <2>5
  <2>7. \A i : Latest(i) => i = k
    BY <2>4, <2>5
  <2>8. (CHOOSE i \in DOMAIN bridges : bridges[i].from = b.from
           /\ \A j \in DOMAIN bridges : bridges[j].from = b.from => j <= i) = k
    BY <2>6, <2>7
  <2>9. Target(b.from) = b.to
    BY <2>5, <2>8 DEF Target
  <2> QED BY <2>2, <2>3, <2>9
<1> QED BY <1>1, ConfigInvariant, PTL
=============================================================================
