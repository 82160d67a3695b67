------------------------- MODULE Configuration_proofs -------------------------
(***************************************************************************)
(* What migration promises for files of any length, and for any number of  *)
(* processes that migrate them, crash or run out of space.                 *)
(*                                                                         *)
(* The functions of the model are folds over the lines of a file.  That    *)
(* they are what they look like, and that they can be reasoned about line  *)
(* by line, is proved from the well-foundedness of the natural numbers in  *)
(* a form without operator parameters (WFMin).                             *)
(***************************************************************************)
EXTENDS Configuration, WellFoundedInduction, SequenceTheorems, TLAPS

-----------------------------------------------------------------------------
(* Induction over the naturals and over sequences, with sets for formulas. *)

Less == {pair \in Nat \X Nat : pair[1] < pair[2]}

LEMMA Least == ASSUME NEW T, T \subseteq Nat, T # {} PROVE \E n \in T : \A m \in T : n <= m
<1>1. IsWellFoundedOn(Less, Nat)
  BY NatLessThanWellFounded DEF OpToRel, Less
<1>2. PICK n \in T : \A m \in T : <<m, n>> \notin Less
  BY <1>1, WFMin
<1>3. \A m \in T : n <= m
  <2>1. TAKE m \in T
  <2>2. <<m, n>> \in Nat \X Nat
    OBVIOUS
  <2>3. ~(m < n)
    BY <2>2, <1>2 DEF Less
  <2> QED BY <2>3
<1> QED BY <1>3

LEMMA Counting ==
  ASSUME NEW T, 0 \in T, \A n \in Nat : n \in T => n + 1 \in T PROVE Nat \subseteq T
<1>1. SUFFICES ASSUME Nat \ T # {} PROVE FALSE
  OBVIOUS
<1>2. PICK n \in Nat \ T : \A m \in Nat \ T : n <= m
  BY <1>1, Least
<1> QED BY <1>2

LEMMA CountingTo ==
  ASSUME NEW n \in Nat, NEW T, 0 \in T, \A i \in 1..n : i - 1 \in T => i \in T
  PROVE  \A i \in 0..n : i \in T
<1> DEFINE U == {i \in Nat : i <= n => i \in T}
<1>1. 0 \in U /\ \A i \in Nat : i \in U => i + 1 \in U
  OBVIOUS
<1>2. Nat \subseteq U
  <2> HIDE DEF U
  <2> QED BY <1>1, Counting
<1> QED BY <1>2

LEMMA Appending ==
  ASSUME NEW S, NEW T, << >> \in T,
         \A s \in Seq(S), x \in S : s \in T => Append(s, x) \in T
  PROVE  Seq(S) \subseteq T
<1> SUFFICES ASSUME NEW s \in Seq(S) PROVE s \in T
  OBVIOUS
<1> DEFINE n == Len(s)
           U == {i \in Nat : SubSeq(s, 1, i) \in T}
<1>1. n \in Nat /\ \A i \in 1..n : s[i] \in S
  OBVIOUS
<1>2. 0 \in U
  <2>1. SubSeq(s, 1, 0) = << >>
    BY SubSeqEmpty
  <2> QED BY <2>1
<1>3. ASSUME NEW i \in 1..n, i - 1 \in U PROVE i \in U
  <2>1. SubSeq(s, 1, i - 1) \in Seq(S) /\ s[i] \in S
    BY <1>1
  <2>2. SubSeq(s, 1, i) = Append(SubSeq(s, 1, i - 1), s[i])
    BY <1>1
  <2>3. SubSeq(s, 1, i) \in T
    BY <1>3, <2>1, <2>2
  <2> QED BY <2>3
<1>4. n \in U
  <2> HIDE DEF U, n
  <2>1. \A i \in 1..n : i - 1 \in U => i \in U
    BY <1>3
  <2>2. \A i \in 0..n : i \in U
    BY <1>1, <1>2, <2>1, CountingTo
  <2> QED BY <1>1, <2>2
<1>5. SubSeq(s, 1, n) = s
  BY SubSeqFull
<1> QED BY <1>4, <1>5

-----------------------------------------------------------------------------
(* FoldLeft goes over the subsets of the positions of a sequence, the last *)
(* position first.                                                         *)

LEMMA Greatest ==
  ASSUME NEW n \in Nat, NEW s \in SUBSET (1..n), s # {}
  PROVE  Max(s) \in s /\ \A x \in s : Max(s) >= x
<1> DEFINE D == {n - x : x \in s}
<1>1. D \subseteq Nat /\ D # {}
  OBVIOUS
<1>2. PICK d \in D : \A e \in D : d <= e
  <2> HIDE DEF D
  <2> QED BY <1>1, Least
<1>3. PICK x \in s : d = n - x
  BY <1>2
<1>4. \A y \in s : n - x <= n - y
  BY <1>2, <1>3
<1>5. \E z \in s : \A y \in s : z >= y
  <2>1. \A y \in s : x >= y
    BY <1>4
  <2> QED BY <2>1
<1> QED BY <1>5 DEF Max

\* F[i] is the step at position i.
IsFold(h, S, base, n, F) ==
  /\ h \in [SUBSET (1..n) -> S]
  /\ \A s \in SUBSET (1..n) :
       h[s] = IF s = {} THEN base ELSE F[Max(s)][h[s \ {Max(s)}]]

\* The same where the steps are known only for values in S.
FoldsWithin(g, S, base, n, F) ==
  /\ g[{}] = base
  /\ \A s \in SUBSET (1..n) :
       s # {} /\ g[s \ {Max(s)}] \in S => g[s] = F[Max(s)][g[s \ {Max(s)}]]

IsRun(r, S, base, n, F) ==
  /\ r \in [0..n -> S]
  /\ r[0] = base
  /\ \A i \in 1..n : r[i] = F[i][r[i - 1]]

RunsTo(v, S, base, n, F) == \E r : IsRun(r, S, base, n, F) /\ r[n] = v

LEMMA FoldExists ==
  ASSUME NEW S, NEW base \in S, NEW n \in Nat, NEW F \in [1..n -> [S -> S]]
  PROVE  \E h : IsFold(h, S, base, n, F)
<1> DEFINE Folds(h, m) == \A s \in SUBSET (1..m) :
                            h[s] = IF s = {} THEN base ELSE F[Max(s)][h[s \ {Max(s)}]]
           Folded(m) == \E h \in [SUBSET (1..m) -> S] : Folds(h, m)
           T == {m \in Nat : m <= n => Folded(m)}
<1>1. Folded(0)
  <2>1. \A s \in SUBSET (1..0) : s = {}
    BY 1..0 = {}
  <2> DEFINE h == [s \in SUBSET (1..0) |-> base]
  <2>2. h \in [SUBSET (1..0) -> S]
    OBVIOUS
  <2>3. Folds(h, 0)
    BY <2>1
  <2> HIDE DEF h
  <2>4. \E g \in [SUBSET (1..0) -> S] : Folds(g, 0)
    BY <2>2, <2>3
  <2> HIDE DEF Folds
  <2> QED BY <2>4
<1>2. ASSUME NEW m \in Nat, m + 1 <= n, Folded(m) PROVE Folded(m + 1)
  <2>2. PICK h \in [SUBSET (1..m) -> S] : Folds(h, m)
    BY <1>2
  <2>3. ASSUME NEW s \in SUBSET (1..(m + 1))
        PROVE  s \ {m + 1} \in SUBSET (1..m) /\ (m + 1 \notin s => s \in SUBSET (1..m))
    OBVIOUS
  <2> DEFINE g == [s \in SUBSET (1..(m + 1)) |->
                     IF m + 1 \in s THEN F[m + 1][h[s \ {m + 1}]] ELSE h[s]]
  <2>4. F[m + 1] \in [S -> S]
    BY <1>2
  <2>5. ASSUME NEW s \in SUBSET (1..(m + 1)) PROVE g[s] \in S
    BY <2>3, <2>4
  <2>6. g \in [SUBSET (1..(m + 1)) -> S]
    BY <2>5
  <2>7. ASSUME NEW s \in SUBSET (1..(m + 1))
        PROVE  g[s] = IF s = {} THEN base ELSE F[Max(s)][g[s \ {Max(s)}]]
    <3>1. CASE m + 1 \in s
      <4>1. Max(s) \in s /\ \A x \in s : Max(s) >= x
        <5>1. m + 1 \in Nat /\ s # {}
          BY <3>1
        <5>2. s \in SUBSET (1..(m + 1))
          OBVIOUS
        <5> HIDE DEF g
        <5> QED BY <5>1, <5>2, Greatest
      <4>2. Max(s) = m + 1
        <5>1. Max(s) >= m + 1
          BY <3>1, <4>1
        <5>2. Max(s) \in 1..(m + 1)
          BY <4>1
        <5> HIDE DEF g
        <5> QED BY <5>1, <5>2
      <4>3. PICK q : q = s \ {m + 1}
        OBVIOUS
      <4>4. g[q] = h[q]
        BY <4>3
      <4>5. g[s] = F[m + 1][h[q]] /\ s # {}
        BY <3>1, <4>3
      <4> HIDE DEF g
      <4> QED BY <4>2, <4>3, <4>4, <4>5
    <3>2. CASE m + 1 \notin s
      <4>1. s \in SUBSET (1..m) /\ g[s] = h[s]
        BY <2>3, <3>2
      <4>2. s \ {Max(s)} \in SUBSET (1..(m + 1)) /\ m + 1 \notin s \ {Max(s)}
        BY <3>2
      <4>3. g[s \ {Max(s)}] = h[s \ {Max(s)}]
        BY <4>2
      <4> QED BY <2>2, <4>1, <4>3
    <3> QED BY <3>1, <3>2
  <2>8. Folds(g, m + 1)
    BY <2>7
  <2> HIDE DEF g
  <2> QED BY <2>6, <2>8
<1> HIDE DEF Folded
<1>3. 0 \in T /\ \A m \in Nat : m \in T => m + 1 \in T
  BY <1>1, <1>2
<1>4. n \in T
  <2> HIDE DEF T
  <2> QED BY <1>3, Counting
<1>5. Folded(n)
  BY <1>4
<1> QED BY <1>5 DEF Folded, IsFold

LEMMA Prefix ==
  ASSUME NEW n \in Nat, NEW i \in 1..n
  PROVE  /\ 1..i \in SUBSET (1..n) /\ 1..i # {} /\ Max(1..i) = i
         /\ (1..i) \ {i} = 1..(i - 1)
<1>1. 1..i \in SUBSET (1..n) /\ i \in 1..i
  OBVIOUS
<1>2. Max(1..i) \in 1..i /\ Max(1..i) >= i
  BY <1>1, Greatest
<1>3. Max(1..i) = i
  BY <1>2
<1>4. (1..i) \ {i} = 1..(i - 1)
  OBVIOUS
<1> QED BY <1>1, <1>3, <1>4

\* A fold along the prefixes of the sequence.
LEMMA FoldRuns ==
  ASSUME NEW S, NEW base \in S, NEW n \in Nat, NEW F \in [1..n -> [S -> S]], NEW g,
         FoldsWithin(g, S, base, n, F)
  PROVE  RunsTo(g[1..n], S, base, n, F)
<1> DEFINE T == {i \in 0..n : g[1..i] \in S}
           r == [i \in 0..n |-> g[1..i]]
<1>1. g[1..0] = base
  BY 1..0 = {} DEF FoldsWithin
<1>2. ASSUME NEW i \in 1..n, g[1..(i - 1)] \in S
      PROVE  g[1..i] = F[i][g[1..(i - 1)]] /\ g[1..i] \in S
  <2>1. g[1..i] = F[i][g[1..(i - 1)]]
    BY <1>2, Prefix DEF FoldsWithin
  <2>2. F[i] \in [S -> S]
    OBVIOUS
  <2> QED BY <1>2, <2>1, <2>2
<1>3. \A i \in 0..n : g[1..i] \in S
  <2>1. 0 \in T /\ \A i \in 1..n : i - 1 \in T => i \in T
    BY <1>1, <1>2
  <2>2. \A i \in 0..n : i \in T
    <3> HIDE DEF T
    <3> QED BY <2>1, CountingTo
  <2> QED BY <2>2
<1>4. r \in [0..n -> S] /\ r[0] = base /\ r[n] = g[1..n]
  BY <1>1, <1>3
<1>5. ASSUME NEW i \in 1..n PROVE r[i] = F[i][r[i - 1]]
  <2>1. i - 1 \in 0..n /\ i \in 0..n
    OBVIOUS
  <2>2. r[i] = g[1..i] /\ r[i - 1] = g[1..(i - 1)]
    BY <2>1
  <2> HIDE DEF r
  <2> QED BY <1>2, <1>3, <2>1, <2>2
<1> HIDE DEF r
<1>6. IsRun(r, S, base, n, F)
  BY <1>4, <1>5 DEF IsRun
<1> QED BY <1>4, <1>6 DEF RunsTo

\* Two runs over the same positions agree.
LEMMA RunsAgree ==
  ASSUME NEW S, NEW base, NEW n \in Nat, NEW m \in Nat, n <= m, NEW F, NEW G, NEW r, NEW q,
         IsRun(r, S, base, n, F), IsRun(q, S, base, m, G), \A i \in 1..n : F[i] = G[i]
  PROVE  r[n] = q[n]
<1> DEFINE T == {i \in 0..n : r[i] = q[i]}
<1>1. 0 \in T /\ \A i \in 1..n : i - 1 \in T => i \in T
  BY DEF IsRun
<1>2. n \in T
  <2> HIDE DEF T
  <2> QED BY <1>1, CountingTo
<1> QED BY <1>2

-----------------------------------------------------------------------------
(* The parser, line by line.                                               *)

Keys == DOMAIN SectionOf
Values == Texts \cup {"true"} \cup {create_default[k] : k \in Keys}
Parses == [ok : BOOLEAN, section : Texts, settings : [Keys -> Values]]
NewParse == [ok |-> TRUE, section |-> "", settings |-> create_default]

LEMMA Sections == \A k \in Keys : SectionOf[k] \notin {"", "meta"}
<1>1. Keys = {"level", "session_type", "wayland_display", "socket_name", "executable",
              "autostart", "WAYLAND_DISPLAY"}
  BY DEF Keys, SectionOf
<1>2. /\ SectionOf["level"] = "logging" /\ SectionOf["session_type"] = "session"
      /\ SectionOf["wayland_display"] = "session" /\ SectionOf["socket_name"] = "weston"
      /\ SectionOf["executable"] = "ldde" /\ SectionOf["autostart"] = "ldde"
      /\ SectionOf["WAYLAND_DISPLAY"] = "environment"
  BY DEF SectionOf
<1>3. \A k \in Keys : SectionOf[k] \in {"logging", "session", "weston", "ldde", "environment"}
  BY <1>1, <1>2, Zenon
<1> QED BY <1>3

LEMMA NewParseType == NewParse \in Parses
<1>1. create_default = [k \in DOMAIN create_default |-> create_default[k]]
  BY DEF create_default
<1>2. DOMAIN create_default = Keys
  BY DEF create_default, Keys, SectionOf
<1>3. create_default \in [Keys -> Values]
  <2> DEFINE d == create_default
  <2>1. d = [k \in Keys |-> d[k]] /\ \A k \in Keys : d[k] \in Values
    BY <1>1, <1>2 DEF Values
  <2> HIDE DEF d
  <2>2. d \in [Keys -> Values]
    BY <2>1
  <2> QED BY <2>2 DEF d
<1> QED BY <1>3, ConfigurationAssumption DEF NewParse, Parses

LEMMA ParseLineType ==
  ASSUME NEW parse \in Parses, NEW line \in Lines PROVE ParseLine(parse, line) \in Parses
<1>1. Converted(line.of, line.value) \in Values
  BY DEF Lines, Converted, Values
<1>2. CASE line.kind = "header"
  BY <1>2 DEF ParseLine, Parses, Lines
<1>3. CASE line.kind = "junk"
  BY <1>3 DEF ParseLine, Parses
<1>4. CASE line.kind = "setting" /\ SectionOf[line.of] = parse.section
  <2>1. [parse EXCEPT !.ok = FALSE] \in Parses
    BY DEF Parses
  <2>2. [parse EXCEPT !.settings[line.of] = Converted(line.of, line.value)] \in Parses
    BY <1>1 DEF Parses
  <2> QED BY <1>4, <2>1, <2>2 DEF ParseLine
<1>5. CASE line.kind \notin {"header", "junk"} /\ ~(line.kind = "setting" /\ SectionOf[line.of] = parse.section)
  BY <1>5 DEF ParseLine
<1> QED BY <1>2, <1>3, <1>4, <1>5

ParseSteps(content) == [i \in 1..Len(content) |-> [parse \in Parses |-> ParseLine(parse, content[i])]]

LEMMA ParseRuns ==
  ASSUME NEW content \in Seq(Lines)
  PROVE  \E r : /\ IsRun(r, Parses, NewParse, Len(content), ParseSteps(content))
               /\ Parse(content, create_default) = r[Len(content)]
<1> DEFINE n == Len(content)
           F == ParseSteps(content)
<1>1. n \in Nat /\ DOMAIN content = 1..n /\ \A i \in 1..n : content[i] \in Lines
  OBVIOUS
<1>2. F \in [1..n -> [Parses -> Parses]]
  BY <1>1, ParseLineType DEF ParseSteps
<1>3. ASSUME NEW s \in SUBSET (1..n), s # {}, NEW p \in Parses
      PROVE  F[Max(s)][p] = ParseLine(p, content[Max(s)])
  BY <1>1, <1>3, Greatest DEF ParseSteps
<1> HIDE DEF n, F
<1>4. PICK h : IsFold(h, Parses, NewParse, n, F)
  BY <1>1, <1>2, NewParseType, FoldExists
<1>5. \A s \in SUBSET (1..n) :
        h[s] = IF s = {} THEN NewParse ELSE ParseLine(h[s \ {Max(s)}], content[Max(s)])
  BY <1>1, <1>3, <1>4, Greatest DEF IsFold
<1>6. h = [s \in SUBSET DOMAIN content |->
             IF s = {} THEN NewParse ELSE ParseLine(h[s \ {Max(s)}], content[Max(s)])]
  BY <1>1, <1>4, <1>5 DEF IsFold
<1>7. PICK g : /\ g = [s \in SUBSET DOMAIN content |->
                 IF s = {} THEN NewParse ELSE ParseLine(g[s \ {Max(s)}], content[Max(s)])]
               /\ FoldLeft(ParseLine, NewParse, content) = g[DOMAIN content]
  <2>1. \E g : g = [s \in SUBSET DOMAIN content |->
             IF s = {} THEN NewParse ELSE ParseLine(g[s \ {Max(s)}], content[Max(s)])]
    BY <1>6
  <2> QED BY <2>1 DEF FoldLeft, MapThenFoldSet
<1>8. FoldsWithin(g, Parses, NewParse, n, F)
  <2>1. \A s \in SUBSET (1..n) :
          g[s] = IF s = {} THEN NewParse ELSE ParseLine(g[s \ {Max(s)}], content[Max(s)])
    BY <1>1, <1>7
  <2>2. g[{}] = NewParse
    BY <2>1
  <2> QED BY <1>3, <2>1, <2>2 DEF FoldsWithin
<1>9. RunsTo(g[1..n], Parses, NewParse, n, F)
  BY <1>1, <1>2, <1>8, NewParseType, FoldRuns
<1>10. Parse(content, create_default) = g[1..n]
  BY <1>1, <1>7 DEF Parse, NewParse
<1> QED BY <1>9, <1>10 DEF RunsTo, n, F

LEMMA ParseAppend ==
  ASSUME NEW content \in Seq(Lines), NEW line \in Lines
  PROVE  /\ Parse(content, create_default) \in Parses
         /\ Parse(Append(content, line), create_default)
              = ParseLine(Parse(content, create_default), line)
<1> DEFINE n == Len(content)
           more == Append(content, line)
<1>1. /\ n \in Nat /\ more \in Seq(Lines) /\ Len(more) = n + 1 /\ more[n + 1] = line
      /\ \A i \in 1..n : more[i] = content[i]
  OBVIOUS
<1>2. PICK r : /\ IsRun(r, Parses, NewParse, n, ParseSteps(content))
               /\ Parse(content, create_default) = r[n]
  BY ParseRuns
<1> HIDE DEF more, n
<1>3. PICK q : /\ IsRun(q, Parses, NewParse, n + 1, ParseSteps(more))
               /\ Parse(more, create_default) = q[n + 1]
  BY <1>1, ParseRuns
<1>4. \A i \in 1..n : ParseSteps(content)[i] = ParseSteps(more)[i]
  BY <1>1 DEF ParseSteps, n
<1>5. r[n] = q[n]
  BY <1>1, <1>2, <1>3, <1>4, RunsAgree
<1>6. r[n] \in Parses
  BY <1>1, <1>2 DEF IsRun
<1>7. q[n + 1] = ParseLine(q[n], line)
  <2>1. q[n + 1] = ParseSteps(more)[n + 1][q[n]]
    BY <1>1, <1>3 DEF IsRun
  <2> QED BY <1>1, <1>5, <1>6, <2>1 DEF ParseSteps
<1> QED BY <1>2, <1>3, <1>5, <1>6, <1>7 DEF more

LEMMA ParseEmpty == Parse(<< >>, create_default) = NewParse
<1>1. << >> \in Seq(Lines) /\ Len(<< >>) = 0
  OBVIOUS
<1>2. PICK r : /\ IsRun(r, Parses, NewParse, Len(<< >>), ParseSteps(<< >>))
               /\ Parse(<< >>, create_default) = r[Len(<< >>)]
  BY <1>1, ParseRuns
<1> QED BY <1>1, <1>2 DEF IsRun
-----------------------------------------------------------------------------
(* The detection of the version, line by line.                             *)

Seens == [found : BOOLEAN, section : Texts \cup {"unknown"}, version : Nat]
NewSeen == [found |-> FALSE, section |-> "", version |-> 0]
Seen(content) == FoldLeft(SeeVersion, NewSeen, content)

LEMMA NewSeenType == NewSeen \in Seens
BY ConfigurationAssumption DEF NewSeen, Seens

LEMMA SeeVersionType ==
  ASSUME NEW seen \in Seens, NEW line \in Lines PROVE SeeVersion(seen, line) \in Seens
BY DEF SeeVersion, Seens, Lines

SeenSteps(content) == [i \in 1..Len(content) |-> [x \in Seens |-> SeeVersion(x, content[i])]]

LEMMA SeenRuns ==
  ASSUME NEW content \in Seq(Lines)
  PROVE  \E r : /\ IsRun(r, Seens, NewSeen, Len(content), SeenSteps(content))
               /\ Seen(content) = r[Len(content)]
<1> DEFINE n == Len(content)
           F == SeenSteps(content)
<1>1. n \in Nat /\ DOMAIN content = 1..n /\ \A i \in 1..n : content[i] \in Lines
  OBVIOUS
<1>2. F \in [1..n -> [Seens -> Seens]]
  BY <1>1, SeeVersionType DEF SeenSteps
<1>3. ASSUME NEW s \in SUBSET (1..n), s # {}, NEW p \in Seens
      PROVE  F[Max(s)][p] = SeeVersion(p, content[Max(s)])
  BY <1>1, <1>3, Greatest DEF SeenSteps
<1> HIDE DEF n, F
<1>4. PICK h : IsFold(h, Seens, NewSeen, n, F)
  BY <1>1, <1>2, NewSeenType, FoldExists
<1>5. \A s \in SUBSET (1..n) :
        h[s] = IF s = {} THEN NewSeen ELSE SeeVersion(h[s \ {Max(s)}], content[Max(s)])
  BY <1>1, <1>3, <1>4, Greatest DEF IsFold
<1>6. h = [s \in SUBSET DOMAIN content |->
             IF s = {} THEN NewSeen ELSE SeeVersion(h[s \ {Max(s)}], content[Max(s)])]
  BY <1>1, <1>4, <1>5 DEF IsFold
<1>7. PICK g : /\ g = [s \in SUBSET DOMAIN content |->
                 IF s = {} THEN NewSeen ELSE SeeVersion(g[s \ {Max(s)}], content[Max(s)])]
               /\ FoldLeft(SeeVersion, NewSeen, content) = g[DOMAIN content]
  <2>1. \E g : g = [s \in SUBSET DOMAIN content |->
             IF s = {} THEN NewSeen ELSE SeeVersion(g[s \ {Max(s)}], content[Max(s)])]
    BY <1>6
  <2> QED BY <2>1 DEF FoldLeft, MapThenFoldSet
<1>8. FoldsWithin(g, Seens, NewSeen, n, F)
  <2>1. \A s \in SUBSET (1..n) :
          g[s] = IF s = {} THEN NewSeen ELSE SeeVersion(g[s \ {Max(s)}], content[Max(s)])
    BY <1>1, <1>7
  <2>2. g[{}] = NewSeen
    BY <2>1
  <2> QED BY <1>3, <2>1, <2>2 DEF FoldsWithin
<1>9. RunsTo(g[1..n], Seens, NewSeen, n, F)
  BY <1>1, <1>2, <1>8, NewSeenType, FoldRuns
<1>10. Seen(content) = g[1..n]
  BY <1>1, <1>7 DEF Seen, NewSeen
<1> QED BY <1>9, <1>10 DEF RunsTo, n, F

LEMMA SeenAppend ==
  ASSUME NEW content \in Seq(Lines), NEW line \in Lines
  PROVE  /\ Seen(content) \in Seens
         /\ Seen(Append(content, line))
              = SeeVersion(Seen(content), line)
<1> DEFINE n == Len(content)
           more == Append(content, line)
<1>1. /\ n \in Nat /\ more \in Seq(Lines) /\ Len(more) = n + 1 /\ more[n + 1] = line
      /\ \A i \in 1..n : more[i] = content[i]
  OBVIOUS
<1>2. PICK r : /\ IsRun(r, Seens, NewSeen, n, SeenSteps(content))
               /\ Seen(content) = r[n]
  BY SeenRuns
<1> HIDE DEF more, n
<1>3. PICK q : /\ IsRun(q, Seens, NewSeen, n + 1, SeenSteps(more))
               /\ Seen(more) = q[n + 1]
  BY <1>1, SeenRuns
<1>4. \A i \in 1..n : SeenSteps(content)[i] = SeenSteps(more)[i]
  BY <1>1 DEF SeenSteps, n
<1>5. r[n] = q[n]
  BY <1>1, <1>2, <1>3, <1>4, RunsAgree
<1>6. r[n] \in Seens
  BY <1>1, <1>2 DEF IsRun
<1>7. q[n + 1] = SeeVersion(q[n], line)
  <2>1. q[n + 1] = SeenSteps(more)[n + 1][q[n]]
    BY <1>1, <1>3 DEF IsRun
  <2> QED BY <1>1, <1>5, <1>6, <2>1 DEF SeenSteps
<1> QED BY <1>2, <1>3, <1>5, <1>6, <1>7 DEF more

LEMMA SeenEmpty == Seen(<< >>) = NewSeen
<1>1. << >> \in Seq(Lines) /\ Len(<< >>) = 0
  OBVIOUS
<1>2. PICK r : /\ IsRun(r, Seens, NewSeen, Len(<< >>), SeenSteps(<< >>))
               /\ Seen(<< >>) = r[Len(<< >>)]
  BY <1>1, SeenRuns
<1> QED BY <1>1, <1>2 DEF IsRun
-----------------------------------------------------------------------------
(* The removal of [meta], line by line.                                    *)

Keeps == [meta : BOOLEAN, lines : Seq(Lines)]
NewKeep == [meta |-> FALSE, lines |-> << >>]
Kept(content) == FoldLeft(Keep, NewKeep, content)

LEMMA NewKeepType == NewKeep \in Keeps
BY DEF NewKeep, Keeps

LEMMA KeepType ==
  ASSUME NEW kept \in Keeps, NEW line \in Lines PROVE Keep(kept, line) \in Keeps
<1>1. Append(kept.lines, line) \in Seq(Lines)
  BY DEF Keeps
<1> QED BY <1>1 DEF Keep, Keeps

KeepSteps(content) == [i \in 1..Len(content) |-> [x \in Keeps |-> Keep(x, content[i])]]

LEMMA KeptRuns ==
  ASSUME NEW content \in Seq(Lines)
  PROVE  \E r : /\ IsRun(r, Keeps, NewKeep, Len(content), KeepSteps(content))
               /\ Kept(content) = r[Len(content)]
<1> DEFINE n == Len(content)
           F == KeepSteps(content)
<1>1. n \in Nat /\ DOMAIN content = 1..n /\ \A i \in 1..n : content[i] \in Lines
  OBVIOUS
<1>2. F \in [1..n -> [Keeps -> Keeps]]
  BY <1>1, KeepType DEF KeepSteps
<1>3. ASSUME NEW s \in SUBSET (1..n), s # {}, NEW p \in Keeps
      PROVE  F[Max(s)][p] = Keep(p, content[Max(s)])
  BY <1>1, <1>3, Greatest DEF KeepSteps
<1> HIDE DEF n, F
<1>4. PICK h : IsFold(h, Keeps, NewKeep, n, F)
  BY <1>1, <1>2, NewKeepType, FoldExists
<1>5. \A s \in SUBSET (1..n) :
        h[s] = IF s = {} THEN NewKeep ELSE Keep(h[s \ {Max(s)}], content[Max(s)])
  BY <1>1, <1>3, <1>4, Greatest DEF IsFold
<1>6. h = [s \in SUBSET DOMAIN content |->
             IF s = {} THEN NewKeep ELSE Keep(h[s \ {Max(s)}], content[Max(s)])]
  BY <1>1, <1>4, <1>5 DEF IsFold
<1>7. PICK g : /\ g = [s \in SUBSET DOMAIN content |->
                 IF s = {} THEN NewKeep ELSE Keep(g[s \ {Max(s)}], content[Max(s)])]
               /\ FoldLeft(Keep, NewKeep, content) = g[DOMAIN content]
  <2>1. \E g : g = [s \in SUBSET DOMAIN content |->
             IF s = {} THEN NewKeep ELSE Keep(g[s \ {Max(s)}], content[Max(s)])]
    BY <1>6
  <2> QED BY <2>1 DEF FoldLeft, MapThenFoldSet
<1>8. FoldsWithin(g, Keeps, NewKeep, n, F)
  <2>1. \A s \in SUBSET (1..n) :
          g[s] = IF s = {} THEN NewKeep ELSE Keep(g[s \ {Max(s)}], content[Max(s)])
    BY <1>1, <1>7
  <2>2. g[{}] = NewKeep
    BY <2>1
  <2> QED BY <1>3, <2>1, <2>2 DEF FoldsWithin
<1>9. RunsTo(g[1..n], Keeps, NewKeep, n, F)
  BY <1>1, <1>2, <1>8, NewKeepType, FoldRuns
<1>10. Kept(content) = g[1..n]
  BY <1>1, <1>7 DEF Kept, NewKeep
<1> QED BY <1>9, <1>10 DEF RunsTo, n, F

LEMMA KeptAppend ==
  ASSUME NEW content \in Seq(Lines), NEW line \in Lines
  PROVE  /\ Kept(content) \in Keeps
         /\ Kept(Append(content, line))
              = Keep(Kept(content), line)
<1> DEFINE n == Len(content)
           more == Append(content, line)
<1>1. /\ n \in Nat /\ more \in Seq(Lines) /\ Len(more) = n + 1 /\ more[n + 1] = line
      /\ \A i \in 1..n : more[i] = content[i]
  OBVIOUS
<1>2. PICK r : /\ IsRun(r, Keeps, NewKeep, n, KeepSteps(content))
               /\ Kept(content) = r[n]
  BY KeptRuns
<1> HIDE DEF more, n
<1>3. PICK q : /\ IsRun(q, Keeps, NewKeep, n + 1, KeepSteps(more))
               /\ Kept(more) = q[n + 1]
  BY <1>1, KeptRuns
<1>4. \A i \in 1..n : KeepSteps(content)[i] = KeepSteps(more)[i]
  BY <1>1 DEF KeepSteps, n
<1>5. r[n] = q[n]
  BY <1>1, <1>2, <1>3, <1>4, RunsAgree
<1>6. r[n] \in Keeps
  BY <1>1, <1>2 DEF IsRun
<1>7. q[n + 1] = Keep(q[n], line)
  <2>1. q[n + 1] = KeepSteps(more)[n + 1][q[n]]
    BY <1>1, <1>3 DEF IsRun
  <2> QED BY <1>1, <1>5, <1>6, <2>1 DEF KeepSteps
<1> QED BY <1>2, <1>3, <1>5, <1>6, <1>7 DEF more

LEMMA KeptEmpty == Kept(<< >>) = NewKeep
<1>1. << >> \in Seq(Lines) /\ Len(<< >>) = 0
  OBVIOUS
<1>2. PICK r : /\ IsRun(r, Keeps, NewKeep, Len(<< >>), KeepSteps(<< >>))
               /\ Kept(<< >>) = r[Len(<< >>)]
  BY <1>1, KeptRuns
<1> QED BY <1>1, <1>2 DEF IsRun
-----------------------------------------------------------------------------
(* What migration does to a file.                                          *)

LEMMA HeaderLines ==
  /\ Note \in Lines /\ Header("meta") \in Lines /\ Blank \in Lines
  /\ VersionKey(CURRENT_CONFIG_VERSION) \in Lines
BY ConfigurationAssumption
   DEF Lines, Kinds, Note, Header, Blank, VersionKey, Line, CURRENT_CONFIG_VERSION

LEMMA HeaderByLine ==
  /\ MetaHeader \in Seq(Lines)
  /\ MetaHeader = Append(Append(Append(Append(<< >>, Note), Header("meta")),
                                VersionKey(CURRENT_CONFIG_VERSION)), Blank)
BY HeaderLines DEF MetaHeader

\* The parser and the detection after the header that migration writes.
LEMMA HeaderRead ==
  /\ Parse(MetaHeader, create_default) = [NewParse EXCEPT !.section = "meta"]
  /\ Seen(MetaHeader).found /\ Seen(MetaHeader).version = CURRENT_CONFIG_VERSION
<1> DEFINE a == Append(<< >>, Note)
           b == Append(a, Header("meta"))
           c == Append(b, VersionKey(CURRENT_CONFIG_VERSION))
<1>1. << >> \in Seq(Lines) /\ a \in Seq(Lines) /\ b \in Seq(Lines) /\ c \in Seq(Lines)
  BY HeaderLines
<1>2. MetaHeader = Append(c, Blank)
  BY HeaderByLine
<1>3. /\ Parse(a, create_default) = ParseLine(NewParse, Note)
      /\ Seen(a) = SeeVersion(NewSeen, Note)
  BY <1>1, HeaderLines, ParseEmpty, ParseAppend, SeenEmpty, SeenAppend
<1> HIDE DEF a
<1>4. /\ Parse(b, create_default) = ParseLine(Parse(a, create_default), Header("meta"))
      /\ Seen(b) = SeeVersion(Seen(a), Header("meta"))
  BY <1>1, HeaderLines, ParseAppend, SeenAppend
<1> HIDE DEF b
<1>5. /\ Parse(c, create_default)
           = ParseLine(Parse(b, create_default), VersionKey(CURRENT_CONFIG_VERSION))
      /\ Seen(c) = SeeVersion(Seen(b), VersionKey(CURRENT_CONFIG_VERSION))
  BY <1>1, HeaderLines, ParseAppend, SeenAppend
<1> HIDE DEF c
<1>6. /\ Parse(MetaHeader, create_default) = ParseLine(Parse(c, create_default), Blank)
      /\ Seen(MetaHeader) = SeeVersion(Seen(c), Blank)
  BY <1>1, <1>2, HeaderLines, ParseAppend, SeenAppend
<1>7. Parse(a, create_default) = NewParse /\ Seen(a) = NewSeen
  BY <1>3 DEF Note, Line, ParseLine, SeeVersion, NewSeen
<1>8. /\ Parse(b, create_default) = [NewParse EXCEPT !.section = "meta"]
      /\ Seen(b) \in Seens /\ Seen(b).found = FALSE /\ Seen(b).section = "meta"
  <2> DEFINE line == Header("meta")
  <2>1. line.kind = "header" /\ line.of = "meta" /\ line.exact = TRUE
    BY DEF Header, Line
  <2>2. ~NewSeen.found
    BY DEF NewSeen
  <2> HIDE DEF line
  <2>3. ParseLine(NewParse, line) = [NewParse EXCEPT !.section = "meta"]
    BY <2>1 DEF ParseLine
  <2>4. SeeVersion(NewSeen, line) = [NewSeen EXCEPT !.section = "meta"]
    BY <2>1, <2>2 DEF SeeVersion
  <2>5. Seen(b) = [NewSeen EXCEPT !.section = "meta"]
    BY <1>4, <1>7, <2>4 DEF line
  <2>6. Seen(b) \in Seens
    BY <1>1, HeaderLines, SeenAppend
  <2> QED BY <1>4, <1>7, <2>2, <2>3, <2>5, <2>6, NewSeenType DEF line, Seens
<1>9. /\ Parse(c, create_default) = [NewParse EXCEPT !.section = "meta"]
      /\ Seen(c).found /\ Seen(c).version = CURRENT_CONFIG_VERSION
  <2> DEFINE line == VersionKey(CURRENT_CONFIG_VERSION)
  <2>1. line.kind = "versionKey" /\ line.version = CURRENT_CONFIG_VERSION
    BY DEF VersionKey, Line
  <2>2. PICK seen \in Seens : seen = Seen(b)
    BY <1>8
  <2>3. CURRENT_CONFIG_VERSION # Unreadable
    BY DEF CURRENT_CONFIG_VERSION, Unreadable
  <2> HIDE DEF line
  <2>4. \A parse : ParseLine(parse, line) = parse
    BY <2>1 DEF ParseLine
  <2>7. seen.found = FALSE /\ seen.section = "meta"
    BY <1>8, <2>2
  <2>5. SeeVersion(seen, line) = [seen EXCEPT !.found = TRUE, !.version = line.version]
    BY <2>1, <2>7, <2>3 DEF SeeVersion
  <2>6. SeeVersion(seen, line).found /\ SeeVersion(seen, line).version = CURRENT_CONFIG_VERSION
    BY <2>1, <2>5 DEF Seens
  <2> QED BY <1>5, <1>8, <2>2, <2>4, <2>6 DEF line
<1> QED BY <1>6, <1>9 DEF Blank, Line, ParseLine, SeeVersion

LEMMA Longer ==
  ASSUME NEW s \in Seq(Lines), NEW line \in Lines
  PROVE  /\ MetaHeader \o s \in Seq(Lines)
         /\ MetaHeader \o Append(s, line) = Append(MetaHeader \o s, line)
BY HeaderByLine, AppendIsConcat

\* The version that migration writes is the one that is found.
LEMMA HeaderFound ==
  ASSUME NEW s \in Seq(Lines) PROVE detect_version(MetaHeader \o s) = CURRENT_CONFIG_VERSION
<1> DEFINE T == {t \in Seq(Lines) : /\ Seen(MetaHeader \o t).found
                                    /\ Seen(MetaHeader \o t).version = CURRENT_CONFIG_VERSION}
<1>1. << >> \in T
  <2>1. MetaHeader \o << >> = MetaHeader
    BY HeaderByLine
  <2> QED BY <2>1, HeaderRead
<1>2. ASSUME NEW t \in Seq(Lines), NEW line \in Lines, t \in T PROVE Append(t, line) \in T
  <2>1. Seen(MetaHeader \o Append(t, line)) = SeeVersion(Seen(MetaHeader \o t), line)
    BY Longer, SeenAppend
  <2>2. SeeVersion(Seen(MetaHeader \o t), line) = Seen(MetaHeader \o t)
    BY <1>2 DEF SeeVersion
  <2> QED BY <1>2, <2>1, <2>2
<1>3. s \in T
  <2> HIDE DEF T
  <2> QED BY <1>1, <1>2, Appending
<1> QED BY <1>3 DEF detect_version, Seen, NewSeen

\* Old and new file, read so far: the settings are the same, and where the
\* sections differ no setting is taken in either.
Tracks(content) ==
  LET kept == Kept(content)
      old  == Parse(content, create_default)
      new  == Parse(MetaHeader \o kept.lines, create_default)
  IN  /\ new.settings = old.settings
      /\ old.ok => new.ok
      /\ kept.meta => old.section = "meta"
      /\ ~kept.meta => new.section = old.section \/ {new.section, old.section} \subseteq {"", "meta"}

LEMMA TracksStep ==
  ASSUME NEW content \in Seq(Lines), NEW line \in Lines, Tracks(content)
  PROVE  Tracks(Append(content, line))
<1> DEFINE kept == Kept(content)
           old == Parse(content, create_default)
           new == Parse(MetaHeader \o kept.lines, create_default)
           kept2 == Kept(Append(content, line))
           old2 == Parse(Append(content, line), create_default)
           new2 == Parse(MetaHeader \o kept2.lines, create_default)
<1>1. kept \in Keeps /\ kept2 = Keep(kept, line)
  BY KeptAppend
<1>2. old \in Parses /\ old2 = ParseLine(old, line)
  BY ParseAppend
<1>3. kept.lines \in Seq(Lines)
  BY <1>1 DEF Keeps
<1>4. /\ new \in Parses
      /\ kept2.lines = Append(kept.lines, line) => new2 = ParseLine(new, line)
  BY <1>3, Longer, ParseAppend
<1>5. kept2.lines = kept.lines => new2 = new
  OBVIOUS
<1>6. /\ new.settings = old.settings
      /\ old.ok => new.ok
      /\ kept.meta => old.section = "meta"
      /\ ~kept.meta => new.section = old.section \/ {new.section, old.section} \subseteq {"", "meta"}
  BY DEF Tracks
<1> HIDE DEF kept, old, new, kept2, old2, new2
<1>7. /\ new2.settings = old2.settings
      /\ old2.ok => new2.ok
      /\ kept2.meta => old2.section = "meta"
      /\ ~kept2.meta =>
           new2.section = old2.section \/ {new2.section, old2.section} \subseteq {"", "meta"}
  <2>1. CASE line.kind = "header" /\ line.exact /\ line.of = "meta"
    <3>1. kept2.meta /\ kept2.lines = kept.lines
      BY <1>1, <2>1 DEF Keep, Keeps
    <3>2. old2.section = "meta" /\ old2.ok = old.ok /\ old2.settings = old.settings
      BY <1>2, <2>1 DEF ParseLine, Parses
    <3> QED BY <1>5, <1>6, <3>1, <3>2
  <2>2. CASE line.kind = "header" /\ ~(line.exact /\ line.of = "meta")
    <3>1. ~kept2.meta /\ kept2.lines = Append(kept.lines, line)
      BY <1>1, <2>2 DEF Keep, Keeps
    <3>2. old2.section = line.of /\ old2.ok = old.ok /\ old2.settings = old.settings
      BY <1>2, <2>2 DEF ParseLine, Parses
    <3>3. new2.section = line.of /\ new2.ok = new.ok /\ new2.settings = new.settings
      BY <1>4, <2>2, <3>1 DEF ParseLine, Parses
    <3> QED BY <1>6, <3>1, <3>2, <3>3
  <2>3. CASE line.kind # "header" /\ kept.meta
    <3>1. kept2 = kept
      BY <1>1, <2>3 DEF Keep
    <3>2. ~(line.kind = "setting" /\ SectionOf[line.of] = old.section)
      BY <1>6, <2>3, Sections DEF Lines, Keys
    <3>3. old2.section = old.section /\ old2.settings = old.settings /\ (old2.ok => old.ok)
      BY <1>2, <2>3, <3>2 DEF ParseLine, Parses
    <3> QED BY <1>5, <1>6, <2>3, <3>1, <3>3
  <2>4. CASE line.kind # "header" /\ ~kept.meta
    <3>1. ~kept2.meta /\ kept2.lines = Append(kept.lines, line)
      BY <1>1, <2>4 DEF Keep, Keeps
    <3>2. new2 = ParseLine(new, line) /\ old2 = ParseLine(old, line)
      BY <1>2, <1>4, <3>1
    <3>3. CASE line.kind = "junk"
      <4>1. old2 = [old EXCEPT !.ok = FALSE] /\ new2 = [new EXCEPT !.ok = FALSE]
        BY <3>2, <3>3 DEF ParseLine
      <4> QED BY <1>2, <1>4, <1>6, <2>4, <3>1, <4>1 DEF Parses
    <3>4. CASE line.kind = "setting"
      <4>1. SectionOf[line.of] \notin {"", "meta"}
        BY <3>4, Sections DEF Lines, Keys
      <4>2. CASE SectionOf[line.of] = old.section /\ SectionOf[line.of] = new.section
        <5> DEFINE refused == line.of = "level" /\ line.value \notin LogLevels
                   value == Converted(line.of, line.value)
        <5>1. refused => /\ old2 = [old EXCEPT !.ok = FALSE]
                         /\ new2 = [new EXCEPT !.ok = FALSE]
          BY <3>2, <3>4, <4>2 DEF ParseLine
        <5>2. ~refused => /\ old2 = [old EXCEPT !.settings[line.of] = value]
                          /\ new2 = [new EXCEPT !.settings[line.of] = value]
          BY <3>2, <3>4, <4>2 DEF ParseLine
        <5> HIDE DEF refused, value
        <5>3. CASE refused
          BY <1>2, <1>4, <1>6, <2>4, <3>1, <5>1, <5>3 DEF Parses
        <5>4. CASE ~refused
          <6>1. /\ old2.settings = [old.settings EXCEPT ![line.of] = value]
                /\ old2.section = old.section /\ old2.ok = old.ok
            BY <1>2, <5>2, <5>4 DEF Parses
          <6>2. /\ new2.settings = [new.settings EXCEPT ![line.of] = value]
                /\ new2.section = new.section /\ new2.ok = new.ok
            BY <1>4, <5>2, <5>4 DEF Parses
          <6> QED BY <1>6, <2>4, <3>1, <6>1, <6>2
        <5> QED BY <5>3, <5>4
      <4>3. CASE SectionOf[line.of] # old.section /\ SectionOf[line.of] # new.section
        <5>1. old2 = old /\ new2 = new
          BY <3>2, <3>4, <4>3 DEF ParseLine
        <5> QED BY <1>6, <2>4, <3>1, <5>1
      <4> QED BY <1>6, <2>4, <4>1, <4>2, <4>3
    <3>5. CASE line.kind \notin {"junk", "setting"}
      <4>1. old2 = old /\ new2 = new
        BY <2>4, <3>2, <3>5 DEF ParseLine
      <4> QED BY <1>6, <2>4, <3>1, <4>1
    <3> QED BY <3>3, <3>4, <3>5
  <2> QED BY <2>1, <2>2, <2>3, <2>4
<1> QED BY <1>7 DEF Tracks, kept2, old2, new2

LEMMA AlwaysTracks == ASSUME NEW content \in Seq(Lines) PROVE Tracks(content)
<1> DEFINE T == {s \in Seq(Lines) : Tracks(s)}
<1>1. << >> \in T
  <2>1. Kept(<< >>).lines = << >> /\ ~Kept(<< >>).meta
    BY KeptEmpty DEF NewKeep
  <2>2. MetaHeader \o << >> = MetaHeader
    BY HeaderByLine
  <2>3. Parse(MetaHeader \o Kept(<< >>).lines, create_default) = [NewParse EXCEPT !.section = "meta"]
    BY <2>1, <2>2, HeaderRead
  <2>4. << >> \in Seq(Lines)
    OBVIOUS
  <2>5. /\ [NewParse EXCEPT !.section = "meta"].section = "meta"
        /\ [NewParse EXCEPT !.section = "meta"].ok = NewParse.ok
        /\ [NewParse EXCEPT !.section = "meta"].settings = NewParse.settings
        /\ NewParse.section = ""
    BY DEF NewParse
  <2>6. Tracks(<< >>)
    BY <2>1, <2>3, <2>5, ParseEmpty DEF Tracks
  <2> QED BY <2>4, <2>6
<1>2. ASSUME NEW s \in Seq(Lines), NEW line \in Lines, s \in T PROVE Append(s, line) \in T
  BY <1>2, TracksStep
<1> HIDE DEF T
<1>3. content \in T
  BY <1>1, <1>2, Appending
<1> QED BY <1>3 DEF T

\* new has the settings of old, if there are any to have.
Same(new, old) == Accepted(old) => Accepted(new) /\ Settings(new) = Settings(old)

LEMMA UpgradedType == ASSUME NEW content \in Seq(Lines) PROVE Upgraded(content) \in Seq(Lines)
<1>1. Kept(content).lines \in Seq(Lines)
  BY HeaderLines, KeptAppend DEF Keeps
<1>2. Upgraded(content) = MetaHeader \o Kept(content).lines
  BY DEF Upgraded, Kept, NewKeep
<1> QED BY <1>1, <1>2, HeaderByLine

LEMMA UpgradedVersion ==
  ASSUME NEW content \in Seq(Lines)
  PROVE  detect_version(Upgraded(content)) = CURRENT_CONFIG_VERSION
<1>1. Kept(content).lines \in Seq(Lines)
  BY HeaderLines, KeptAppend DEF Keeps
<1>2. Upgraded(content) = MetaHeader \o Kept(content).lines
  BY DEF Upgraded, Kept, NewKeep
<1> QED BY <1>1, <1>2, HeaderFound

LEMMA UpgradedSame == ASSUME NEW content \in Seq(Lines) PROVE Same(Upgraded(content), content)
<1> DEFINE old == Parse(content, create_default)
           new == Parse(Upgraded(content), create_default)
<1>1. Upgraded(content) = MetaHeader \o Kept(content).lines
  BY DEF Upgraded, Kept, NewKeep
<1>2. new.settings = old.settings /\ (old.ok => new.ok)
  BY <1>1, AlwaysTracks DEF Tracks
<1>3. Accepted(content) = (old.ok /\ Valid(old.settings))
  BY DEF Accepted
<1>4. Accepted(Upgraded(content)) = (new.ok /\ Valid(new.settings))
  BY DEF Accepted
<1>5. Settings(content) = old.settings /\ Settings(Upgraded(content)) = new.settings
  BY DEF Settings
<1> HIDE DEF old, new
<1> QED BY <1>2, <1>3, <1>4, <1>5 DEF Same

\* ConfigMigrator::migrate_content, for every file of whatever version and
\* length: the result has the current version and the settings of before, and
\* the next migration leaves it alone.
THEOREM Migration ==
  ASSUME NEW content \in Seq(Lines)
  PROVE  /\ migrate_content(content) \in Seq(Lines)
         /\ detect_version(migrate_content(content)) = CURRENT_CONFIG_VERSION
         /\ migrate_content(migrate_content(content)) = migrate_content(content)
         /\ Same(migrate_content(content), content)
BY UpgradedType, UpgradedVersion, UpgradedSame DEF migrate_content, Same

LEMMA NoFile == Absent \notin Seq(Lines)
<1> SUFFICES ASSUME Absent \in Seq(Lines) PROVE FALSE
  OBVIOUS
<1>1. Len(Absent) = 1 /\ Absent[1] = Line("absent")
  BY DEF Absent
<1>2. Absent[1] \in Lines
  <2> DEFINE a == Absent
  <2>1. a \in Seq(Lines) /\ 1 \in 1..Len(a)
    BY <1>1
  <2> HIDE DEF a
  <2>2. a[1] \in Lines
    BY <2>1
  <2> QED BY <2>2 DEF a
<1>3. Line("absent").kind \in Kinds
  BY <1>1, <1>2 DEF Lines
<1> QED BY <1>3 DEF Line, Kinds

-----------------------------------------------------------------------------
(* The state: every file that was written whole, and every migrated text   *)
(* that is whole, has the settings it is meant to have.                    *)

Meant(new, as) == (new = Absent <=> as = Absent) /\ Same(new, as)

Jobs == [at : {"new", "write", "rename", "done"}, out : Paths, text : Contents, as : Contents,
         cut : BOOLEAN]

TypeOK ==
  /\ file \in [Paths -> Contents] /\ intended \in [Paths -> Contents]
  /\ job \in [Migrators -> Jobs]
  /\ \A p \in Migrators : At(p, "write") \/ At(p, "rename") => job[p].text \in Seq(Lines)

FilesMeant == \A f \in Paths : f \notin cut => Meant(file[f], intended[f])

JobsMeant ==
  \A p \in Migrators :
    (At(p, "write") \/ At(p, "rename")) /\ ~job[p].cut => Meant(job[p].text, job[p].as)

Inv == TypeOK /\ FilesMeant /\ JobsMeant

LEMMA DoneType == Done \in Jobs /\ Done.at = "done"
BY DEF Done, Jobs, Paths, Contents

LEMMA InitInv == Init => Inv
<1> SUFFICES ASSUME Init PROVE Inv
  OBVIOUS
<1>1. file \in [Paths -> Contents] /\ intended = file
  BY ConfigurationAssumption DEF Init
<1> DEFINE new == [Done EXCEPT !.at = "new"]
<1>2. new \in Jobs /\ new.at = "new"
  BY DoneType DEF Jobs
<1>3. job = [p \in Migrators |-> new]
  BY DEF Init
<1> HIDE DEF new
<1>4. TypeOK
  BY <1>1, <1>2, <1>3 DEF TypeOK, At
<1>5. FilesMeant
  BY <1>1 DEF FilesMeant, Meant, Same
<1>6. JobsMeant
  BY <1>2, <1>3 DEF JobsMeant, At
<1> QED BY <1>4, <1>5, <1>6 DEF Inv

\* A process that has nothing more to do keeps the invariant.
LEMMA EndsInv ==
  ASSUME TypeOK, JobsMeant, NEW p \in Migrators, Ends(p)
  PROVE  /\ job' \in [Migrators -> Jobs]
         /\ \A q \in Migrators : At(q, "write")' \/ At(q, "rename")' => job'[q].text \in Seq(Lines)
         /\ JobsMeant'
<1>1. job' \in [Migrators -> Jobs] /\ job'[p].at = "done"
  BY DoneType DEF TypeOK, Ends
<1>2. \A q \in Migrators : q # p => job'[q] = job[q]
  BY DEF TypeOK, Ends
<1>3. \A q \in Migrators : At(q, "write")' \/ At(q, "rename")' =>
        job'[q] = job[q] /\ (At(q, "write") \/ At(q, "rename"))
  BY <1>1, <1>2 DEF At
<1>4. \A q \in Migrators : At(q, "write")' \/ At(q, "rename")' => job'[q].text \in Seq(Lines)
  BY <1>3 DEF TypeOK
<1>5. JobsMeant'
  <2> SUFFICES ASSUME NEW q \in Migrators, At(q, "write")' \/ At(q, "rename")', ~job'[q].cut
               PROVE  Meant(job'[q].text, job'[q].as)
    BY DEF JobsMeant, Meant, Same
  <2> QED BY <1>3 DEF JobsMeant
<1> QED BY <1>1, <1>4, <1>5

LEMMA ReadInputInv ==
  ASSUME Inv, NEW p \in Migrators, NEW request \in Requests,
         ReadInput(p, request[1], request[2])
  PROVE  Inv'
<1> DEFINE in == request[1]
           out == request[2]
<1>1. in \in Paths /\ out \in Paths
  BY ConfigurationAssumption
<1> HIDE DEF in, out
<1>2. UNCHANGED <<file, intended, cut>>
  BY DEF ReadInput, disk
<1>3. FilesMeant'
  BY <1>2 DEF Inv, FilesMeant
<1>4. CASE Exists(in) /\ Migratable(file[in])
  <2> DEFINE new == [at |-> "write", out |-> out, text |-> migrate_content(file[in]),
                     as |-> intended[in], cut |-> in \in cut]
  <2>1. job' = [job EXCEPT ![p] = new]
    BY <1>4 DEF ReadInput, in, out
  <2>2. file[in] \in Seq(Lines)
    BY <1>1, <1>4 DEF Inv, TypeOK, Contents, Exists
  <2>3. new \in Jobs /\ new.text \in Seq(Lines)
    BY <1>1, <2>2, Migration DEF Jobs, Inv, TypeOK, Contents
  <2>4. ~new.cut => Meant(new.text, new.as)
    <3>1. SUFFICES ASSUME in \notin cut PROVE Meant(migrate_content(file[in]), intended[in])
      OBVIOUS
    <3>2. Meant(file[in], intended[in])
      BY <1>1, <3>1 DEF Inv, FilesMeant
    <3>3. Same(migrate_content(file[in]), file[in]) /\ migrate_content(file[in]) # Absent
      BY <2>2, Migration, NoFile
    <3>4. file[in] # Absent
      BY <1>4 DEF Exists
    <3> QED BY <3>2, <3>3, <3>4 DEF Meant, Same
  <2> HIDE DEF new
  <2>5. TypeOK'
    BY <1>2, <2>1, <2>3 DEF Inv, TypeOK, At
  <2>6. JobsMeant'
    BY <2>1, <2>4 DEF Inv, TypeOK, JobsMeant, At
  <2> QED BY <1>3, <2>5, <2>6 DEF Inv
<1>5. CASE ~(Exists(in) /\ Migratable(file[in]))
  <2>1. Ends(p)
    BY <1>5 DEF ReadInput, in, out
  <2>2. TypeOK' /\ JobsMeant'
    BY <1>2, <2>1, EndsInv DEF Inv, TypeOK
  <2> QED BY <1>3, <2>2 DEF Inv
<1> QED BY <1>4, <1>5

LEMMA ShortType ==
  ASSUME NEW content \in Seq(Lines), NEW text \in Short(content) PROVE text \in Seq(Lines)
<1>1. Junk \in Lines
  BY ConfigurationAssumption DEF Junk, Line, Lines, Kinds
<1>2. PICK n \in Room : n < Len(content) /\ text \in {SubSeq(content, 1, n), Append(SubSeq(content, 1, n), Junk)}
  BY DEF Short
<1>3. n \in Nat
  BY ConfigurationAssumption
<1>4. n \in 0..Len(content) /\ \A i \in 1..Len(content) : content[i] \in Lines
  BY <1>2, <1>3
<1>5. SubSeq(content, 1, n) \in Seq(Lines)
  BY <1>4
<1>6. PICK some : some = SubSeq(content, 1, n)
  OBVIOUS
<1>7. some \in Seq(Lines) /\ Append(some, Junk) \in Seq(Lines)
  BY <1>1, <1>5, <1>6
<1>8. text = some \/ text = Append(some, Junk)
  BY <1>2, <1>6
<1> QED BY <1>7, <1>8

LEMMA WriteTemporaryInv ==
  ASSUME Inv, NEW p \in Migrators, WriteTemporary(p) PROVE Inv'
<1>1. UNCHANGED <<file, intended, cut>> /\ job[p].at = "write"
  BY DEF WriteTemporary, disk, At
<1>2. job[p] \in Jobs /\ job[p].text \in Seq(Lines)
  BY <1>1 DEF Inv, TypeOK, At
<1>3. CASE job' = [job EXCEPT ![p].at = "rename"]
  <2> DEFINE new == [job[p] EXCEPT !.at = "rename"]
  <2>1. job' = [job EXCEPT ![p] = new]
    BY <1>3
  <2>2. /\ new \in Jobs /\ new.at = "rename" /\ new.text = job[p].text /\ new.as = job[p].as
        /\ new.cut = job[p].cut
    BY <1>2 DEF Jobs
  <2> HIDE DEF new
  <2> QED BY <1>1, <1>2, <2>1, <2>2 DEF Inv, TypeOK, FilesMeant, JobsMeant, At
<1>4. ASSUME NEW text \in Short(job[p].text),
             job' = [job EXCEPT ![p].at = "rename", ![p].text = text, ![p].cut = TRUE]
      PROVE  Inv'
  <2> DEFINE new == [job[p] EXCEPT !.at = "rename", !.text = text, !.cut = TRUE]
  <2>1. job' = [job EXCEPT ![p] = new]
    BY <1>4
  <2>2. text \in Seq(Lines)
    BY <1>2, <1>4, ShortType
  <2>3. new \in Jobs /\ new.at = "rename" /\ new.text = text /\ new.cut = TRUE
    BY <1>2, <2>2 DEF Jobs, Contents
  <2> HIDE DEF new
  <2> QED BY <1>1, <2>1, <2>2, <2>3 DEF Inv, TypeOK, FilesMeant, JobsMeant, At
<1> QED BY <1>3, <1>4 DEF WriteTemporary

LEMMA RenameInv == ASSUME Inv, NEW p \in Migrators, Rename(p) PROVE Inv'
<1>1. job[p] \in Jobs /\ job[p].text \in Seq(Lines) /\ job[p].at = "rename"
  BY DEF Rename, At, Inv, TypeOK
<1>2. job[p].out \in Paths /\ job[p].text \in Contents /\ job[p].as \in Contents
  BY <1>1 DEF Jobs
<1>3. /\ file' = [file EXCEPT ![job[p].out] = job[p].text]
      /\ intended' = [intended EXCEPT ![job[p].out] = job[p].as]
      /\ cut' = IF job[p].cut THEN cut \cup {job[p].out} ELSE cut \ {job[p].out}
      /\ Ends(p)
  BY DEF Rename
<1>4. TypeOK' /\ JobsMeant'
  BY <1>2, <1>3, EndsInv DEF Inv, TypeOK
<1>5. FilesMeant'
  <2> SUFFICES ASSUME NEW f \in Paths, f \notin cut' PROVE Meant(file'[f], intended'[f])
    BY DEF FilesMeant, Meant, Same
  <2>1. CASE f = job[p].out
    <3>1. ~job[p].cut
      BY <1>3, <2>1
    <3>2. Meant(job[p].text, job[p].as)
      BY <1>1, <3>1 DEF Inv, JobsMeant, At
    <3> QED BY <1>2, <1>3, <2>1, <3>2 DEF Inv, TypeOK
  <2>2. CASE f # job[p].out
    BY <1>3, <2>2 DEF Inv, TypeOK, FilesMeant
  <2> QED BY <2>1, <2>2
<1> QED BY <1>4, <1>5 DEF Inv

LEMMA NextInv == Inv /\ [Next]_vars => Inv'
<1> SUFFICES ASSUME Inv, [Next]_vars PROVE Inv'
  OBVIOUS
<1>1. ASSUME NEW p \in Migrators, NEW request \in Requests, ReadInput(p, request[1], request[2])
      PROVE  Inv'
  BY <1>1, ReadInputInv
<1>2. ASSUME NEW p \in Migrators, WriteTemporary(p) PROVE Inv'
  BY <1>2, WriteTemporaryInv
<1>3. ASSUME NEW p \in Migrators, Rename(p) PROVE Inv'
  BY <1>3, RenameInv
<1>4. ASSUME NEW p \in Migrators, GivesUp(p) PROVE Inv'
  <2>1. Ends(p) /\ UNCHANGED <<file, intended, cut>>
    BY <1>4 DEF GivesUp, disk
  <2>2. TypeOK' /\ JobsMeant'
    BY <2>1, EndsInv DEF Inv, TypeOK
  <2>3. FilesMeant'
    BY <2>1 DEF Inv, FilesMeant
  <2> QED BY <2>2, <2>3 DEF Inv
<1>5. CASE UNCHANGED <<disk, job>>
  BY <1>5 DEF disk, Inv, TypeOK, FilesMeant, JobsMeant, At
<1>6. (Start \/ StartWith \/ Stop \/ UNCHANGED vars) => UNCHANGED <<disk, job>>
  BY DEF Start, StartWith, Stop, vars
<1> QED BY <1>1, <1>2, <1>3, <1>4, <1>5, <1>6 DEF Next

LEMMA FirstFound == Found # {} => SearchPath[Min(Found)] \in Paths /\ Exists(SearchPath[Min(Found)])
<1> SUFFICES ASSUME Found # {} PROVE SearchPath[Min(Found)] \in Paths /\ Exists(SearchPath[Min(Found)])
  OBVIOUS
<1>1. /\ DOMAIN SearchPath = 1..3
      /\ SearchPath[1] \in Paths /\ SearchPath[2] \in Paths /\ SearchPath[3] \in Paths
  BY DEF SearchPath, Paths
<1>2. Found \subseteq Nat
  BY <1>1 DEF Found
<1>3. Min(Found) \in Found
  BY <1>2, Least DEF Min
<1>4. Min(Found) \in 1..3 /\ Exists(SearchPath[Min(Found)])
  BY <1>1, <1>3 DEF Found
<1> QED BY <1>1, <1>4

\* What the daemon takes from a file that is what it is meant to be.
LEMMA LoadsMeant ==
  ASSUME NEW f \in Paths, FilesMeant, Loads(file[f]), meant' = MeantBy(f)
  PROVE  MigrationIsInvisible'
<1>1. SUFFICES ASSUME meant' # Absent, Accepted(meant')
               PROVE  daemon' = "up" /\ config' = Settings(meant')
  BY DEF MigrationIsInvisible, Accepted, Settings
<1>2. f \notin cut /\ meant' = intended[f]
  BY <1>1 DEF MeantBy
<1>3. Meant(file[f], intended[f])
  BY <1>2 DEF FilesMeant
<1>4. Accepted(file[f]) /\ Settings(file[f]) = Settings(meant')
  BY <1>1, <1>2, <1>3 DEF Meant, Same
<1> QED BY <1>4 DEF Loads

LEMMA NextInvisible == Inv /\ MigrationIsInvisible /\ [Next]_vars => MigrationIsInvisible'
<1> SUFFICES ASSUME Inv, MigrationIsInvisible, [Next]_vars PROVE MigrationIsInvisible'
  OBVIOUS
<1>1. CASE Start
  <2>1. CASE Found = {}
    BY <1>1, <2>1 DEF Start, MigrationIsInvisible
  <2>2. CASE Found # {}
    <3> DEFINE first == SearchPath[Min(Found)]
    <3>1. first \in Paths
      BY <2>2, FirstFound
    <3>2. Loads(file[first]) /\ meant' = MeantBy(first)
      BY <1>1, <2>2 DEF Start
    <3> HIDE DEF first
    <3> QED BY <3>1, <3>2, LoadsMeant DEF Inv
  <2> QED BY <2>1, <2>2
<1>2. CASE StartWith
  <2>1. "override" \in Paths
    BY DEF Paths
  <2>2. CASE Exists("override")
    <3>1. Loads(file["override"]) /\ meant' = MeantBy("override")
      BY <1>2, <2>2 DEF StartWith
    <3> QED BY <2>1, <3>1, LoadsMeant DEF Inv
  <2>3. CASE ~Exists("override")
    <3>1. meant' = MeantBy("override")
      BY <1>2 DEF StartWith
    <3>2. meant' = Absent
      BY <2>1, <2>3, <3>1 DEF MeantBy, Exists, Inv, FilesMeant, Meant
    <3> QED BY <3>2 DEF MigrationIsInvisible
  <2> QED BY <2>2, <2>3
<1>3. CASE Stop
  BY <1>3 DEF Stop, MigrationIsInvisible
<1>4. CASE UNCHANGED <<daemon, config, meant>>
  BY <1>4 DEF MigrationIsInvisible
<1>5. ASSUME NEW p \in Migrators,
             \/ \E request \in Requests : ReadInput(p, request[1], request[2])
             \/ WriteTemporary(p) \/ Rename(p) \/ GivesUp(p)
      PROVE  UNCHANGED <<daemon, config, meant>>
  BY <1>5 DEF ReadInput, WriteTemporary, Rename, GivesUp
<1>6. UNCHANGED vars => UNCHANGED <<daemon, config, meant>>
  BY DEF vars
<1> QED BY <1>1, <1>2, <1>3, <1>4, <1>5, <1>6 DEF Next

LEMMA Invariant == Spec => []Inv
BY InitInv, NextInv, PTL DEF Spec

\* config_migrator.hpp: migration preserves existing user settings.  For files
\* of any length and any number of processes that migrate them at once, crash
\* or run out of space, the daemon has the settings it had without them if the
\* file it loads was written whole.
THEOREM MigrationInvisible == Spec => []MigrationIsInvisible
<1>1. Init => MigrationIsInvisible
  BY DEF Init, MigrationIsInvisible
<1> QED BY <1>1, Invariant, NextInvisible, PTL DEF Spec

\* Whatever is in a file, cut or not: what --migrate-config makes of it is
\* recognised by the next one, which leaves it alone.
THEOREM MigrationOnce == Spec => []MigratesOnce
<1>1. Inv => MigratesOnce
  <2> SUFFICES ASSUME Inv, NEW f \in Paths, Exists(f)
               PROVE  LET new == migrate_content(file[f])
                      IN  /\ detect_version(new) = CURRENT_CONFIG_VERSION
                          /\ migrate_content(new) = new
    BY DEF MigratesOnce
  <2>1. file[f] \in Seq(Lines)
    BY DEF Inv, TypeOK, Contents, Exists
  <2> QED BY <2>1, Migration
<1> QED BY <1>1, Invariant, PTL

-----------------------------------------------------------------------------
(* With room on the disk.                                                  *)

OneOf(content, as) == content = as \/ (as \in Seq(Lines) /\ content = migrate_content(as))

AtomicInv ==
  /\ \A f \in Paths : OneOf(file[f], intended[f])
  /\ \A p \in Migrators : At(p, "write") \/ At(p, "rename") => OneOf(job[p].text, job[p].as)

LEMMA AtomicRead ==
  ASSUME AtomicInv, Inv, NEW p \in Migrators, NEW request \in Requests,
         ReadInput(p, request[1], request[2])
  PROVE  AtomicInv'
<1> DEFINE in == request[1]
<1>1. /\ UNCHANGED <<file, intended>>
      /\ \A f \in Paths : OneOf(file'[f], intended'[f])
  BY DEF ReadInput, disk, AtomicInv
<1>2. CASE Exists(in) /\ Migratable(file[in])
  <2> DEFINE new == [at |-> "write", out |-> request[2], text |-> migrate_content(file[in]),
                     as |-> intended[in], cut |-> in \in cut]
  <2>1. job' = [job EXCEPT ![p] = new]
    BY <1>2 DEF ReadInput
  <2>2. in \in Paths
    BY ConfigurationAssumption
  <2>3. OneOf(file[in], intended[in]) /\ file[in] \in Seq(Lines)
    BY <1>2, <2>2 DEF AtomicInv, Inv, TypeOK, Contents, Exists
  <2>4. OneOf(migrate_content(file[in]), intended[in])
    BY <2>3, Migration DEF OneOf
  <2>5. OneOf(new.text, new.as)
    BY <2>4
  <2> HIDE DEF new
  <2>6. ASSUME NEW q \in Migrators, At(q, "write")' \/ At(q, "rename")'
        PROVE  OneOf(job'[q].text, job'[q].as)
    BY <2>1, <2>5, <2>6 DEF AtomicInv, Inv, TypeOK, At
  <2> QED BY <1>1, <2>6 DEF AtomicInv, OneOf
<1>3. CASE ~(Exists(in) /\ Migratable(file[in]))
  <2>1. job' = [job EXCEPT ![p] = Done]
    BY <1>3 DEF ReadInput, Ends
  <2>2. ASSUME NEW q \in Migrators, At(q, "write")' \/ At(q, "rename")'
        PROVE  OneOf(job'[q].text, job'[q].as)
    BY <2>1, <2>2, DoneType DEF AtomicInv, Inv, TypeOK, At
  <2> QED BY <1>1, <2>2 DEF AtomicInv, OneOf
<1> QED BY <1>2, <1>3

LEMMA AtomicWrite ==
  ASSUME Room = {}, AtomicInv, Inv, NEW p \in Migrators, WriteTemporary(p)
  PROVE  AtomicInv'
<1>1. /\ UNCHANGED <<file, intended>>
      /\ \A f \in Paths : OneOf(file'[f], intended'[f])
  BY DEF WriteTemporary, disk, AtomicInv
<1>2. Short(job[p].text) = {}
  BY DEF Short
<1>3. job' = [job EXCEPT ![p].at = "rename"] /\ At(p, "write")
  BY <1>2 DEF WriteTemporary
<1>4. job[p] \in Jobs
  BY DEF Inv, TypeOK
<1>5. /\ job'[p].text = job[p].text /\ job'[p].as = job[p].as
      /\ \A q \in Migrators : q # p => job'[q] = job[q]
  BY <1>3, <1>4 DEF Inv, TypeOK, Jobs
<1>6. ASSUME NEW q \in Migrators, At(q, "write")' \/ At(q, "rename")'
      PROVE  OneOf(job'[q].text, job'[q].as)
  BY <1>3, <1>5, <1>6 DEF AtomicInv, At
<1> QED BY <1>1, <1>6 DEF AtomicInv, OneOf

LEMMA AtomicEnd ==
  ASSUME AtomicInv, Inv, NEW p \in Migrators, Ends(p)
  PROVE  \A q \in Migrators : At(q, "write")' \/ At(q, "rename")' => OneOf(job'[q].text, job'[q].as)
BY DoneType DEF Ends, AtomicInv, Inv, TypeOK, At

LEMMA AtomicRename ==
  ASSUME AtomicInv, Inv, NEW p \in Migrators, Rename(p) PROVE AtomicInv'
<1>1. /\ file' = [file EXCEPT ![job[p].out] = job[p].text]
      /\ intended' = [intended EXCEPT ![job[p].out] = job[p].as]
      /\ Ends(p)
  BY DEF Rename
<1>2. OneOf(job[p].text, job[p].as)
  BY DEF Rename, AtomicInv
<1>3. ASSUME NEW f \in Paths PROVE OneOf(file'[f], intended'[f])
  BY <1>1, <1>2 DEF AtomicInv, Inv, TypeOK
<1> QED BY <1>1, <1>3, AtomicEnd DEF AtomicInv, OneOf

\* config_migrator.hpp, "overwrites input_path atomically", of a disk that is
\* never full: whatever processes migrate a file at once and wherever they
\* crash, it is what it was, or what that migrates to.
THEOREM AtomicWithRoom == ASSUME Room = {} PROVE Spec => []OverwritesAtomically
<1>1. Init => AtomicInv
  <2> SUFFICES ASSUME Init PROVE AtomicInv
    OBVIOUS
  <2>1. \A p \in Migrators : job[p].at = "new"
    BY DoneType DEF Init, Jobs
  <2> QED BY <2>1 DEF Init, AtomicInv, OneOf, At
<1>2. ASSUME AtomicInv, Inv, [Next]_vars PROVE AtomicInv'
  <2>1. ASSUME NEW p \in Migrators, NEW request \in Requests,
               ReadInput(p, request[1], request[2])
        PROVE  AtomicInv'
    BY <1>2, <2>1, AtomicRead
  <2>2. ASSUME NEW p \in Migrators, WriteTemporary(p) PROVE AtomicInv'
    BY <1>2, <2>2, AtomicWrite
  <2>3. ASSUME NEW p \in Migrators, Rename(p) PROVE AtomicInv'
    BY <1>2, <2>3, AtomicRename
  <2>4. ASSUME NEW p \in Migrators, GivesUp(p) PROVE AtomicInv'
    <3>1. Ends(p) /\ UNCHANGED <<file, intended>>
      BY <2>4 DEF GivesUp, disk
    <3> QED BY <1>2, <3>1, AtomicEnd DEF AtomicInv, OneOf
  <2>5. CASE UNCHANGED <<disk, job>>
    BY <1>2, <2>5 DEF disk, AtomicInv, OneOf, At
  <2>6. (Start \/ StartWith \/ Stop \/ UNCHANGED vars) => UNCHANGED <<disk, job>>
    BY DEF Start, StartWith, Stop, vars
  <2> QED BY <1>2, <2>1, <2>2, <2>3, <2>4, <2>5, <2>6 DEF Next
<1>3. AtomicInv => OverwritesAtomically
  BY DEF AtomicInv, OneOf, OverwritesAtomically
<1> QED BY <1>1, <1>2, <1>3, Invariant, PTL DEF Spec

===============================================================================
