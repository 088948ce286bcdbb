--------------------------- MODULE ConnectProofs ---------------------------
(***************************************************************************)
(* A key once trusted is the one that a host has to show, for every choice *)
(* of clients, hosts, keys, files, plans and answers.                      *)
(*                                                                         *)
(* It rests on what HostKeys.load, add and save_host_keys compute, for     *)
(* tables of any length.  The lemmas are inductions: each looks at the     *)
(* least number of entries, lines or names for which it would fail         *)
(* (LeastNat), which also shows that the recursive functions exist.        *)
(***************************************************************************)
EXTENDS Connect, WellFoundedInduction, SequenceTheorems, TLAPS

-----------------------------------------------------------------------------
(* Lists and tables of entries *)

\* A non-empty set of numbers has a least one.
LEMMA LeastNat ==
    ASSUME NEW T, T \subseteq Nat, T # {}
    PROVE  \E x \in T : \A y \in T : x <= y
  <1> DEFINE R == OpToRel(<, Nat)
  <1>1. IsWellFoundedOn(R, Nat)
    BY NatLessThanWellFounded
  <1>2. \A x, y \in Nat : y < x => <<y, x>> \in R
    BY DEF OpToRel
  <1> HIDE DEF R
  <1>3. PICK x \in T : \A y \in T : <<y, x>> \notin R
    BY <1>1, WFMin
  <1>4. ASSUME NEW y \in T
        PROVE  x <= y
    <2>1. x \in Nat /\ y \in Nat
      OBVIOUS
    <2>2. ~(y < x)
      BY <1>2, <1>3, <2>1
    <2> QED BY <2>1, <2>2
  <1> QED BY <1>4

\* A list of any kind of elements.
Listed(es) == \E T : es \in Seq(T)

\* A list of lines or entries, each with a list of names.
Table(es) == Listed(es) /\ \A i \in 1 .. Len(es) : Listed(es[i].hosts)

\* b is a with more elements behind.
Extends(a, b) == Len(a) <= Len(b) /\ \A i \in 1 .. Len(a) : b[i] = a[i]

\* A list has a length.
LEMMA ListedFacts ==
    ASSUME NEW es, Listed(es)
    PROVE  Len(es) \in Nat /\ DOMAIN es = 1 .. Len(es)
  BY DEF Listed

\* The empty table.
LEMMA EmptyListed == Listed(<<>>) /\ Len(<<>>) = 0 /\ Table(<<>>)
  <1>1. <<>> \in Seq({}) /\ Len(<<>>) = 0
    OBVIOUS
  <1> QED BY <1>1 DEF Listed, Table

\* A list of one.
LEMMA SingleListed ==
    ASSUME NEW x
    PROVE  Listed(<<x>>)
  <1>1. <<x>> \in Seq({x})
    OBVIOUS
  <1> QED BY <1>1 DEF Listed

\* Lists of at most one element, by the set they are over.
LEMMA ShortLists ==
    ASSUME NEW S
    PROVE  <<>> \in Seq(S) /\ \A x \in S : <<x>> \in Seq(S)
  OBVIOUS

\* A list over a set is one over a larger set.
LEMMA SeqLarger ==
    ASSUME NEW S, NEW T, S \subseteq T, NEW es \in Seq(S)
    PROVE  es \in Seq(T)
  <1>1. PICK n \in Nat : es \in [1 .. n -> S]
    BY SeqDef
  <1>2. es \in [1 .. n -> T]
    BY <1>1
  <1> QED BY <1>2, SeqDef

\* append puts one element behind the others.
LEMMA AppendFacts ==
    ASSUME NEW es, Listed(es), NEW x
    PROVE  /\ Listed(Append(es, x)) /\ Extends(es, Append(es, x))
           /\ Len(Append(es, x)) = Len(es) + 1 /\ Append(es, x)[Len(es) + 1] = x
  <1>1. PICK S : es \in Seq(S)
    BY DEF Listed
  <1> DEFINE T == S \cup {x}
  <1>2. es \in Seq(T) /\ x \in T
    BY <1>1, SeqLarger
  <1> HIDE DEF T
  <1>3. Append(es, x) \in Seq(T)
    BY <1>2
  <1>4. Len(es) \in Nat /\ Len(Append(es, x)) = Len(es) + 1 /\ Append(es, x)[Len(es) + 1] = x
    BY <1>2
  <1>5. \A i \in 1 .. Len(es) : Append(es, x)[i] = es[i]
    BY <1>2
  <1> QED BY <1>3, <1>4, <1>5 DEF Listed, Extends

\* A list is one over any set that has its elements.
LEMMA ListedOver ==
    ASSUME NEW es, Listed(es), NEW T, \A i \in 1 .. Len(es) : es[i] \in T
    PROVE  es \in Seq(T)
  <1>1. PICK S : es \in Seq(S)
    BY DEF Listed
  <1>2. PICK n \in Nat : es \in [1 .. n -> S]
    BY <1>1, SeqDef
  <1>3. Len(es) = n /\ es \in [1 .. n -> T]
    BY <1>1, <1>2
  <1> QED BY <1>3, SeqDef

\* A function on 1 .. n is a list.
LEMMA FunctionListed ==
    ASSUME NEW n \in Nat, NEW f, f = [i \in 1 .. n |-> f[i]]
    PROVE  Listed(f) /\ Len(f) = n
  <1> DEFINE T == {f[i] : i \in 1 .. n}
  <1>1. \A i \in 1 .. n : f[i] \in T
    OBVIOUS
  <1> HIDE DEF T
  <1>2. f \in [1 .. n -> T]
    BY <1>1
  <1>3. f \in Seq(T)
    BY <1>2, SeqDef
  <1>4. DOMAIN f = 1 .. n
    BY <1>2
  <1> QED BY <1>3, <1>4 DEF Listed

\* FlattenSeq of lists over S is a list over S.
LEMMA FlattenType ==
    ASSUME NEW S, NEW seqs, Listed(seqs), \A i \in 1 .. Len(seqs) : seqs[i] \in Seq(S)
    PROVE  FlattenSeq(seqs) \in Seq(S)
  <1> DEFINE N == Len(seqs)
             F(g, m) == [i \in 1 .. m |-> IF i = 1 THEN seqs[i] ELSE g[i - 1] \o seqs[i]]
             flat == CHOOSE g : g = F(g, N)
  <1>0. N \in Nat
    BY ListedFacts
  <1>1. CASE N = 0
    <2>1. FlattenSeq(seqs) = seqs
      BY <1>1 DEF FlattenSeq
    <2>2. PICK T : seqs \in Seq(T)
      BY DEF Listed
    <2>3. seqs = <<>>
      BY <1>1, <2>2
    <2> QED BY <2>1, <2>3
  <1>2. CASE N # 0
    <2>1. FlattenSeq(seqs) = flat[N]
      BY <1>2 DEF FlattenSeq
    <2>2. \A m \in Nat : \E g : g = F(g, m)
      <3> DEFINE T == {m \in Nat : ~\E g : g = F(g, m)}
      <3> SUFFICES ASSUME T # {} PROVE FALSE
        OBVIOUS
      <3>1. PICK m \in T : \A k \in T : m <= k
        BY LeastNat
      <3>2. CASE m = 0
        <4> DEFINE g == [i \in 1 .. 0 |-> 0]
        <4>1. g = F(g, 0)
          OBVIOUS
        <4> QED BY <3>1, <3>2, <4>1
      <3>3. CASE m # 0
        <4>0. m \in Nat
          BY <3>1
        <4>1. m - 1 \in Nat /\ m - 1 \notin T /\ m \in Nat
          <5> HIDE DEF T
          <5> QED BY <3>1, <3>3, <4>0
        <4>2. PICK h : h = F(h, m - 1)
          BY <4>1
        <4> DEFINE last == IF m = 1 THEN seqs[m] ELSE h[m - 1] \o seqs[m]
                   g == [i \in 1 .. m |-> IF i = m THEN last ELSE h[i]]
        <4>3. g = F(g, m)
          <5>1. ASSUME NEW i \in 1 .. m
                PROVE  g[i] = IF i = 1 THEN seqs[i] ELSE g[i - 1] \o seqs[i]
            <6>1. CASE i = m
              BY <3>3, <4>1, <6>1
            <6>2. CASE i # m
              <7>1. i \in 1 .. (m - 1) /\ g[i] = h[i]
                BY <4>1, <6>2
              <7>2. h[i] = IF i = 1 THEN seqs[i] ELSE h[i - 1] \o seqs[i]
                BY <4>2, <7>1
              <7>3. i # 1 => g[i - 1] = h[i - 1]
                BY <4>1, <7>1
              <7> QED BY <7>1, <7>2, <7>3
            <6> QED BY <6>1, <6>2
          <5> QED BY <5>1
        <4> QED BY <3>1, <4>3
      <3> QED BY <3>2, <3>3
    <2>3. flat = F(flat, N)
      BY <1>0, <2>2
    <2> HIDE DEF flat
    <2>4. \A i \in 1 .. N : flat[i] = IF i = 1 THEN seqs[i] ELSE flat[i - 1] \o seqs[i]
      BY <2>3
    <2>5. \A i \in 1 .. N : flat[i] \in Seq(S)
      <3> DEFINE T == {i \in 1 .. N : flat[i] \notin Seq(S)}
      <3> SUFFICES ASSUME T # {} PROVE FALSE
        OBVIOUS
      <3>0. T \subseteq Nat
        OBVIOUS
      <3>1. PICK m \in T : \A k \in T : m <= k
        BY <3>0, LeastNat
      <3>2. CASE m = 1
        BY <2>4, <3>1, <3>2
      <3>3. CASE m # 1
        <4>1. m \in 1 .. N /\ m - 1 \in 1 .. N /\ m - 1 \notin T
          BY <1>0, <3>1, <3>3
        <4>2. flat[m - 1] \in Seq(S) /\ seqs[m] \in Seq(S)
          BY <4>1
        <4>3. flat[m] = flat[m - 1] \o seqs[m]
          BY <2>4, <3>3, <4>1
        <4>4. flat[m] \in Seq(S)
          BY <4>2, <4>3
        <4> QED BY <3>1, <4>4
      <3> QED BY <3>2, <3>3
    <2> QED BY <1>0, <1>2, <2>1, <2>5
  <1> QED BY <1>1, <1>2

\* f[n] are the entries after n lines.
LoadSteps(f, entries, lines) ==
    \A n \in 0 .. Len(lines) :
        f[n] = IF n = 0 THEN entries ELSE LoadLine(f[n - 1], lines[n])

\* load goes through the lines of the file one by one.
LEMMA LoadDef ==
    ASSUME NEW entries, NEW file_lines, NEW lines, lines = LinesRead(file_lines),
           Len(lines) \in Nat
    PROVE  \E f : Load(entries, file_lines) = f[Len(lines)] /\ LoadSteps(f, entries, lines)
  <1> DEFINE F(g, m) == [n \in 0 .. m |->
                          IF n = 0 THEN entries ELSE LoadLine(g[n - 1], lines[n])]
             f == CHOOSE g : g = F(g, Len(lines))
  <1>1. Load(entries, file_lines) = f[Len(lines)]
    BY DEF Load
  <1>2. \A m \in Nat : \E g : g = F(g, m)
    <2> DEFINE T == {m \in Nat : ~\E g : g = F(g, m)}
    <2> SUFFICES ASSUME T # {} PROVE FALSE
      OBVIOUS
    <2>1. PICK m \in T : \A k \in T : m <= k
      BY LeastNat
    <2>2. CASE m = 0
      <3> DEFINE g == [n \in 0 .. 0 |-> entries]
      <3>1. g = F(g, 0)
        OBVIOUS
      <3> QED BY <2>1, <2>2, <3>1
    <2>3. CASE m # 0
      <3>1. m - 1 \in Nat /\ m - 1 \notin T /\ m \in Nat
        BY <2>1, <2>3
      <3>2. PICK h : h = F(h, m - 1)
        BY <3>1
      <3> DEFINE g == [n \in 0 .. m |-> IF n = m THEN LoadLine(h[m - 1], lines[m]) ELSE h[n]]
      <3>3. g = F(g, m)
        <4>1. ASSUME NEW n \in 0 .. m
              PROVE  g[n] = IF n = 0 THEN entries ELSE LoadLine(g[n - 1], lines[n])
          <5>1. CASE n = m
            BY <2>3, <3>1, <5>1
          <5>2. CASE n # m
            <6>1. n \in 0 .. (m - 1) /\ g[n] = h[n]
              BY <3>1, <5>2
            <6>2. h[n] = IF n = 0 THEN entries ELSE LoadLine(h[n - 1], lines[n])
              BY <3>2, <6>1
            <6>3. n # 0 => g[n - 1] = h[n - 1]
              BY <3>1, <6>1
            <6> QED BY <6>1, <6>2, <6>3
          <5> QED BY <5>1, <5>2
        <4> QED BY <4>1
      <3> QED BY <2>1, <3>3
    <2> QED BY <2>2, <2>3
  <1>3. f = F(f, Len(lines))
    BY <1>2
  <1> HIDE DEF f
  <1>4. LoadSteps(f, entries, lines)
    BY <1>3 DEF LoadSteps
  <1> QED BY <1>1, <1>4

\* What was appended to twice extends the first list.
LEMMA ExtendsTransitive ==
    ASSUME NEW a, NEW b, NEW c, Listed(a), Listed(b), Listed(c), Extends(a, b), Extends(b, c)
    PROVE  Extends(a, c)
  BY ListedFacts DEF Extends

\* An entry is appended to a table.
LEMMA TableAppend ==
    ASSUME NEW es, Table(es), NEW e, Listed(e.hosts)
    PROVE  Table(Append(es, e)) /\ Extends(es, Append(es, e))
  <1>1. Listed(es) /\ Len(es) \in Nat
    BY ListedFacts DEF Table
  <1>2. /\ Listed(Append(es, e)) /\ Extends(es, Append(es, e))
        /\ Len(Append(es, e)) = Len(es) + 1 /\ Append(es, e)[Len(es) + 1] = e
    BY <1>1, AppendFacts
  <1>3. ASSUME NEW i \in 1 .. Len(Append(es, e))
        PROVE  Listed(Append(es, e)[i].hosts)
    <2>1. CASE i = Len(es) + 1
      BY <1>2, <2>1
    <2>2. CASE i # Len(es) + 1
      <3>1. i \in 1 .. Len(es)
        BY <1>1, <1>2, <2>2
      <3>2. Append(es, e)[i] = es[i]
        BY <1>2, <3>1 DEF Extends
      <3> QED BY <3>1, <3>2 DEF Table
    <2> QED BY <2>1, <2>2
  <1> QED BY <1>2, <1>3 DEF Table

\* Loading a line appends at most one entry.
LEMMA LineExtends ==
    ASSUME NEW es, Table(es), NEW line, Listed(line.hosts)
    PROVE  Table(LoadLine(es, line)) /\ Extends(es, LoadLine(es, line))
  <1>1. PICK off :
          LET left == FlattenSeq([i \in DOMAIN line.hosts |->
                                    IF off[i] THEN <<>> ELSE <<line.hosts[i]>>])
          IN  LoadLine(es, line) = IF line.key = Skipped \/ left = <<>> THEN es
                                   ELSE Append(es, [hosts |-> left, key |-> line.key])
    BY DEF LoadLine
  <1> DEFINE parts == [i \in DOMAIN line.hosts |-> IF off[i] THEN <<>> ELSE <<line.hosts[i]>>]
             left == FlattenSeq(parts)
             e == [hosts |-> left, key |-> line.key]
  <1>2. Len(line.hosts) \in Nat /\ DOMAIN line.hosts = 1 .. Len(line.hosts)
    BY ListedFacts
  <1>3. parts = [i \in 1 .. Len(line.hosts) |-> parts[i]]
    BY <1>2
  <1> DEFINE S == {line.hosts[i] : i \in 1 .. Len(line.hosts)}
  <1>4. ASSUME NEW i \in 1 .. Len(line.hosts)
        PROVE  parts[i] \in Seq(S)
    <2>1. line.hosts[i] \in S
      OBVIOUS
    <2>2. parts[i] = <<>> \/ parts[i] = <<line.hosts[i]>>
      BY <1>2
    <2> HIDE DEF S, parts
    <2> QED BY <2>1, <2>2, ShortLists
  <1> HIDE DEF parts, S
  <1>5. Listed(parts) /\ Len(parts) = Len(line.hosts)
    BY <1>2, <1>3, FunctionListed
  <1>6. Listed(left)
    BY <1>4, <1>5, FlattenType DEF Listed
  <1>7. LoadLine(es, line) = IF line.key = Skipped \/ left = <<>> THEN es
                             ELSE Append(es, e)
    BY <1>1 DEF parts
  <1>8. Listed(e.hosts)
    BY <1>6
  <1> HIDE DEF left, e
  <1>9. Extends(es, es)
    BY ListedFacts DEF Table, Extends
  <1> QED BY <1>7, <1>8, <1>9, TableAppend

\* The least of some places.
LEMMA MinFacts ==
    ASSUME NEW S, S \subseteq Nat, S # {}
    PROVE  Min(S) \in S /\ \A y \in S : Min(S) <= y
  <1>1. \E x \in S : \A y \in S : x <= y
    BY LeastNat
  <1> QED BY <1>1 DEF Min

\* The first lines of a table are a table.
LEMMA FirstLines ==
    ASSUME NEW lines, Table(lines), NEW n \in 0 .. Len(lines)
    PROVE  Table(SubSeq(lines, 1, n))
  <1>1. PICK T : lines \in Seq(T)
    BY DEF Table, Listed
  <1>2. Len(lines) \in Nat
    BY <1>1
  <1>3. /\ SubSeq(lines, 1, n) \in Seq(T) /\ Len(SubSeq(lines, 1, n)) = n
        /\ \A i \in 1 .. n : SubSeq(lines, 1, n)[i] = lines[i]
    BY <1>1, <1>2
  <1>4. ASSUME NEW i \in 1 .. Len(SubSeq(lines, 1, n))
        PROVE  Listed(SubSeq(lines, 1, n)[i].hosts)
    <2>1. i \in 1 .. n /\ i \in 1 .. Len(lines)
      BY <1>2, <1>3
    <2>2. SubSeq(lines, 1, n)[i] = lines[i]
      BY <1>3, <2>1
    <2> QED BY <2>1, <2>2 DEF Table
  <1>5. Listed(SubSeq(lines, 1, n))
    BY <1>3 DEF Listed
  <1> QED BY <1>4, <1>5 DEF Table

\* The lines that load comes to are a table.
LEMMA ReadTable ==
    ASSUME NEW lines, Table(lines)
    PROVE  Table(LinesRead(lines))
  <1> DEFINE broken == {i \in DOMAIN lines : lines[i].key = Broken}
  <1>1. Len(lines) \in Nat /\ DOMAIN lines = 1 .. Len(lines)
    BY ListedFacts DEF Table
  <1>2. CASE broken = {}
    BY <1>2 DEF LinesRead
  <1>3. CASE broken # {}
    <2>1. broken \subseteq 1 .. Len(lines) /\ broken \subseteq Nat
      BY <1>1
    <2>2. LinesRead(lines) = SubSeq(lines, 1, Min(broken) - 1)
      BY <1>3 DEF LinesRead
    <2> HIDE DEF broken
    <2>3. Min(broken) \in 1 .. Len(lines)
      BY <1>3, <2>1, MinFacts
    <2>4. Min(broken) - 1 \in 0 .. Len(lines)
      BY <1>1, <2>3
    <2> QED BY <2>2, <2>4, FirstLines
  <1> QED BY <1>2, <1>3

\* Loading a file appends to the entries.
LEMMA LoadExtends ==
    ASSUME NEW es, Table(es), NEW lines, Table(lines)
    PROVE  Table(Load(es, lines)) /\ Extends(es, Load(es, lines))
  <1>0. PICK some : some = LinesRead(lines) /\ Table(some)
    BY ReadTable
  <1> DEFINE N == Len(some)
  <1>1. N \in Nat
    BY <1>0, ListedFacts DEF Table
  <1>2. PICK f : Load(es, lines) = f[N] /\ LoadSteps(f, es, some)
    BY <1>0, <1>1, LoadDef
  <1>3. \A n \in 0 .. N : f[n] = IF n = 0 THEN es ELSE LoadLine(f[n - 1], some[n])
    BY <1>2 DEF LoadSteps
  <1> DEFINE Good(n) == Table(f[n]) /\ Extends(es, f[n])
             T == {n \in 0 .. N : ~Good(n)}
  <1>4. T = {}
    <2> SUFFICES ASSUME T # {} PROVE FALSE
      OBVIOUS
    <2>0. T \subseteq Nat
      OBVIOUS
    <2>1. PICK m \in T : \A k \in T : m <= k
      BY <2>0, LeastNat
    <2>2. CASE m = 0
      <3>1. f[0] = es
        BY <1>1, <1>3
      <3>2. Extends(es, es)
        BY ListedFacts DEF Table, Extends
      <3> QED BY <2>1, <2>2, <3>1, <3>2
    <2>3. CASE m # 0
      <3>0. m \in 0 .. N
        BY <2>1
      <3>1. m \in 1 .. N /\ m - 1 \in 0 .. N /\ m - 1 \notin T
        <4> HIDE DEF T
        <4> QED BY <1>1, <2>1, <2>3, <3>0
      <3>2. Good(m - 1)
        BY <3>1
      <3>3. f[m] = LoadLine(f[m - 1], some[m]) /\ Listed(some[m].hosts)
        BY <1>0, <1>3, <2>3, <3>0, <3>1 DEF Table
      <3>4. Table(f[m]) /\ Extends(f[m - 1], f[m])
        BY <3>2, <3>3, LineExtends
      <3>5. Extends(es, f[m])
        BY <3>2, <3>4, ExtendsTransitive DEF Table
      <3> QED BY <2>1, <3>4, <3>5
    <2> QED BY <2>2, <2>3
  <1>5. Good(N)
    BY <1>1, <1>4
  <1> QED BY <1>2, <1>5

\* What is looked up stays when entries are appended.
LEMMA KeyForStays ==
    ASSUME NEW a, NEW b, Listed(a), Listed(b), Extends(a, b), NEW h, NEW type,
           KeyFor(a, h, type) # NoKey
    PROVE  KeyFor(b, h, type) = KeyFor(a, h, type)
  <1> DEFINE A == {i \in Lookup(a, h) : a[i].key.type = type}
             B == {i \in Lookup(b, h) : b[i].key.type = type}
  <1>1. /\ Len(a) \in Nat /\ DOMAIN a = 1 .. Len(a)
        /\ Len(b) \in Nat /\ DOMAIN b = 1 .. Len(b)
    BY ListedFacts
  <1>2. KeyFor(a, h, type) = a[Min(A)].key /\ A # {}
    BY DEF KeyFor
  <1>3. A = {i \in B : i <= Len(a)}
    BY <1>1 DEF Lookup, Extends
  <1>4. A \subseteq 1 .. Len(a) /\ A \subseteq Nat /\ B \subseteq Nat /\ B # {}
    BY <1>1, <1>2, <1>3 DEF Lookup
  <1>5. KeyFor(b, h, type) = b[Min(B)].key
    BY <1>4 DEF KeyFor
  <1> HIDE DEF A, B
  <1>6. Min(A) \in A /\ (\A y \in A : Min(A) <= y) /\ Min(B) \in B /\ (\A y \in B : Min(B) <= y)
    BY <1>2, <1>4, MinFacts
  <1>7. Min(A) = Min(B)
    <2>1. Min(A) \in B /\ Min(A) <= Len(a) /\ Min(A) \in Nat /\ Min(B) \in Nat
      BY <1>3, <1>4, <1>6
    <2>2. Min(B) <= Min(A)
      BY <1>6, <2>1
    <2>3. Min(B) \in A
      BY <1>1, <1>3, <1>6, <2>1, <2>2
    <2> QED BY <1>6, <2>1, <2>2, <2>3
  <1>8. b[Min(B)] = a[Min(A)]
    BY <1>4, <1>6, <1>7 DEF Extends
  <1> QED BY <1>2, <1>5, <1>8

\* A host that has no entry had none before entries were appended.
LEMMA LookupStays ==
    ASSUME NEW a, NEW b, Listed(a), Listed(b), Extends(a, b), NEW h, Lookup(b, h) = {}
    PROVE  Lookup(a, h) = {}
  BY ListedFacts DEF Lookup, Extends

\* add, for a host that has no entry.
LEMMA Adding ==
    ASSUME NEW es, Table(es), NEW h, Lookup(es, h) = {}, NEW key \in Key
    PROVE  /\ Table(Add(es, h, key)) /\ Extends(es, Add(es, h, key))
           /\ KeyFor(Add(es, h, key), h, key.type) = key
  <1> DEFINE e == [hosts |-> <<h>>, key |-> key]
  <1>1. Add(es, h, key) = Append(es, e)
    BY DEF Add
  <1>2. Listed(e.hosts) /\ e.key = key /\ h \in Range(e.hosts)
    BY SingleListed DEF Range
  <1> HIDE DEF e
  <1>3. Listed(es) /\ Len(es) \in Nat /\ DOMAIN es = 1 .. Len(es)
    BY ListedFacts DEF Table
  <1>4. Table(Append(es, e)) /\ Extends(es, Append(es, e))
    BY <1>2, TableAppend
  <1> DEFINE n == Len(es) + 1
             b == Append(es, e)
             B == {i \in Lookup(b, h) : b[i].key.type = key.type}
  <1>5. Len(b) = n /\ b[n] = e /\ DOMAIN b = 1 .. n
    BY <1>3, <1>4, AppendFacts, ListedFacts DEF Table
  <1>6. \A i \in 1 .. Len(es) : b[i] = es[i]
    BY <1>4 DEF Extends
  <1> HIDE DEF b
  <1>7. Lookup(b, h) = {n}
    BY <1>2, <1>3, <1>5, <1>6 DEF Lookup
  <1>8. B = {n}
    BY <1>2, <1>5, <1>7
  <1>9. Min(B) = n
    BY <1>3, <1>8, MinFacts
  <1>10. KeyFor(b, h, key.type) = b[n].key
    BY <1>8, <1>9 DEF KeyFor
  <1> QED BY <1>1, <1>2, <1>4, <1>5, <1>10 DEF b

\* What a save writes is a list of lines.
LEMMA LinesTable ==
    ASSUME NEW es, Table(es)
    PROVE  Table(LinesOf(es))
  <1> DEFINE N == Len(es)
             U == UNION {Range(es[i].hosts) : i \in 1 .. N}
             hosts == [i \in DOMAIN es |-> es[i].hosts]
             names == FlattenSeq(hosts)
             line(h, j) == [hosts |-> <<h>>, key |-> KeyFor(es, h, es[j].key.type)]
             parts(h) == [j \in DOMAIN es |-> IF j \notin Lookup(es, h) THEN <<>>
                                              ELSE <<line(h, j)>>]
             all == [i \in DOMAIN names |-> IF \E j \in 1 .. (i - 1) : names[j] = names[i]
                                            THEN <<>> ELSE FlattenSeq(parts(names[i]))]
             S == {line(h, j) : h \in U, j \in 1 .. N}
  <1>1. N \in Nat /\ DOMAIN es = 1 .. N
    BY ListedFacts DEF Table
  <1>2. LinesOf(es) = FlattenSeq(all)
    BY DEF LinesOf, Names
  <1>3. Listed(hosts) /\ Len(hosts) = N
    <2>1. hosts = [i \in 1 .. N |-> hosts[i]]
      BY <1>1
    <2> HIDE DEF hosts
    <2> QED BY <1>1, <2>1, FunctionListed
  <1>4. \A i \in 1 .. N : hosts[i] \in Seq(U)
    <2> SUFFICES ASSUME NEW i \in 1 .. N
                 PROVE  es[i].hosts \in Seq(U)
      BY <1>1
    <2>1. Listed(es[i].hosts)
      BY DEF Table
    <2>2. DOMAIN es[i].hosts = 1 .. Len(es[i].hosts)
      BY <2>1, ListedFacts
    <2>3. \A j \in 1 .. Len(es[i].hosts) : es[i].hosts[j] \in U
      BY <2>2 DEF Range
    <2> HIDE DEF U
    <2> QED BY <2>1, <2>3, ListedOver
  <1> HIDE DEF hosts, U
  <1>5. names \in Seq(U)
    BY <1>3, <1>4, FlattenType
  <1>6. ASSUME NEW h \in U
        PROVE  FlattenSeq(parts(h)) \in Seq(S)
    <2>1. parts(h) = [j \in 1 .. N |-> parts(h)[j]]
      BY <1>1
    <2>2. \A j \in 1 .. N : parts(h)[j] \in Seq(S)
      <3> HIDE DEF S, parts
      <3> SUFFICES ASSUME NEW j \in 1 .. N PROVE parts(h)[j] \in Seq(S)
        OBVIOUS
      <3>1. line(h, j) \in S
        <4> HIDE DEF line
        <4> QED BY DEF S
      <3>2. parts(h)[j] = <<>> \/ parts(h)[j] = <<line(h, j)>>
        BY <1>1 DEF parts
      <3> HIDE DEF line
      <3> QED BY <3>1, <3>2, ShortLists
    <2> HIDE DEF parts, S
    <2>3. Listed(parts(h)) /\ Len(parts(h)) = N
      BY <1>1, <2>1, FunctionListed
    <2> QED BY <2>2, <2>3, FlattenType
  <1> HIDE DEF names, parts, S
  <1>7. Listed(all) /\ \A i \in 1 .. Len(all) : all[i] \in Seq(S)
    <2>1. Len(names) \in Nat /\ DOMAIN names = 1 .. Len(names)
      BY <1>5
    <2>2. all = [i \in 1 .. Len(names) |-> all[i]]
      BY <2>1
    <2>3. ASSUME NEW i \in 1 .. Len(names)
          PROVE  all[i] \in Seq(S)
      <3>1. names[i] \in U
        BY <1>5
      <3>2. all[i] = <<>> \/ all[i] = FlattenSeq(parts(names[i]))
        BY <2>1
      <3>3. FlattenSeq(parts(names[i])) \in Seq(S)
        BY <1>6, <3>1
      <3> HIDE DEF all
      <3> QED BY <3>2, <3>3, ShortLists
    <2> HIDE DEF all
    <2>4. Listed(all) /\ Len(all) = Len(names)
      BY <2>1, <2>2, FunctionListed
    <2> QED BY <2>3, <2>4
  <1> HIDE DEF all
  <1>8. LinesOf(es) \in Seq(S)
    BY <1>2, <1>7, FlattenType
  <1>9. \A e \in S : Listed(e.hosts)
    BY SingleListed DEF S
  <1>10. \A i \in 1 .. Len(LinesOf(es)) : LinesOf(es)[i] \in S
    BY <1>8
  <1> QED BY <1>8, <1>9, <1>10 DEF Table, Listed
-----------------------------------------------------------------------------
(* Trust on first use *)

Saving == {"reload", "truncate", "write"}

\* The keys a client has trusted for a host are the ones it would accept again.
Pinned(c, h) ==
    Lookup(system[c], h) = {} =>
        \A k \in accepted[c][h] : k \in Key /\ KeyFor(host_keys[c], h, k.type) = k

\* A client: while a new key is saved it is the one that counts for its host.
ClientInv(c) ==
    /\ Table(system[c]) /\ Table(host_keys[c])
    /\ DOMAIN accepted[c] = Hosts
    /\ pc[c] \notin {"idle", "auth"} => call[c] \in [host : Targets, plan : Plans, refused : Nat]
    /\ pc[c] \in Saving \cup {"hostkey"} => server_key[c] \in Key
    /\ pc[c] \in Saving =>
          KeyFor(host_keys[c], call[c].host, server_key[c].type) = server_key[c]
    /\ \A h \in Hosts : Pinned(c, h)

\* The variables ClientInv is about have a value for each client, ...
PerClient ==
    /\ DOMAIN system = Clients /\ DOMAIN host_keys = Clients /\ DOMAIN accepted = Clients
    /\ DOMAIN pc = Clients /\ DOMAIN call = Clients /\ DOMAIN server_key = Clients

\* ... and the shared ones are a file of lines and servers with keys.
Shared ==
    /\ serving \in [Targets -> Servers]
    /\ DOMAIN file = {"lines", "exists"} /\ Table(file.lines)

PinInv == PerClient /\ Shared /\ \A c \in Clients : ClientInv(c)

\* A key is never NoKey, which has no number.
LEMMA KeyIsKey == NoKey \notin Key
  <1> SUFFICES ASSUME NoKey \in Key PROVE FALSE
    OBVIOUS
  <1>1. DOMAIN NoKey = {"type", "id"}
    BY DEF Key
  <1>2. "id" \notin DOMAIN NoKey
    BY DEF NoKey
  <1> QED BY <1>1, <1>2

\* A list of lines is a table.
LEMMA LinesAreTable ==
    ASSUME NEW lines \in Seq(Line)
    PROVE  Table(lines)
  <1>1. ASSUME NEW i \in 1 .. Len(lines)
        PROVE  Listed(lines[i].hosts)
    <2>1. lines[i] \in Line
      OBVIOUS
    <2> QED BY <2>1 DEF Line, Listed
  <1> QED BY <1>1 DEF Table, Listed

\* The rank of a type that Transport knows is a number.
LEMMA PreferredNat ==
    ASSUME NEW c, NEW type \in Range(KeyTypes)
    PROVE  Preferred(c, type) \in Nat
  <1>1. \E i \in DOMAIN KeyTypes : KeyTypes[i] = type
    BY DEF Range
  <1>2. DOMAIN KeyTypes \subseteq Nat
    BY ConnectAssumption
  <1>3. (CHOOSE i \in DOMAIN KeyTypes : KeyTypes[i] = type) \in Nat
    BY <1>1, <1>2
  <1> QED BY <1>3 DEF Preferred

\* A server that has a key shows one.
LEMMA ServerShowsKey ==
    ASSUME Shared, NEW c, call[c].host \in Targets
    PROVE  Presented(c) \in Key
  <1> DEFINE keys == serving[call[c].host]
             T == {Preferred(c, k.type) : k \in keys}
  <1>1. keys \subseteq Key /\ keys # {}
    BY ConnectAssumption DEF Shared
  <1>2. \A k \in keys : Preferred(c, k.type) \in Nat
    BY <1>1, PreferredNat DEF Key
  <1>3. Presented(c) = CHOOSE k \in keys :
                         \A l \in keys : Preferred(c, k.type) <= Preferred(c, l.type)
    BY DEF Presented
  <1> HIDE DEF keys
  <1>4. T \subseteq Nat /\ T # {}
    BY <1>1, <1>2
  <1>5. PICK x \in T : \A y \in T : x <= y
    <2> HIDE DEF T
    <2> QED BY <1>4, LeastNat
  <1>6. \E k \in keys : \A l \in keys : Preferred(c, k.type) <= Preferred(c, l.type)
    BY <1>5
  <1>7. Presented(c) \in keys
    BY <1>3, <1>6
  <1> QED BY <1>1, <1>7

\* Nothing of the client changes.
LEMMA ClientRests ==
    ASSUME NEW d, ClientInv(d),
           system'[d] = system[d], host_keys'[d] = host_keys[d],
           pc'[d] = pc[d], call'[d] = call[d], server_key'[d] = server_key[d],
           accepted'[d] = accepted[d]
    PROVE  ClientInv(d)'
  BY DEF ClientInv, Pinned

\* A client that goes on to authenticate, or whose connect ends.
LEMMA ClientLeaves ==
    ASSUME NEW c, ClientInv(c),
           system'[c] = system[c], host_keys'[c] = host_keys[c],
           accepted'[c] = accepted[c],
           pc'[c] = "idle" \/ (pc'[c] = "auth" /\ pc[c] # "idle")
    PROVE  ClientInv(c)'
  BY DEF ClientInv, Pinned, Saving

\* The other clients, in a step of one client.
LEMMA OthersRest ==
    ASSUME PinInv, NEW c \in Clients, PerClient', Shared', ClientInv(c)',
           \A d \in Clients \ {c} :
              /\ system'[d] = system[d] /\ host_keys'[d] = host_keys[d]
              /\ pc'[d] = pc[d] /\ call'[d] = call[d]
              /\ server_key'[d] = server_key[d] /\ accepted'[d] = accepted[d]
    PROVE  PinInv'
  <1>1. ASSUME NEW d \in Clients
        PROVE  ClientInv(d)'
    <2>1. CASE d = c
      BY <2>1
    <2>2. CASE d # c
      BY <2>2, ClientRests DEF PinInv
    <2> QED BY <2>1, <2>2
  <1> QED BY <1>1 DEF PinInv

\* Trust is given to a key that is the one that counts, unless the system's keys
\* speak for the host.
LEMMA TrustGiven ==
    ASSUME NEW c \in Clients, ClientInv(c), PerClient, Trust(c),
           pc[c] # "idle", call[c].host \in Targets, server_key[c] \in Key,
           Table(host_keys'[c]), Extends(host_keys[c], host_keys'[c]),
           system'[c] = system[c],
           \/ Lookup(system[c], call[c].host) # {}
           \/ KeyFor(host_keys'[c], call[c].host, server_key[c].type) = server_key[c]
    PROVE  ClientInv(c)'
  <1> DEFINE at == call[c].host
  <1>1. /\ at \in Hosts /\ pc'[c] = "auth" /\ DOMAIN accepted'[c] = Hosts
        /\ accepted'[c][at] = accepted[c][at] \cup {server_key[c]}
        /\ \A h \in Hosts \ {at} : accepted'[c][h] = accepted[c][h]
    BY ConnectAssumption DEF Trust, ClientInv, PerClient
  <1>2. Table(host_keys[c]) /\ Listed(host_keys[c]) /\ Listed(host_keys'[c])
    BY DEF ClientInv, Table
  <1>3. ASSUME NEW h \in Hosts, Lookup(system'[c], h) = {},
               NEW k \in accepted'[c][h]
        PROVE  k \in Key /\ KeyFor(host_keys'[c], h, k.type) = k
    <2>1. CASE h = at /\ k = server_key[c]
      BY <1>3, <2>1
    <2>2. CASE ~(h = at /\ k = server_key[c])
      <3>1. k \in accepted[c][h]
        BY <1>1, <2>2
      <3>2. k \in Key /\ KeyFor(host_keys[c], h, k.type) = k
        BY <1>3, <3>1 DEF ClientInv, Pinned
      <3> QED BY <1>2, <3>2, KeyForStays, KeyIsKey
    <2> QED BY <2>1, <2>2
  <1>4. \A h \in Hosts : Pinned(c, h)'
    BY <1>3 DEF Pinned
  <1> QED BY <1>1, <1>4 DEF ClientInv, Saving

\* More entries, loaded from a file, change nothing about what is pinned.
LEMMA MoreEntries ==
    ASSUME NEW c \in Clients, ClientInv(c),
           Table(host_keys'[c]), Extends(host_keys[c], host_keys'[c]),
           Table(system'[c]), Extends(system[c], system'[c]),
           accepted'[c] = accepted[c]
    PROVE  \A h \in Hosts : Pinned(c, h)'
  <1>1. /\ Listed(host_keys[c]) /\ Listed(host_keys'[c])
        /\ Listed(system[c]) /\ Listed(system'[c])
    BY DEF ClientInv, Table
  <1>2. ASSUME NEW h \in Hosts, Lookup(system'[c], h) = {},
               NEW k \in accepted'[c][h]
        PROVE  k \in Key /\ KeyFor(host_keys'[c], h, k.type) = k
    <2>1. Lookup(system[c], h) = {}
      BY <1>1, <1>2, LookupStays
    <2>2. k \in Key /\ KeyFor(host_keys[c], h, k.type) = k
      BY <1>2, <2>1 DEF ClientInv, Pinned
    <2> QED BY <1>1, <2>2, KeyForStays, KeyIsKey
  <1> QED BY <1>2 DEF Pinned

\* A table extends itself.
LEMMA ExtendsItself ==
    ASSUME NEW es, Table(es)
    PROVE  Extends(es, es)
  BY ListedFacts DEF Table, Extends

\* An exception ends connect.
LEMMA RaiseKeeps ==
    ASSUME PinInv, NEW c \in Clients, Raise(c), Shared',
           UNCHANGED <<system, accepted>>, DOMAIN host_keys' = Clients,
           Table(host_keys'[c]), Extends(host_keys[c], host_keys'[c]),
           \A d \in Clients \ {c} : host_keys'[d] = host_keys[d]
    PROVE  PinInv'
  <1>1. PerClient' /\ pc'[c] = "idle" /\ ClientInv(c) /\ Table(system[c])
    BY DEF Raise, PinInv, PerClient, ClientInv
  <1>2. ClientInv(c)'
    <2>1. \A h \in Hosts : Pinned(c, h)'
      BY <1>1, MoreEntries, ExtendsItself
    <2> QED BY <1>1, <2>1 DEF ClientInv, Saving
  <1>3. \A d \in Clients \ {c} : /\ pc'[d] = pc[d] /\ call'[d] = call[d]
                                 /\ server_key'[d] = server_key[d]
    BY DEF Raise, PinInv, PerClient
  <1> QED BY <1>1, <1>2, <1>3, OthersRest

\* An exception ends connect, and the keys stay as they are.
LEMMA RaiseOnly ==
    ASSUME PinInv, NEW c \in Clients, Raise(c), Shared', UNCHANGED <<hostkeys, accepted>>
    PROVE  PinInv'
  <1>1. /\ UNCHANGED <<system, accepted, host_keys>> /\ DOMAIN host_keys' = Clients
        /\ Table(host_keys[c])
    BY DEF PinInv, PerClient, ClientInv, hostkeys
  <1> QED BY <1>1, RaiseKeeps, ExtendsItself

\* A step that changes nothing PinInv is about.
LEMMA PinRests ==
    ASSUME PinInv, Shared',
           UNCHANGED <<system, host_keys, pc, call, server_key, accepted>>
    PROVE  PinInv'
  <1>1. \A d \in Clients : ClientInv(d)'
    BY ClientRests DEF PinInv
  <1> QED BY <1>1 DEF PinInv, PerClient

\* At the start nothing is trusted.
LEMMA PinInit == Init => PinInv
  <1> SUFFICES ASSUME Init PROVE PinInv
    OBVIOUS
  <1>1. PerClient
    BY DEF Init, PerClient
  <1>2. Shared
    <2>1. file \in [lines : Seq(Line), exists : BOOLEAN]
      BY ConnectAssumption DEF Init
    <2>2. serving \in [Targets -> Servers]
      BY ConnectAssumption DEF Init
    <2>3. DOMAIN file = {"lines", "exists"} /\ file.lines \in Seq(Line)
      BY <2>1
    <2> QED BY <2>2, <2>3, LinesAreTable DEF Shared
  <1>3. ASSUME NEW c \in Clients
        PROVE  ClientInv(c)
    <2>1. /\ system[c] = <<>> /\ host_keys[c] = <<>> /\ pc[c] = "idle"
          /\ accepted[c] = [h \in Hosts |-> {}]
      BY DEF Init
    <2> QED BY <2>1, EmptyListed DEF ClientInv, Pinned, Saving
  <1> QED BY <1>1, <1>2, <1>3 DEF PinInv

\* load_system_host_keys and load_host_keys.
LEMMA PinLoads ==
    ASSUME PinInv, NEW c \in Clients, LoadSystemHostKeys(c) \/ LoadHostKeys(c)
    PROVE  PinInv'
  <1>1. Table(system[c]) /\ Table(host_keys[c]) /\ Table(file.lines) /\ Table(SystemLines)
    BY ConnectAssumption, LinesAreTable DEF PinInv, ClientInv, Shared
  <1>2. /\ Table(system'[c]) /\ Extends(system[c], system'[c])
        /\ Table(host_keys'[c]) /\ Extends(host_keys[c], host_keys'[c])
    <2>1. CASE LoadSystemHostKeys(c)
      <3>1. system'[c] = Load(system[c], SystemLines) /\ host_keys' = host_keys
        BY <2>1 DEF LoadSystemHostKeys, PinInv, PerClient
      <3> QED BY <1>1, <3>1, LoadExtends, ExtendsItself
    <2>2. CASE LoadHostKeys(c)
      <3>1. host_keys'[c] = Load(host_keys[c], file.lines) /\ system' = system
        BY <2>2 DEF LoadHostKeys, PinInv, PerClient
      <3> QED BY <1>1, <3>1, LoadExtends, ExtendsItself
    <2> QED BY <2>1, <2>2
  <1>3. /\ pc[c] = "idle"
        /\ UNCHANGED <<serving, file, pc, call, server_key, accepted>>
    BY DEF LoadSystemHostKeys, LoadHostKeys, Idle, progress, history
  <1>4. \A h \in Hosts : Pinned(c, h)'
    BY <1>2, <1>3, MoreEntries DEF PinInv
  <1>5. ClientInv(c)'
    BY <1>2, <1>3, <1>4 DEF PinInv, ClientInv, Saving
  <1>6. /\ PerClient' /\ Shared'
        /\ \A d \in Clients \ {c} : system'[d] = system[d] /\ host_keys'[d] = host_keys[d]
    BY <1>3 DEF LoadSystemHostKeys, LoadHostKeys, PinInv, PerClient, Shared
  <1> QED BY <1>3, <1>5, <1>6, OthersRest

\* set_missing_host_key_policy.
LEMMA PinPolicy ==
    ASSUME PinInv, NEW c \in Clients, NEW p \in Policies, SetMissingHostKeyPolicy(c, p)
    PROVE  PinInv'
  <1>1. UNCHANGED <<serving, file, system, host_keys, pc, call, server_key, accepted>>
    BY DEF SetMissingHostKeyPolicy, progress, history
  <1> QED BY <1>1, PinRests DEF PinInv, Shared

\* connect is called.
LEMMA PinConnect ==
    ASSUME PinInv, NEW c \in Clients, NEW h \in Targets, NEW plan \in Plans,
           Connect(c, h, plan)
    PROVE  PinInv'
  <1>1. UNCHANGED <<serving, file, system, host_keys, server_key, accepted>>
    BY DEF Connect, hostkeys
  <1>2. /\ pc'[c] \in {"start", "dial"}
        /\ call'[c] = [host |-> h, plan |-> plan, refused |-> 0]
    BY DEF Connect, PinInv, PerClient
  <1>3. call'[c] \in [host : Targets, plan : Plans, refused : Nat]
    BY <1>2
  <1>5. ClientInv(c)'
    BY <1>1, <1>2, <1>3 DEF PinInv, ClientInv, Pinned, Saving
  <1>6. /\ PerClient' /\ Shared'
        /\ \A d \in Clients \ {c} : pc'[d] = pc[d] /\ call'[d] = call[d]
    BY <1>1 DEF Connect, PinInv, PerClient, Shared
  <1> QED BY <1>1, <1>5, <1>6, OthersRest

\* An address is tried.
LEMMA PinDial ==
    ASSUME PinInv, NEW c \in Clients, Dial(c)
    PROVE  PinInv'
  <1>1. /\ pc[c] = "dial" /\ Shared' /\ UNCHANGED <<hostkeys, accepted>>
        /\ call[c] \in [host : Targets, plan : Plans, refused : Nat]
    BY DEF Dial, PinInv, ClientInv, Shared, history
  <1>2. CASE Raise(c)
    BY <1>1, <1>2, RaiseOnly
  <1>3. CASE ~Raise(c)
    <2>1. /\ pc'[c] \in {"start", "dial"}
          /\ call'[c] \in [host : Targets, plan : Plans, refused : Nat]
          /\ server_key' = server_key
      <3>1. CASE call' = [call EXCEPT ![c].refused = @ + 1]
        <4>1. call'[c] = [call[c] EXCEPT !.refused = @ + 1]
          BY <3>1 DEF PinInv, PerClient
        <4>2. call'[c] \in [host : Targets, plan : Plans, refused : Nat]
          BY <1>1, <4>1
        <4> QED BY <1>1, <1>3, <4>2 DEF Dial, progress, PinInv, PerClient
      <3>2. CASE call' # [call EXCEPT ![c].refused = @ + 1]
        BY <1>1, <1>3, <3>2 DEF Dial, progress, PinInv, PerClient
      <3> QED BY <3>1, <3>2
    <2>2. ClientInv(c)'
      BY <1>1, <2>1 DEF PinInv, ClientInv, Pinned, Saving, hostkeys
    <2>3. PerClient' /\ \A d \in Clients \ {c} : pc'[d] = pc[d] /\ call'[d] = call[d]
      BY <1>1, <1>3, <2>1 DEF Dial, progress, PinInv, PerClient, hostkeys
    <2> QED BY <1>1, <2>1, <2>2, <2>3, OthersRest DEF hostkeys
  <1> QED BY <1>2, <1>3

\* The server shows a key.
LEMMA PinStart ==
    ASSUME PinInv, NEW c \in Clients, StartClient(c)
    PROVE  PinInv'
  <1>1. /\ pc[c] = "start" /\ Shared' /\ UNCHANGED <<hostkeys, accepted>>
        /\ call[c] \in [host : Targets, plan : Plans, refused : Nat]
    BY DEF StartClient, PinInv, ClientInv, Shared, history
  <1>2. CASE Raise(c)
    BY <1>1, <1>2, RaiseOnly
  <1>3. CASE ~Raise(c)
    <2>1. /\ call' = call /\ pc'[c] \in {"auth", "hostkey"}
          /\ pc'[c] = "hostkey" => server_key'[c] = Presented(c)
      BY <1>3 DEF StartClient, PinInv, PerClient
    <2>2. Presented(c) \in Key
      BY <1>1, ServerShowsKey DEF PinInv
    <2>3. ClientInv(c)'
      BY <1>1, <2>1, <2>2 DEF PinInv, ClientInv, Pinned, Saving, hostkeys
    <2>4. PerClient' /\ \A d \in Clients \ {c} : pc'[d] = pc[d] /\ server_key'[d] = server_key[d]
      BY <1>1, <1>3, <2>1 DEF StartClient, PinInv, PerClient, hostkeys
    <2> QED BY <1>1, <2>1, <2>3, <2>4, OthersRest DEF hostkeys
  <1> QED BY <1>2, <1>3

\* The host is known: its key is the known one, or connect ends.
LEMMA PinCheck ==
    ASSUME PinInv, NEW c \in Clients, CheckHostKey(c)
    PROVE  PinInv'
  <1>1. /\ pc[c] = "hostkey" /\ Shared' /\ UNCHANGED hostkeys
        /\ call[c].host \in Targets /\ server_key[c] \in Key
        /\ Table(host_keys[c])
    BY DEF CheckHostKey, PinInv, ClientInv, Shared
  <1>2. CASE KeyDiffers(c)
    BY <1>1, <1>2, RaiseOnly DEF CheckHostKey
  <1>3. CASE ~KeyDiffers(c)
    <2>1. Trust(c) /\ UNCHANGED <<call, server_key>>
      BY <1>3 DEF CheckHostKey, progress
    <2>2. \/ Lookup(system[c], call[c].host) # {}
          \/ KeyFor(host_keys[c], call[c].host, server_key[c].type) = server_key[c]
      BY <1>3 DEF KeyDiffers, OurServerKeys
    <2>3. ClientInv(c)'
      BY <1>1, <2>1, <2>2, TrustGiven, ExtendsItself DEF PinInv, hostkeys
    <2>4. PerClient' /\ \A d \in Clients \ {c} : pc'[d] = pc[d] /\ accepted'[d] = accepted[d]
      BY <1>1, <2>1 DEF Trust, PinInv, PerClient, hostkeys
    <2> QED BY <1>1, <2>1, <2>3, <2>4, OthersRest DEF hostkeys
  <1> QED BY <1>2, <1>3

\* The host is not known: the policy decides.
LEMMA PinMissing ==
    ASSUME PinInv, NEW c \in Clients, MissingHostKey(c)
    PROVE  PinInv'
  <1>1. /\ pc[c] = "hostkey" /\ Shared' /\ UNCHANGED <<system, policy, filename>>
        /\ call[c].host \in Targets /\ server_key[c] \in Key
        /\ Table(host_keys[c])
        /\ call[c] \in [host : Targets, plan : Plans, refused : Nat]
    BY DEF MissingHostKey, PinInv, ClientInv, Shared
  <1>2. Lookup(host_keys[c], call[c].host) = {}
    BY DEF MissingHostKey, HostKnown, OurServerKeys
  <1>3. CASE policy[c] = "reject"
    <2>1. Raise(c) /\ UNCHANGED <<host_keys, accepted>>
      BY <1>3 DEF MissingHostKey
    <2> QED BY <1>1, <2>1, RaiseOnly DEF hostkeys
  <1>4. CASE policy[c] = "warning"
    <2>1. pc' = [pc EXCEPT ![c] = "auth"] /\ UNCHANGED <<host_keys, accepted, call, server_key>>
      BY <1>4 DEF MissingHostKey, progress
    <2>2. PerClient' /\ pc'[c] = "auth" /\ \A d \in Clients \ {c} : pc'[d] = pc[d]
      BY <1>1, <2>1 DEF PinInv, PerClient
    <2>3. ClientInv(c)'
      BY <1>1, <2>1, <2>2, ClientLeaves DEF PinInv
    <2> QED BY <1>1, <2>1, <2>2, <2>3, OthersRest
  <1>5. CASE policy[c] = "autoadd"
    <2>1. /\ host_keys' = [host_keys EXCEPT ![c] = Add(@, call[c].host, server_key[c])]
          /\ UNCHANGED <<call, server_key>>
          /\ IF filename[c]
               THEN pc' = [pc EXCEPT ![c] = "reload"] /\ UNCHANGED accepted
               ELSE Trust(c)
      BY <1>5 DEF MissingHostKey, progress
    <2>2. /\ host_keys'[c] = Add(host_keys[c], call[c].host, server_key[c])
          /\ \A d \in Clients \ {c} : host_keys'[d] = host_keys[d]
          /\ DOMAIN host_keys' = Clients
      BY <2>1 DEF PinInv, PerClient
    <2>3. /\ Table(host_keys'[c]) /\ Extends(host_keys[c], host_keys'[c])
          /\ KeyFor(host_keys'[c], call[c].host, server_key[c].type) = server_key[c]
      BY <1>1, <1>2, <2>2, Adding
    <2>4. CASE filename[c]
      <3>1. pc' = [pc EXCEPT ![c] = "reload"] /\ UNCHANGED accepted
        BY <2>1, <2>4
      <3>2. \A h \in Hosts : Pinned(c, h)'
        BY <1>1, <2>3, <3>1, MoreEntries, ExtendsItself DEF PinInv, ClientInv
      <3>3. pc'[c] = "reload"
        BY <3>1 DEF PinInv, PerClient
      <3>4. ClientInv(c)'
        BY <1>1, <2>1, <2>3, <3>1, <3>2, <3>3 DEF PinInv, ClientInv
      <3>5. PerClient' /\ \A d \in Clients \ {c} : pc'[d] = pc[d]
        BY <1>1, <2>1, <2>2, <3>1 DEF PinInv, PerClient
      <3> QED BY <1>1, <2>1, <2>2, <3>1, <3>4, <3>5, OthersRest
    <2>5. CASE ~filename[c]
      <3>1. Trust(c)
        BY <2>1, <2>5
      <3>2. ClientInv(c)'
        BY <1>1, <2>1, <2>3, <3>1, TrustGiven DEF PinInv
      <3>3. PerClient' /\ \A d \in Clients \ {c} : pc'[d] = pc[d] /\ accepted'[d] = accepted[d]
        BY <1>1, <2>1, <2>2, <3>1 DEF Trust, PinInv, PerClient
      <3> QED BY <1>1, <2>1, <2>2, <3>2, <3>3, OthersRest
    <2> QED BY <2>4, <2>5
  <1> QED BY <1>3, <1>4, <1>5 DEF MissingHostKey

\* The file is read again before it is written.
LEMMA PinReload ==
    ASSUME PinInv, NEW c \in Clients, Reload(c)
    PROVE  PinInv'
  <1>1. /\ pc[c] = "reload" /\ Shared' /\ UNCHANGED <<system, accepted>>
        /\ call[c] \in [host : Targets, plan : Plans, refused : Nat]
        /\ server_key[c] \in Key /\ Table(host_keys[c]) /\ Table(system[c]) /\ Table(file.lines)
        /\ KeyFor(host_keys[c], call[c].host, server_key[c].type) = server_key[c]
    BY DEF Reload, PinInv, ClientInv, Shared, Saving, history
  <1>2. /\ host_keys'[c] = Load(host_keys[c], file.lines) /\ DOMAIN host_keys' = Clients
        /\ \A d \in Clients \ {c} : host_keys'[d] = host_keys[d]
    BY DEF Reload, PinInv, PerClient
  <1>3. Table(host_keys'[c]) /\ Extends(host_keys[c], host_keys'[c])
    BY <1>1, <1>2, LoadExtends
  <1>4. CASE Raise(c)
    BY <1>1, <1>2, <1>3, <1>4, RaiseKeeps
  <1>5. CASE pc' = [pc EXCEPT ![c] = "truncate"] /\ UNCHANGED <<call, server_key>>
    <2>2. pc'[c] = "truncate" /\ PerClient' /\ \A d \in Clients \ {c} : pc'[d] = pc[d]
      BY <1>1, <1>2, <1>5 DEF PinInv, PerClient
    <2>4. \A h \in Hosts : Pinned(c, h)'
      BY <1>1, <1>3, MoreEntries, ExtendsItself DEF PinInv
    <2>5. KeyFor(host_keys'[c], call[c].host, server_key[c].type) = server_key[c]
      BY <1>1, <1>3, KeyForStays, KeyIsKey DEF Table
    <2>6. ClientInv(c)'
      BY <1>1, <1>3, <1>5, <2>2, <2>4, <2>5 DEF PinInv, ClientInv
    <2> QED BY <1>1, <1>2, <1>5, <2>2, <2>6, OthersRest
  <1> QED BY <1>4, <1>5 DEF Reload, progress

\* The file is emptied.
LEMMA PinTruncate ==
    ASSUME PinInv, NEW c \in Clients, Truncate(c)
    PROVE  PinInv'
  <1>1. /\ pc[c] = "truncate"
        /\ UNCHANGED <<serving, hostkeys, call, server_key, accepted>>
        /\ file' = [lines |-> <<>>, exists |-> TRUE]
    BY DEF Truncate, progress, history
  <1>2. Shared'
    BY <1>1, EmptyListed DEF PinInv, Shared
  <1>3. PerClient' /\ pc'[c] = "write" /\ \A d \in Clients \ {c} : pc'[d] = pc[d]
    BY <1>1 DEF Truncate, PinInv, PerClient, hostkeys
  <1>4. ClientInv(c)'
    BY <1>1, <1>3 DEF PinInv, ClientInv, Pinned, Saving, hostkeys
  <1> QED BY <1>1, <1>2, <1>3, <1>4, OthersRest DEF hostkeys

\* The file is written, and the new key is trusted.
LEMMA PinWrite ==
    ASSUME PinInv, NEW c \in Clients, Write(c)
    PROVE  PinInv'
  <1>1. /\ pc[c] = "write" /\ Trust(c)
        /\ UNCHANGED <<serving, hostkeys, call, server_key>>
        /\ file' = [file EXCEPT !.lines = LinesOf(host_keys[c])]
        /\ call[c].host \in Targets /\ server_key[c] \in Key /\ Table(host_keys[c])
        /\ KeyFor(host_keys[c], call[c].host, server_key[c].type) = server_key[c]
    BY DEF Write, progress, PinInv, ClientInv, Saving
  <1>2. Shared'
    <2>1. file'.lines = LinesOf(host_keys[c]) /\ DOMAIN file' = {"lines", "exists"}
      BY <1>1 DEF PinInv, Shared
    <2> QED BY <1>1, <2>1, LinesTable DEF PinInv, Shared
  <1>3. PerClient' /\ \A d \in Clients \ {c} : pc'[d] = pc[d] /\ accepted'[d] = accepted[d]
    BY <1>1 DEF Trust, PinInv, PerClient, hostkeys
  <1>4. ClientInv(c)'
    BY <1>1, TrustGiven, ExtendsItself DEF PinInv, hostkeys
  <1> QED BY <1>1, <1>2, <1>3, <1>4, OthersRest DEF hostkeys

\* connect authenticates, and ends.
LEMMA PinAuth ==
    ASSUME PinInv, NEW c \in Clients,
           \/ \E types \in Answers : AttemptAccepted(c, types)
           \/ AttemptFails(c) \/ AttemptRaises(c) \/ AskAgent(c) \/ Finally(c)
    PROVE  PinInv'
  <1>1. UNCHANGED <<serving, file, hostkeys, accepted>>
    BY DEF AttemptAccepted, AttemptFails, AttemptRaises, AskAgent, Finally, history
  <1>2. Shared'
    BY <1>1 DEF PinInv, Shared
  <1>3. \/ UNCHANGED <<pc, call, server_key>>
        \/ Raise(c) \/ \E attempt, types : Return(c, attempt, types)
    <2>1. CASE \E types \in Answers : AttemptAccepted(c, types)
      BY <2>1 DEF AttemptAccepted
    <2>2. CASE AttemptFails(c) \/ AttemptRaises(c) \/ AskAgent(c)
      BY <2>2 DEF AttemptFails, AttemptRaises, AskAgent
    <2>3. CASE Finally(c)
      BY <2>3 DEF Finally
    <2> QED BY <2>1, <2>2, <2>3
  <1>4. CASE UNCHANGED <<pc, call, server_key>>
    BY <1>1, <1>2, <1>4, PinRests DEF hostkeys
  <1>5. CASE Raise(c)
    BY <1>1, <1>2, <1>5, RaiseOnly
  <1>6. ASSUME NEW attempt, NEW types, Return(c, attempt, types)
        PROVE  PinInv'
    <2>1. PerClient' /\ pc'[c] = "idle"
      BY <1>1, <1>6 DEF Return, PinInv, PerClient, hostkeys
    <2>2. ClientInv(c)'
      BY <1>1, <2>1, ClientLeaves DEF PinInv, hostkeys
    <2>3. \A d \in Clients \ {c} : /\ pc'[d] = pc[d] /\ call'[d] = call[d]
                                   /\ server_key'[d] = server_key[d]
      BY <1>6 DEF Return, PinInv, PerClient
    <2> QED BY <1>1, <1>2, <2>1, <2>2, <2>3, OthersRest DEF hostkeys
  <1> QED BY <1>3, <1>4, <1>5, <1>6

\* What is left of a file that was being written is a table.
LEMMA RemainsTable ==
    ASSUME NEW c, Table(host_keys[c]), NEW lines \in Remains(c)
    PROVE  Table(lines)
  <1> DEFINE all == LinesOf(host_keys[c])
  <1>1. Table(all) /\ Len(all) \in Nat
    BY LinesTable, ListedFacts DEF Table
  <1>2. PICK n \in 0 .. Len(all) : \E e : /\ lines = SubSeq(all, 1, n) \o e
                                          /\ e = <<>> \/ \E k : e = <<[hosts |-> <<>>, key |-> k]>>
    BY DEF Remains
  <1>3. PICK e : /\ lines = SubSeq(all, 1, n) \o e
                 /\ e = <<>> \/ \E k : e = <<[hosts |-> <<>>, key |-> k]>>
    BY <1>2
  <1> HIDE DEF all
  <1>4. PICK first : first = SubSeq(all, 1, n) /\ Table(first)
    BY <1>1, FirstLines
  <1>5. PICK T : first \in Seq(T)
    BY <1>4 DEF Table, Listed
  <1>6. CASE e = <<>>
    <2>1. lines = first
      BY <1>3, <1>4, <1>5, <1>6
    <2> QED BY <1>4, <2>1
  <1>7. ASSUME NEW k, e = <<[hosts |-> <<>>, key |-> k]>>
        PROVE  Table(lines)
    <2> DEFINE x == [hosts |-> <<>>, key |-> k]
    <2>1. x.hosts = <<>>
      OBVIOUS
    <2> HIDE DEF x
    <2>2. e = <<x>>
      BY <1>7 DEF x
    <2>3. lines = Append(first, x)
      <3> DEFINE U == T \cup {x}
      <3>1. first \in Seq(U) /\ x \in U
        BY <1>5, SeqLarger
      <3> HIDE DEF U
      <3> QED BY <1>3, <1>4, <2>2, <3>1
    <2> QED BY <1>4, <2>1, <2>3, EmptyListed, TableAppend
  <1> QED BY <1>3, <1>6, <1>7

\* Another process begins with nothing trusted.
LEMMA PinRestart ==
    ASSUME PinInv, NEW c \in Clients, Restart(c)
    PROVE  PinInv'
  <1>1. /\ UNCHANGED serving
        /\ system'[c] = <<>> /\ host_keys'[c] = <<>> /\ pc'[c] = "idle"
        /\ accepted'[c] = [h \in Hosts |-> {}]
    BY DEF Restart, PinInv, PerClient
  <1>2. ClientInv(c)'
    BY <1>1, EmptyListed DEF PinInv, ClientInv, Pinned, Saving
  <1>3. PerClient'
    BY DEF Restart, PinInv, PerClient
  <1>4. Shared'
    <2>1. CASE pc[c] = "write"
      <3>1. PICK lines \in Remains(c) : file' = [file EXCEPT !.lines = lines]
        BY <2>1 DEF Restart
      <3>2. Table(lines)
        BY <3>1, RemainsTable DEF PinInv, ClientInv
      <3> QED BY <1>1, <3>1, <3>2 DEF PinInv, Shared
    <2>2. CASE pc[c] # "write"
      BY <1>1, <2>2 DEF Restart, PinInv, Shared
    <2> QED BY <2>1, <2>2
  <1>5. \A d \in Clients \ {c} :
           /\ system'[d] = system[d] /\ host_keys'[d] = host_keys[d] /\ pc'[d] = pc[d]
           /\ call'[d] = call[d] /\ server_key'[d] = server_key[d]
           /\ accepted'[d] = accepted[d]
    BY DEF Restart, PinInv, PerClient
  <1> QED BY <1>2, <1>3, <1>4, <1>5, OthersRest

\* The file and the servers change around the clients.
LEMMA PinAround ==
    ASSUME PinInv,
           \/ \E c \in Clients : TransportStops(c) \/ Close(c)
           \/ \E line \in Additions : OtherProgram(line)
           \/ \E h \in Targets, s \in Servers : Swap(h, s)
    PROVE  PinInv'
  <1>1. CASE \E c \in Clients : TransportStops(c) \/ Close(c)
    <2>1. UNCHANGED <<serving, file, hostkeys, pc, call, server_key, accepted>>
      BY <1>1 DEF TransportStops, Close, progress, history
    <2> QED BY <2>1, PinRests DEF PinInv, Shared, hostkeys
  <1>2. ASSUME NEW line \in Additions, OtherProgram(line)
        PROVE  PinInv'
    <2>1. /\ UNCHANGED <<serving, hostkeys, pc, call, server_key, accepted>>
          /\ file' = [file EXCEPT !.lines = Append(@, line)]
      BY <1>2 DEF OtherProgram, progress
    <2>2. line \in Line
      BY ConnectAssumption
    <2>3. Listed(line.hosts)
      BY <2>2 DEF Line, Listed
    <2>4. file'.lines = Append(file.lines, line) /\ DOMAIN file' = {"lines", "exists"}
      BY <2>1 DEF PinInv, Shared
    <2>5. Table(file'.lines)
      BY <2>3, <2>4, TableAppend DEF PinInv, Shared
    <2> QED BY <2>1, <2>4, <2>5, PinRests DEF PinInv, Shared, hostkeys
  <1>3. ASSUME NEW h \in Targets, NEW s \in Servers, Swap(h, s)
        PROVE  PinInv'
    <2>1. /\ UNCHANGED <<file, hostkeys, pc, call, server_key, accepted>>
          /\ serving' \in [Targets -> Servers]
      BY <1>3 DEF Swap, progress, PinInv, Shared
    <2> QED BY <2>1, PinRests DEF PinInv, Shared, hostkeys
  <1> QED BY <1>1, <1>2, <1>3

\* A client that has gone on to authenticate to a server of a host whose key it knew
\* goes on with no server that shows another key of that type, unless a file that it
\* loads names another: whatever it saves and reads again, whoever else writes the
\* file, and wherever a process ends in a save.  (PinInv says more, which the docs of
\* load deny: even then the first key stays.)
THEOREM KeysPinned == Spec => []TrustPinned
  <1>1. PinInv /\ [Next]_vars => PinInv'
    <2> SUFFICES ASSUME PinInv, [Next]_vars
                 PROVE  PinInv'
      OBVIOUS
    <2>1. ASSUME NEW c \in Clients, InConnect(c)
          PROVE  PinInv'
      BY <2>1, PinDial, PinStart, PinCheck, PinMissing, PinReload, PinTruncate, PinWrite, PinAuth
         DEF InConnect
    <2>2. CASE UNCHANGED vars
      BY <2>2, PinRests DEF vars, hostkeys, progress, history, PinInv, Shared
    <2> QED BY <2>1, <2>2, PinLoads, PinPolicy, PinConnect, PinRestart, PinAround DEF Next
  <1>2. PinInv => TrustPinned
    BY DEF PinInv, ClientInv, Pinned, TrustPinned
  <1> QED BY <1>1, <1>2, PinInit, PTL DEF Spec
=============================================================================
