-------------------------- MODULE HandshakeProofs --------------------------
(***************************************************************************)
(* The two ends of a session stay in step, and a client uses new keys only *)
(* when the server has proved itself: for every pair of set-ups, any       *)
(* number of exchanges, and ends that stop or fail at any time.            *)
(***************************************************************************)
EXTENDS HandshakeInvariant, WellFoundedInduction, SequenceTheorems, TLAPS

-----------------------------------------------------------------------------
(* Lists of algorithms *)

\* A set of numbers has a least one.
LEMMA LeastNat ==
    ASSUME NEW T, T \subseteq Nat, T # {}
    PROVE  \E x \in T : \A y \in T : x <= y
  <1> DEFINE R == OpToRel(<, Nat)
  <1>1. IsWellFoundedOn(R, Nat)
    BY NatLessThanWellFounded
  <1>2. \A x, y \in Nat : y < x => <<y, x>> \in R
    BY DEF OpToRel
  <1> HIDE DEF R
  <1>3. PICK x \in T : \A y \in T : <<y, x>> \notin R
    BY <1>1, WFMin
  <1>4. ASSUME NEW y \in T
        PROVE  x <= y
    <2>1. x \in Nat /\ y \in Nat
      OBVIOUS
    <2>2. ~(y < x)
      BY <1>2, <1>3, <2>1
    <2> QED BY <2>1, <2>2
  <1> QED BY <1>4

\* f[i] is what is kept of the first i elements.
KeepSteps(f, q, S) ==
    \A i \in 0 .. Len(q) :
        f[i] = IF i = 0 THEN <<>>
               ELSE IF q[i] \in S THEN Append(f[i - 1], q[i]) ELSE f[i - 1]

\* The filter goes through the list element by element.
LEMMA KeepDef ==
    ASSUME NEW q, NEW S, Len(q) \in Nat
    PROVE  \E f : Keep(q, S) = f[Len(q)] /\ KeepSteps(f, q, S)
  <1> DEFINE F(g, m) == [i \in 0 .. m |->
                          IF i = 0 THEN <<>>
                          ELSE IF q[i] \in S THEN Append(g[i - 1], q[i]) ELSE g[i - 1]]
             f == CHOOSE g : g = F(g, Len(q))
  <1>1. Keep(q, S) = f[Len(q)]
    BY DEF Keep
  <1>2. \A m \in Nat : \E g : g = F(g, m)
    <2> DEFINE T == {m \in Nat : ~\E g : g = F(g, m)}
    <2> SUFFICES ASSUME T # {} PROVE FALSE
      OBVIOUS
    <2>1. PICK m \in T : \A k \in T : m <= k
      BY LeastNat
    <2>2. CASE m = 0
      <3> DEFINE g == [i \in 0 .. 0 |-> <<>>]
      <3>1. g = F(g, 0)
        OBVIOUS
      <3> QED BY <2>1, <2>2, <3>1
    <2>3. CASE m # 0
      <3>0. m \in Nat
        OBVIOUS
      <3>1. m - 1 \in Nat /\ m - 1 \notin T /\ m \in Nat
        <4> HIDE DEF T
        <4> QED BY <2>1, <2>3, <3>0
      <3>2. PICK h : h = F(h, m - 1)
        BY <3>1
      <3> DEFINE last == IF q[m] \in S THEN Append(h[m - 1], q[m]) ELSE h[m - 1]
                 g == [i \in 0 .. m |-> IF i = m THEN last ELSE h[i]]
      <3>3. g = F(g, m)
        <4>1. ASSUME NEW i \in 0 .. m
              PROVE  g[i] = IF i = 0 THEN <<>>
                            ELSE IF q[i] \in S THEN Append(g[i - 1], q[i]) ELSE g[i - 1]
          <5>1. CASE i = m
            BY <2>3, <3>1, <5>1
          <5>2. CASE i # m
            <6>1. i \in 0 .. (m - 1) /\ g[i] = h[i]
              BY <3>1, <5>2
            <6>2. h[i] = IF i = 0 THEN <<>>
                         ELSE IF q[i] \in S THEN Append(h[i - 1], q[i]) ELSE h[i - 1]
              BY <3>2, <6>1
            <6>3. i # 0 => g[i - 1] = h[i - 1]
              BY <3>1, <6>1
            <6> QED BY <6>1, <6>2, <6>3
          <5> QED BY <5>1, <5>2
        <4> QED BY <4>1
      <3> QED BY <2>1, <3>3
    <2> QED BY <2>2, <2>3
  <1>3. f = F(f, Len(q))
    BY <1>2
  <1> HIDE DEF f
  <1>4. KeepSteps(f, q, S)
    BY <1>3 DEF KeepSteps
  <1> QED BY <1>1, <1>4

\* k is the first place of q that has an element of S.
FirstIn(q, S, k) == k \in 1 .. Len(q) /\ q[k] \in S /\ \A j \in 1 .. (k - 1) : q[j] \notin S

\* What is kept are the elements of S, the first one first.
LEMMA KeepFacts ==
    ASSUME NEW X, NEW q \in Seq(X), NEW S
    PROVE  /\ Keep(q, S) \in Seq(X)
           /\ Range(Keep(q, S)) = Range(q) \cap S
           /\ Keep(q, S) # <<>> =>
                /\ Keep(q, S)[1] \in Range(q) \cap S
                /\ \E k : FirstIn(q, S, k) /\ Keep(q, S)[1] = q[k]
  <1>1. PICK f : Keep(q, S) = f[Len(q)] /\ KeepSteps(f, q, S)
    BY KeepDef
  <1>2. Len(q) \in Nat /\ \A i \in 1 .. Len(q) : q[i] \in X
    OBVIOUS
  <1> DEFINE P(i) == /\ f[i] \in Seq(X)
                     /\ \A x : (\E k \in 1 .. Len(f[i]) : f[i][k] = x)
                                 <=> (x \in S /\ \E j \in 1 .. i : q[j] = x)
                     /\ f[i] # <<>> => \E k \in 1 .. i :
                          q[k] \in S /\ (\A j \in 1 .. (k - 1) : q[j] \notin S) /\ f[i][1] = q[k]
             T == {i \in 0 .. Len(q) : ~P(i)}
  <1>3. T = {}
    <2> SUFFICES ASSUME T # {} PROVE FALSE
      OBVIOUS
    <2>0. T \subseteq Nat
      BY <1>2
    <2>1. PICK m \in T : \A k \in T : m <= k
      BY <2>0, LeastNat
    <2>2. m # 0
      <3> SUFFICES ASSUME m = 0 PROVE FALSE
        OBVIOUS
      <3>1. f[0] = <<>>
        BY <1>1, <1>2 DEF KeepSteps
      <3>2. P(0)
        BY <3>1
      <3> QED BY <2>1, <3>2
    <2>a. m \in 0 .. Len(q)
      OBVIOUS
    <2> HIDE DEF T
    <2>3. m \in 1 .. Len(q) /\ m - 1 \in 0 .. Len(q) /\ m - 1 \notin T
      BY <1>2, <2>1, <2>2, <2>a
    <2>4. P(m - 1)
      BY <2>3 DEF T
    <2>5. f[m] = IF q[m] \in S THEN Append(f[m - 1], q[m]) ELSE f[m - 1]
      BY <1>1, <2>2, <2>3 DEF KeepSteps
    <2> DEFINE a == f[m - 1]
               x == q[m]
    <2>6. a \in Seq(X) /\ x \in X
      BY <1>2, <2>3, <2>4
    <2>7. CASE x \notin S
      <3>1. f[m] = a
        BY <2>5, <2>7
      <3>2. \A y : (y \in S /\ \E j \in 1 .. m : q[j] = y) <=> (y \in S /\ \E j \in 1 .. (m - 1) : q[j] = y)
        BY <2>3, <2>7
      <3>3. \A k : k \in 1 .. (m - 1) => k \in 1 .. m
        BY <2>3
      <3>4. f[m] # <<>> => \E k \in 1 .. m :
              q[k] \in S /\ (\A j \in 1 .. (k - 1) : q[j] \notin S) /\ f[m][1] = q[k]
        BY <2>4, <3>1, <3>3
      <3>5. \A y : (\E k \in 1 .. Len(f[m]) : f[m][k] = y)
                     <=> (y \in S /\ \E j \in 1 .. m : q[j] = y)
        <4>1. \A y : (\E k \in 1 .. Len(a) : a[k] = y)
                     <=> (y \in S /\ \E j \in 1 .. (m - 1) : q[j] = y)
          BY <2>4
        <4> HIDE DEF a
        <4> QED BY <3>1, <3>2, <4>1
      <3>6. P(m)
        <4>1. f[m] \in Seq(X)
          BY <2>6, <3>1
        <4> QED BY <3>4, <3>5, <4>1
      <3> QED BY <2>1, <3>6 DEF T
    <2>8. CASE x \in S
      <3>1. f[m] = Append(a, x)
        BY <2>5, <2>8
      <3> DEFINE b == Append(a, x)
      <3>2. /\ b \in Seq(X) /\ Len(b) = Len(a) + 1 /\ b[Len(a) + 1] = x /\ Len(a) \in Nat
            /\ \A k \in 1 .. Len(a) : b[k] = a[k]
            /\ b # <<>>
        BY <2>6
      <3> HIDE DEF b
      <3>3. \A y : (\E k \in 1 .. Len(b) : b[k] = y) <=> (y \in S /\ \E j \in 1 .. m : q[j] = y)
        <4>1. ASSUME NEW y, NEW k \in 1 .. Len(b), b[k] = y
              PROVE  y \in S /\ \E j \in 1 .. m : q[j] = y
          <5>1. CASE k = Len(a) + 1
            BY <2>3, <2>8, <3>2, <4>1, <5>1
          <5>2. CASE k # Len(a) + 1
            <6>1. k \in 1 .. Len(a) /\ a[k] = y
              BY <3>2, <4>1, <5>2
            <6>2. y \in S /\ \E j \in 1 .. (m - 1) : q[j] = y
              BY <2>4, <6>1
            <6> QED BY <2>3, <6>2
          <5> QED BY <5>1, <5>2
        <4>2. ASSUME NEW y \in S, NEW j \in 1 .. m, q[j] = y
              PROVE  \E k \in 1 .. Len(b) : b[k] = y
          <5>1. CASE j = m
            BY <3>2, <4>2, <5>1
          <5>2. CASE j # m
            <6>1. j \in 1 .. (m - 1)
              BY <2>3, <5>2
            <6>2. PICK k \in 1 .. Len(a) : a[k] = y
              BY <2>4, <4>2, <6>1
            <6>3. k \in 1 .. Len(b) /\ b[k] = y
              BY <3>2, <6>2
            <6> QED BY <6>3
          <5> QED BY <5>1, <5>2
        <4> QED BY <4>1, <4>2
      <3>4. \E k \in 1 .. m : q[k] \in S /\ (\A j \in 1 .. (k - 1) : q[j] \notin S) /\ b[1] = q[k]
        <4>1. CASE a = <<>>
          <5>1. Len(a) = 0 /\ b[1] = x
            BY <3>2, <4>1
          <5>2. \A j \in 1 .. (m - 1) : q[j] \notin S
            <6> SUFFICES ASSUME NEW j \in 1 .. (m - 1), q[j] \in S PROVE FALSE
              OBVIOUS
            <6>1. \E k \in 1 .. Len(a) : a[k] = q[j]
              BY <2>4
            <6> QED BY <5>1, <6>1
          <5> QED BY <2>3, <2>8, <5>1, <5>2
        <4>2. CASE a # <<>>
          <5>1. Len(a) # 0
            BY <2>6, <4>2
          <5>2. b[1] = a[1]
            BY <3>2, <5>1
          <5>3. PICK k \in 1 .. (m - 1) :
                  q[k] \in S /\ (\A j \in 1 .. (k - 1) : q[j] \notin S) /\ a[1] = q[k]
            BY <2>4, <4>2
          <5>4. k \in 1 .. m
            BY <2>3, <5>3
          <5> QED BY <5>2, <5>3, <5>4
        <4> QED BY <4>1, <4>2
      <3>5. P(m)
        <4>1. f[m] = b
          BY <3>1 DEF b
        <4> QED BY <3>2, <3>3, <3>4, <4>1
      <3> QED BY <2>1, <3>5 DEF T
    <2> QED BY <2>7, <2>8
  <1> HIDE DEF P
  <1>4. P(Len(q))
    BY <1>2, <1>3
  <1>5. Keep(q, S) \in Seq(X) /\ Range(Keep(q, S)) = Range(q) \cap S
    <2> DEFINE r == f[Len(q)]
    <2>1. /\ r \in Seq(X)
          /\ \A x : (\E k \in 1 .. Len(r) : r[k] = x)
                      <=> (x \in S /\ \E j \in 1 .. Len(q) : q[j] = x)
      BY <1>4 DEF P
    <2> HIDE DEF r
    <2>2. DOMAIN r = 1 .. Len(r) /\ DOMAIN q = 1 .. Len(q)
      BY <2>1
    <2>3. \A x : x \in Range(r) <=> \E k \in 1 .. Len(r) : r[k] = x
      BY <2>2 DEF Range
    <2>4. \A x : x \in Range(q) <=> \E k \in 1 .. Len(q) : q[k] = x
      BY <2>2 DEF Range
    <2>5. \A x : x \in Range(r) <=> x \in Range(q) \cap S
      BY <2>1, <2>3, <2>4
    <2>6. Range(r) = Range(q) \cap S
      BY <2>5
    <2> QED BY <1>1, <2>1, <2>6 DEF r
  <1>6. ASSUME Keep(q, S) # <<>>
        PROVE  /\ Keep(q, S)[1] \in Range(q) \cap S
               /\ \E k : FirstIn(q, S, k) /\ Keep(q, S)[1] = q[k]
    BY <1>1, <1>2, <1>4, <1>6 DEF P, FirstIn, Range
  <1> QED BY <1>5, <1>6

\* A set-up as the constants allow it.
LEMMA SetupFacts ==
    ASSUME setup \in Setups
    PROVE  /\ \A s \in Side : \A c \in Category : setup.preferred[s][c] \in Seq(STRING)
           /\ \A s \in Side : Range(setup.preferred[s]["kex"]) \subseteq Kex
           /\ \A s \in Side : setup.strict[s] \in BOOLEAN /\ setup.lines[s] \in Nat
  BY HandshakeAssumption DEF Setup

\* _filter_algorithm leaves out what is disabled.
LEMMA FilterFacts ==
    ASSUME NEW s, NEW c, NEW X, NEW q \in Seq(X)
    PROVE  /\ FilterAlgorithm(s, c, q) \in Seq(X)
           /\ Range(FilterAlgorithm(s, c, q)) = Range(q) \ setup.disabled[s][c]
  <1>1. /\ FilterAlgorithm(s, c, q) \in Seq(X)
        /\ Range(FilterAlgorithm(s, c, q)) = Range(q) \cap (Range(q) \ setup.disabled[s][c])
    BY KeepFacts DEF FilterAlgorithm
  <1> QED BY <1>1

\* A server without moduli lists the rest.
LEMMA WithoutGexFacts ==
    ASSUME NEW X, NEW q \in Seq(X)
    PROVE  WithoutGex(q) \in Seq(X) /\ Range(WithoutGex(q)) = Range(q) \ {"gex"}
  <1>1. WithoutGex(q) \in Seq(X) /\ Range(WithoutGex(q)) = Range(q) \cap (Range(q) \ {"gex"})
    BY KeepFacts DEF WithoutGex
  <1> QED BY <1>1

\* preferred_keys is a list.
LEMMA PreferredKeysList ==
    ASSUME setup \in Setups, NEW s \in Side
    PROVE  \E X : PreferredKeys(s) \in Seq(X)
  <1> DEFINE listed == IF Pinned(s) THEN NamesOf(setup.hostkey.type) ELSE setup.preferred[s]["keys"]
             names == FilterAlgorithm(s, "keys", listed)
             Variants(cert) == [i \in DOMAIN names |-> [name |-> names[i], cert |-> cert]]
  <1>1. \E N : listed \in Seq(N)
    <2>1. CASE Pinned(s)
      <3> DEFINE t == setup.hostkey.type
      <3>1. t = "rsa" => NamesOf(t) \in Seq({"rsa-sha2-512", "ssh-rsa"})
        BY DEF NamesOf
      <3>2. t # "rsa" => NamesOf(t) \in Seq({t})
        BY DEF NamesOf
      <3> QED BY <2>1, <3>1, <3>2
    <2>2. CASE ~Pinned(s)
      <3>1. setup.preferred[s]["keys"] \in Seq(STRING)
        BY SetupFacts DEF Category
      <3> QED BY <2>2, <3>1
    <2> QED BY <2>1, <2>2
  <1>2. PICK N : listed \in Seq(N)
    BY <1>1
  <1> HIDE DEF listed
  <1>3. names \in Seq(N)
    BY <1>2, FilterFacts
  <1> HIDE DEF names
  <1>4. \A cert \in BOOLEAN : Variants(cert) \in Seq([name : N, cert : BOOLEAN])
    <2>1. Len(names) \in Nat /\ DOMAIN names = 1 .. Len(names) /\ \A i \in DOMAIN names : names[i] \in N
      BY <1>3
    <2> SUFFICES ASSUME NEW cert \in BOOLEAN
                 PROVE  Variants(cert) \in Seq([name : N, cert : BOOLEAN])
      OBVIOUS
    <2>2. Variants(cert) \in [1 .. Len(names) -> [name : N, cert : BOOLEAN]]
      BY <2>1
    <2> QED BY <2>1, <2>2, SeqDef
  <1>5. Variants(FALSE) \o Variants(TRUE) \in Seq([name : N, cert : BOOLEAN])
    <2>1. /\ Variants(FALSE) \in Seq([name : N, cert : BOOLEAN])
          /\ Variants(TRUE) \in Seq([name : N, cert : BOOLEAN])
      BY <1>4
    <2> DEFINE a == Variants(FALSE)
               b == Variants(TRUE)
    <2> HIDE DEF a, b
    <2>2. a \o b \in Seq([name : N, cert : BOOLEAN])
      BY <2>1 DEF a, b
    <2> QED BY <2>2 DEF a, b
  <1>6. PreferredKeys(s) = Variants(FALSE) \o Variants(TRUE)
    BY DEF PreferredKeys, names, listed
  <1> QED BY <1>5, <1>6

\* The key algorithm agreed on is one that the server has a key for.
LEMMA KeyFacts ==
    ASSUME setup \in Setups
    PROVE  /\ Keep(AvailableKeys("client"), Range(AvailableKeys("server"))) # <<>> =>
                KeyAlg \in Range(AvailableKeys("server"))
           /\ \A T : T.agreed.keys \in Range(AvailableKeys("server")) =>
                GetServerKey(T) \in setup.server_keys
  <1>1. PICK X : PreferredKeys("client") \in Seq(X)
    BY PreferredKeysList DEF Side
  <1>2. PICK Y : PreferredKeys("server") \in Seq(Y)
    BY PreferredKeysList DEF Side
  <1>3. Keep(AvailableKeys("client"), Range(AvailableKeys("server"))) # <<>> =>
          KeyAlg \in Range(AvailableKeys("server"))
    <2>1. AvailableKeys("client") \in Seq(X)
      BY <1>1 DEF AvailableKeys
    <2> QED BY <2>1, KeepFacts DEF KeyAlg
  <1>4. ASSUME NEW T, T.agreed.keys \in Range(AvailableKeys("server"))
        PROVE  GetServerKey(T) \in setup.server_keys
    <2> DEFINE S == {[name |-> n, cert |-> FALSE] : n \in DOMAIN server_key_dict}
    <2>1. Range(AvailableKeys("server")) \subseteq S
      BY <1>2, KeepFacts DEF AvailableKeys
    <2>2. PICK n \in DOMAIN server_key_dict : T.agreed.keys = [name |-> n, cert |-> FALSE]
      BY <1>4, <2>1
    <2>3. GetServerKey(T) = server_key_dict[n]
      BY <2>2 DEF GetServerKey
    <2>4. PICK k \in setup.server_keys : n \in Range(NamesOf(k.type))
      BY <2>2 DEF server_key_dict
    <2>5. server_key_dict[n] = CHOOSE j \in setup.server_keys : n \in Range(NamesOf(j.type))
      BY <2>2 DEF server_key_dict
    <2>6. server_key_dict[n] \in setup.server_keys
      BY <2>4, <2>5
    <2> QED BY <2>3, <2>6
  <1> QED BY <1>3, <1>4

\* Two lists that differ in group exchange at most lead to the same choice, or
\* the longer one to group exchange.
LEMMA KexChoice ==
    ASSUME NEW X, NEW q \in Seq(X), NEW A, NEW B, B \subseteq A, A \ {"gex"} = B \ {"gex"},
           Keep(q, A) # <<>>, Keep(q, B) # <<>>
    PROVE  Keep(q, A)[1] = Keep(q, B)[1] \/ Keep(q, A)[1] = "gex"
  <1>1. PICK k : FirstIn(q, A, k) /\ Keep(q, A)[1] = q[k]
    BY KeepFacts
  <1>2. PICK l : FirstIn(q, B, l) /\ Keep(q, B)[1] = q[l]
    BY KeepFacts
  <1>3. /\ k \in 1 .. Len(q) /\ q[k] \in A /\ \A j \in 1 .. (k - 1) : q[j] \notin A
        /\ l \in 1 .. Len(q) /\ q[l] \in B /\ \A j \in 1 .. (l - 1) : q[j] \notin B
        /\ Len(q) \in Nat
    BY <1>1, <1>2 DEF FirstIn
  <1>4. ASSUME q[k] # "gex" PROVE k = l
    <2>1. q[k] \in B
      BY <1>3, <1>4
    <2>2. ~(k < l)
      BY <1>3, <2>1
    <2>3. ~(l < k)
      BY <1>3
    <2> QED BY <1>3, <2>2, <2>3
  <1> QED BY <1>1, <1>2, <1>4
-----------------------------------------------------------------------------
(* Wires *)

\* The two ends.
LEMMA Ends ==
    /\ Side = {"client", "server"} /\ "client" \in Side /\ "server" \in Side
    /\ Peer("client") = "server" /\ Peer("server") = "client"
    /\ \A s \in Side : Peer(s) \in Side /\ Peer(s) # s /\ Peer(Peer(s)) = s
    /\ \A s, t \in Side : t # s => t = Peer(s)
  BY DEF Side, Peer

LEMMA SeqFacts ==
    ASSUME NEW q, IsSeq(q)
    PROVE  Len(q) \in Nat /\ DOMAIN q = 1 .. Len(q)
  BY DEF IsSeq

LEMMA EmptyIsSeq == IsSeq(<<>>)
  BY DEF IsSeq

LEMMA SeqIsSeq ==
    ASSUME NEW X, NEW q \in Seq(X)
    PROVE  IsSeq(q)
  <1>1. Len(q) \in Nat /\ DOMAIN q = 1 .. Len(q)
    OBVIOUS
  <1>2. \A i \in 1 .. Len(q) : q[i] \in Range(q)
    BY <1>1 DEF Range
  <1>3. q \in [1 .. Len(q) -> Range(q)]
    <2>1. q = [i \in 1 .. Len(q) |-> q[i]]
      BY <1>1
    <2> QED BY <1>2, <2>1
  <1> QED BY <1>1, <1>3, SeqDef DEF IsSeq

LEMMA FunctionIsSeq ==
    ASSUME NEW n \in Nat, NEW q, q = [i \in 1 .. n |-> q[i]]
    PROVE  IsSeq(q) /\ Len(q) = n /\ DOMAIN q = 1 .. n
  <1>1. \A i \in 1 .. n : q[i] \in Range(q)
    BY DEF Range
  <1>2. q \in [1 .. n -> Range(q)]
    BY <1>1
  <1>3. q \in Seq(Range(q))
    BY <1>2, SeqDef
  <1>4. DOMAIN q = 1 .. n
    BY <1>2
  <1>5. Len(q) = n
    BY <1>3, <1>4
  <1> QED BY <1>3, <1>4, <1>5 DEF IsSeq

\* The first packet is read.
LEMMA TailFacts ==
    ASSUME NEW q, IsSeq(q), q # <<>>
    PROVE  /\ IsSeq(Tail(q)) /\ Len(Tail(q)) = Len(q) - 1 /\ Len(q) >= 1
           /\ Head(q) = q[1] /\ 1 \in DOMAIN q
           /\ \A i \in DOMAIN Tail(q) : i + 1 \in DOMAIN q /\ Tail(q)[i] = q[i + 1]
           /\ \A i \in 1 .. Len(Tail(q)) : i + 1 \in DOMAIN q /\ Tail(q)[i] = q[i + 1]
  <1>1. q \in Seq(Range(q)) /\ Len(q) \in Nat /\ DOMAIN q = 1 .. Len(q) /\ Len(q) >= 1
    BY DEF IsSeq
  <1>2. Tail(q) \in Seq(Range(q)) /\ Len(Tail(q)) = Len(q) - 1 /\ DOMAIN Tail(q) = 1 .. (Len(q) - 1)
    BY <1>1
  <1>3. \A i \in 1 .. (Len(q) - 1) : Tail(q)[i] = q[i + 1]
    BY <1>1
  <1>4. Head(q) = q[1]
    BY <1>1
  <1>5. IsSeq(Tail(q))
    BY <1>2, SeqIsSeq
  <1>6. \A i \in 1 .. (Len(q) - 1) : i + 1 \in 1 .. Len(q)
    BY <1>1
  <1>7. 1 \in 1 .. Len(q)
    BY <1>1
  <1> QED BY <1>1, <1>2, <1>3, <1>4, <1>5, <1>6, <1>7

\* Packets are sent.
LEMMA ConcatFacts ==
    ASSUME NEW q, NEW r, IsSeq(q), IsSeq(r)
    PROVE  /\ IsSeq(q \o r) /\ Len(q \o r) = Len(q) + Len(r)
           /\ Len(q) \in Nat /\ Len(r) \in Nat
           /\ DOMAIN q = 1 .. Len(q) /\ DOMAIN r = 1 .. Len(r)
           /\ DOMAIN (q \o r) = 1 .. (Len(q) + Len(r))
           /\ \A i \in 1 .. Len(q) : (q \o r)[i] = q[i]
           /\ \A k \in 1 .. Len(r) : (q \o r)[Len(q) + k] = r[k]
           /\ \A i \in DOMAIN (q \o r) :
                \/ i \in DOMAIN q /\ (q \o r)[i] = q[i]
                \/ \E k \in DOMAIN r : i = Len(q) + k /\ (q \o r)[i] = r[k]
  <1> DEFINE X == Range(q) \cup Range(r)
  <1>1. q \in Seq(X) /\ r \in Seq(X)
    BY DEF IsSeq
  <1> HIDE DEF X
  <1>2. /\ q \o r \in Seq(X) /\ Len(q \o r) = Len(q) + Len(r)
        /\ Len(q) \in Nat /\ Len(r) \in Nat
        /\ DOMAIN q = 1 .. Len(q) /\ DOMAIN r = 1 .. Len(r)
        /\ DOMAIN (q \o r) = 1 .. (Len(q) + Len(r))
    BY <1>1
  <1>3. \A i \in 1 .. (Len(q) + Len(r)) :
          (q \o r)[i] = IF i <= Len(q) THEN q[i] ELSE r[i - Len(q)]
    BY <1>1
  <1>4. /\ \A i \in 1 .. Len(q) : (q \o r)[i] = q[i]
        /\ \A k \in 1 .. Len(r) : (q \o r)[Len(q) + k] = r[k]
    BY <1>2, <1>3
  <1>5. ASSUME NEW i \in DOMAIN (q \o r)
        PROVE  \/ i \in DOMAIN q /\ (q \o r)[i] = q[i]
               \/ \E k \in DOMAIN r : i = Len(q) + k /\ (q \o r)[i] = r[k]
    <2>1. CASE i <= Len(q)
      BY <1>2, <1>4, <2>1
    <2>2. CASE i > Len(q)
      <3>1. i - Len(q) \in DOMAIN r /\ i = Len(q) + (i - Len(q)) /\ (q \o r)[i] = r[i - Len(q)]
        BY <1>2, <1>3, <2>2
      <3> QED BY <3>1
    <2> QED BY <1>2, <2>1, <2>2
  <1> QED BY <1>2, <1>4, <1>5, SeqIsSeq

\* Packets numbers and keys what it is given.
LEMMA PacketsFacts ==
    ASSUME NEW T, NEW msgs, IsSeq(msgs)
    PROVE  /\ IsSeq(Packets(T, msgs)) /\ Len(Packets(T, msgs)) = Len(msgs)
           /\ Len(msgs) \in Nat /\ DOMAIN Packets(T, msgs) = 1 .. Len(msgs)
           /\ DOMAIN msgs = 1 .. Len(msgs)
           /\ \A k \in 1 .. Len(msgs) :
                /\ Packets(T, msgs)[k].type = msgs[k].type /\ Packets(T, msgs)[k].val = msgs[k].val
                /\ Packets(T, msgs)[k].seq = T.seqno_out + k - 1
                /\ Packets(T, msgs)[k].key = T.out_key
  <1>1. Len(msgs) \in Nat /\ DOMAIN msgs = 1 .. Len(msgs)
    BY SeqFacts
  <1>2. Packets(T, msgs) = [i \in 1 .. Len(msgs) |-> Packets(T, msgs)[i]]
    BY <1>1 DEF Packets
  <1>3. /\ IsSeq(Packets(T, msgs)) /\ Len(Packets(T, msgs)) = Len(msgs)
        /\ DOMAIN Packets(T, msgs) = 1 .. Len(msgs)
    BY <1>1, <1>2, FunctionIsSeq
  <1>4. ASSUME NEW k \in 1 .. Len(msgs)
        PROVE  /\ Packets(T, msgs)[k].type = msgs[k].type /\ Packets(T, msgs)[k].val = msgs[k].val
               /\ Packets(T, msgs)[k].seq = T.seqno_out + k - 1
               /\ Packets(T, msgs)[k].key = T.out_key
    <2>1. Packets(T, msgs)[k] = [type |-> msgs[k].type, val |-> msgs[k].val,
                                 seq |-> T.seqno_out + k - 1, key |-> T.out_key]
      BY <1>1 DEF Packets
    <2> QED BY <2>1
  <1> QED BY <1>1, <1>3, <1>4

\* Lists of none, one and two messages.
LEMMA ShortSeqs ==
    ASSUME NEW a, NEW b
    PROVE  /\ IsSeq(<<a>>) /\ Len(<<a>>) = 1 /\ <<a>>[1] = a
           /\ IsSeq(<<a, b>>) /\ Len(<<a, b>>) = 2 /\ <<a, b>>[1] = a /\ <<a, b>>[2] = b
           /\ IsSeq(<<>>) /\ Len(<<>>) = 0
  <1>1. <<a>> \in Seq({a}) /\ <<a, b>> \in Seq({a, b})
    OBVIOUS
  <1> QED BY <1>1, SeqIsSeq, EmptyIsSeq
-----------------------------------------------------------------------------
(* What a step does to the two ends and the two wires *)

\* Fields of s that a step leaves alone.
Kept(s, F) == \A f \in F : tr'[s][f] = tr[s][f]

\* s sends packets and reads one, or none.
Wires(s, packets) ==
    /\ wire[s] # <<>> /\ wire'[s] = Tail(wire[s])
    /\ wire'[Peer(s)] = wire[Peer(s)] \o packets

\* A step of s leaves the other end as it is.
Others(s) ==
    /\ tr'[Peer(s)] = tr[Peer(s)] /\ setup' = setup
    /\ tr' = [t \in Side |-> tr'[t]] /\ wire' = [t \in Side |-> wire'[t]]
    /\ DOMAIN tr'[s] = Fields

LEMMA LeavesFacts ==
    ASSUME Shape, NEW s \in Side, NEW T, DOMAIN T = Fields, NEW packets,
           wire[s] # <<>>, Leaves(s, T, packets)
    PROVE  Others(s) /\ Wires(s, packets) /\ tr'[s] = T /\ app' = app
  BY Ends, ZenonT(90) DEF Shape, Leaves, Others, Wires

\* Continue changes three fields more than its caller.
LEMMA ContinueFacts ==
    ASSUME Shape, NEW s \in Side, NEW T, DOMAIN T = Fields, NEW msgs, NEW types,
           wire[s] # <<>>, Continue(s, T, msgs, types)
    PROVE  /\ Others(s) /\ Wires(s, Packets(T, msgs)) /\ app' = app
           /\ \A f \in Fields \ {"expected", "seqno_in", "seqno_out"} : tr'[s][f] = T[f]
           /\ tr'[s].expected = types /\ tr'[s].seqno_in = T.seqno_in + 1
           /\ tr'[s].seqno_out = T.seqno_out + Len(msgs)
  <1> DEFINE R == [T EXCEPT !.expected = types, !.seqno_in = @ + 1, !.seqno_out = @ + Len(msgs)]
  <1>1. DOMAIN R = Fields /\ Leaves(s, R, Packets(T, msgs))
    BY DEF Continue
  <1>2. /\ \A f \in Fields \ {"expected", "seqno_in", "seqno_out"} : R[f] = T[f]
        /\ R.expected = types /\ R.seqno_in = T.seqno_in + 1 /\ R.seqno_out = T.seqno_out + Len(msgs)
    BY DEF Fields
  <1> HIDE DEF R
  <1>3. Others(s) /\ Wires(s, Packets(T, msgs)) /\ tr'[s] = R /\ app' = app
    BY <1>1, LeavesFacts
  <1> QED BY <1>2, <1>3

\* What _activate_outbound sends: the last messages of the old keys, perhaps one of
\* the new keys.
LastPackets(s, packets, msgs) ==
    LET n == Len(msgs) + 1
        seq == IF tr[s].strict THEN 0 ELSE tr[s].seqno_out + n
    IN  /\ IsSeq(packets) /\ Len(packets) \in {n, n + 1} /\ DOMAIN packets = 1 .. Len(packets)
        /\ \A k \in 1 .. n : packets[k].key = tr[s].out_key /\ packets[k].seq = tr[s].seqno_out + k - 1
        /\ \A k \in 1 .. Len(msgs) :
             packets[k].type = msgs[k].type /\ packets[k].val = msgs[k].val
        /\ packets[n].type = NEWKEYS
        /\ Len(packets) = n + 1 =>
             /\ packets[n + 1].type = EXT_INFO /\ packets[n + 1].key = tr'[s].out_key
             /\ packets[n + 1].seq = seq
        /\ tr'[s].seqno_out = seq + (Len(packets) - n)

\* What follows of a concatenation, for a reader that knows both parts.
LEMMA Concat ==
    ASSUME NEW q, NEW r, IsSeq(q), IsSeq(r)
    PROVE  /\ IsSeq(q \o r) /\ Len(q \o r) = Len(q) + Len(r)
           /\ DOMAIN (q \o r) = 1 .. (Len(q) + Len(r))
           /\ \A k \in 1 .. Len(q) : (q \o r)[k] = q[k]
           /\ \A k \in 1 .. Len(r) : (q \o r)[Len(q) + k] = r[k]
  BY ConcatFacts

LEMMA OutboundFacts ==
    ASSUME Shape, NEW s \in Side, NEW T, DOMAIN T = Fields, NEW msgs, IsSeq(msgs),
           wire[s] # <<>>, T.seqno_out = tr[s].seqno_out, T.out_key = tr[s].out_key,
           T.strict = tr[s].strict, T.seqno_in = tr[s].seqno_in, Outbound(s, T, msgs)
    PROVE  /\ Others(s) /\ app' = app
           /\ \A f \in Fields \ {"expected", "seqno_in", "seqno_out", "out_key"} : tr'[s][f] = T[f]
           /\ tr'[s].expected = {NEWKEYS} /\ tr'[s].seqno_in = tr[s].seqno_in + 1
           /\ tr'[s].out_key = <<T.H, T.agreed.local>>
           /\ \E packets : Wires(s, packets) /\ LastPackets(s, packets, msgs)
  <1> DEFINE all == Append(msgs, Msg(NEWKEYS, 0))
             old == Packets(T, all)
             new == [T EXCEPT !.seqno_out = SeqnoOut(T, @ + Len(old)),
                              !.out_key = <<T.H, T.agreed.local>>]
             hasext == s = "server" /\ T.remote_ext_info
             ext == IF hasext THEN Packets(new, <<Msg(EXT_INFO, 0)>>) ELSE <<>>
             R == [new EXCEPT !.expected = {NEWKEYS}, !.seqno_in = @ + 1, !.seqno_out = @ + Len(ext)]
             n == Len(msgs) + 1
             seq == IF tr[s].strict THEN 0 ELSE tr[s].seqno_out + n
  <1>1. Leaves(s, R, old \o ext)
    BY DEF Outbound
  <1>2. /\ IsSeq(all) /\ Len(all) = n /\ Len(msgs) \in Nat /\ all[n] = Msg(NEWKEYS, 0)
        /\ \A k \in 1 .. Len(msgs) : all[k] = msgs[k]
    <2> DEFINE X == Range(msgs) \cup {Msg(NEWKEYS, 0)}
    <2>1. msgs \in Seq(X) /\ Msg(NEWKEYS, 0) \in X
      BY DEF IsSeq
    <2> HIDE DEF X
    <2>2. /\ all \in Seq(X) /\ Len(all) = Len(msgs) + 1 /\ Len(msgs) \in Nat
          /\ all[Len(msgs) + 1] = Msg(NEWKEYS, 0)
          /\ \A k \in 1 .. Len(msgs) : all[k] = msgs[k]
      BY <2>1
    <2> QED BY <2>2, SeqIsSeq
  <1> HIDE DEF all
  <1>3. /\ IsSeq(old) /\ Len(old) = n /\ DOMAIN old = 1 .. n
        /\ \A k \in 1 .. n : /\ old[k].type = all[k].type /\ old[k].val = all[k].val
                             /\ old[k].seq = tr[s].seqno_out + k - 1 /\ old[k].key = tr[s].out_key
    BY <1>2, PacketsFacts
  <1> HIDE DEF old
  <1>4. /\ DOMAIN new = Fields
        /\ \A f \in Fields \ {"seqno_out", "out_key"} : new[f] = T[f]
        /\ new.seqno_out = seq /\ new.out_key = <<T.H, T.agreed.local>>
    <2>1. SeqnoOut(T, T.seqno_out + Len(old)) = seq
      BY <1>3 DEF SeqnoOut
    <2> QED BY <2>1 DEF Fields
  <1> HIDE DEF new
  <1>5. /\ IsSeq(ext) /\ Len(ext) \in {0, 1}
        /\ Len(ext) = 1 => /\ ext[1].type = EXT_INFO /\ ext[1].key = new.out_key
                           /\ ext[1].seq = seq
    <2>1. CASE hasext
      <3> DEFINE m == <<Msg(EXT_INFO, 0)>>
      <3>1. IsSeq(m) /\ Len(m) = 1 /\ m[1] = Msg(EXT_INFO, 0)
        BY ShortSeqs
      <3> HIDE DEF m
      <3>2. /\ IsSeq(Packets(new, m)) /\ Len(Packets(new, m)) = 1
            /\ Packets(new, m)[1].type = m[1].type /\ Packets(new, m)[1].key = new.out_key
            /\ Packets(new, m)[1].seq = new.seqno_out + 1 - 1
        BY <3>1, PacketsFacts
      <3>3. seq \in Int
        BY <1>2 DEF Shape
      <3>4. ext = Packets(new, m)
        BY <2>1 DEF m
      <3>5. m[1].type = EXT_INFO
        BY <3>1 DEF Msg
      <3> QED BY <1>4, <3>2, <3>3, <3>4, <3>5
    <2>2. CASE ~hasext
      BY <2>2, EmptyIsSeq
    <2> QED BY <2>1, <2>2
  <1> HIDE DEF ext, hasext
  <1>6. /\ DOMAIN R = Fields
        /\ \A f \in Fields \ {"expected", "seqno_in", "seqno_out", "out_key"} : R[f] = T[f]
        /\ R.expected = {NEWKEYS} /\ R.seqno_in = tr[s].seqno_in + 1
        /\ R.out_key = <<T.H, T.agreed.local>> /\ R.seqno_out = seq + Len(ext)
    BY <1>4 DEF Fields
  <1> HIDE DEF R
  <1>7. Others(s) /\ Wires(s, old \o ext) /\ tr'[s] = R /\ app' = app
    BY <1>1, <1>6, LeavesFacts
  <1>8. LastPackets(s, old \o ext, msgs)
    <2> DEFINE pk == old \o ext
    <2>1. /\ IsSeq(pk) /\ Len(pk) = n + Len(ext) /\ DOMAIN pk = 1 .. Len(pk)
          /\ \A k \in 1 .. n : pk[k] = old[k]
          /\ \A k \in 1 .. Len(ext) : pk[n + k] = ext[k]
      <3>1. /\ IsSeq(pk) /\ Len(pk) = Len(old) + Len(ext)
            /\ DOMAIN pk = 1 .. (Len(old) + Len(ext))
            /\ \A k \in 1 .. Len(old) : pk[k] = old[k]
            /\ \A k \in 1 .. Len(ext) : pk[Len(old) + k] = ext[k]
        <4>1. IsSeq(old)
          BY <1>3
        <4>2. IsSeq(ext)
          BY <1>5
        <4>3. IsSeq(pk)
          BY <4>1, <4>2, Concat
        <4>4. Len(pk) = Len(old) + Len(ext)
          BY <4>1, <4>2, Concat
        <4>5. DOMAIN pk = 1 .. (Len(old) + Len(ext))
          BY <4>1, <4>2, Concat
        <4>6. \A k \in 1 .. Len(old) : pk[k] = old[k]
          BY <4>1, <4>2, Concat
        <4>7. \A k \in 1 .. Len(ext) : pk[Len(old) + k] = ext[k]
          BY <4>1, <4>2, Concat
        <4> QED BY <4>3, <4>4, <4>5, <4>6, <4>7
      <3> HIDE DEF pk
      <3> QED BY <1>3, <3>1
    <2> HIDE DEF pk
    <2>2. pk[n].type = NEWKEYS
      BY <1>2, <1>3, <2>1 DEF Msg
    <2>3. \A k \in 1 .. Len(msgs) : pk[k].type = msgs[k].type /\ pk[k].val = msgs[k].val
      BY <1>2, <1>3, <2>1
    <2>4. \A k \in 1 .. n : pk[k].key = tr[s].out_key /\ pk[k].seq = tr[s].seqno_out + k - 1
      BY <1>3, <2>1
    <2>5. Len(pk) = n + 1 => /\ pk[n + 1].type = EXT_INFO /\ pk[n + 1].key = tr'[s].out_key
                             /\ pk[n + 1].seq = seq
      <3> SUFFICES ASSUME Len(pk) = n + 1
                   PROVE  /\ pk[n + 1].type = EXT_INFO /\ pk[n + 1].key = tr'[s].out_key
                          /\ pk[n + 1].seq = seq
        OBVIOUS
      <3>1. Len(ext) = 1
        BY <1>2, <1>5, <2>1
      <3>2. pk[n + 1] = ext[1]
        BY <2>1, <3>1
      <3> QED BY <1>4, <1>5, <1>6, <1>7, <3>1, <3>2
    <2>6. tr'[s].seqno_out = seq + (Len(pk) - n) /\ Len(pk) \in {n, n + 1}
      <3>1. Len(pk) - n = Len(ext)
        BY <1>2, <1>5, <2>1
      <3>2. Len(pk) \in {n, n + 1}
        BY <1>2, <1>5, <2>1, SMTT(60)
      <3>3. tr'[s].seqno_out = seq + Len(ext)
        BY <1>6, <1>7
      <3> HIDE DEF seq, n
      <3> QED BY <3>1, <3>2, <3>3
    <2>7. LastPackets(s, pk, msgs)
      BY <2>1, <2>2, <2>3, <2>4, <2>5, <2>6 DEF LastPackets
    <2> QED BY <2>7 DEF pk
  <1> QED BY <1>6, <1>7, <1>8
-----------------------------------------------------------------------------
(* The packets after a step *)

\* s has read the first packet.
LEMMA ReadFacts ==
    ASSUME Shape, NEW s \in Side, wire[s] # <<>>, wire'[s] = Tail(wire[s])
    PROVE  /\ Len(wire[s]) \in Nat /\ Len(wire[s]) >= 1 /\ DOMAIN wire[s] = 1 .. Len(wire[s])
           /\ IsSeq(wire'[s]) /\ Len(wire'[s]) = Len(wire[s]) - 1
           /\ DOMAIN wire'[s] = 1 .. (Len(wire[s]) - 1)
           /\ \A i \in DOMAIN wire'[s] : i + 1 \in DOMAIN wire[s] /\ wire'[s][i] = wire[s][i + 1]
           /\ Read(s) = wire[s][1] /\ 1 \in DOMAIN wire[s]
  <1> DEFINE q == wire[s]
             r == wire'[s]
  <1>1. IsSeq(q) /\ q # <<>> /\ r = Tail(q)
    BY DEF Shape
  <1>2. Read(s) = Head(q)
    BY DEF Read
  <1> HIDE DEF q, r
  <1>3. Len(q) \in Nat /\ DOMAIN q = 1 .. Len(q)
    BY <1>1, SeqFacts
  <1>4. /\ IsSeq(r) /\ Len(r) = Len(q) - 1 /\ Len(q) >= 1 /\ Head(q) = q[1] /\ 1 \in DOMAIN q
        /\ \A i \in DOMAIN r : i + 1 \in DOMAIN q /\ r[i] = q[i + 1]
    BY <1>1, TailFacts
  <1>5. DOMAIN r = 1 .. Len(r)
    BY <1>4, SeqFacts
  <1>6. DOMAIN r = 1 .. (Len(q) - 1)
    BY <1>4, <1>5
  <1> QED BY <1>2, <1>3, <1>4, <1>6 DEF q, r

\* s has sent packets.
Sends(s, packets) == wire'[Peer(s)] = wire[Peer(s)] \o packets

LEMMA SendFacts ==
    ASSUME Shape, NEW s \in Side, NEW packets, IsSeq(packets), Sends(s, packets)
    PROVE  LET q == wire[Peer(s)]
               r == wire'[Peer(s)]
           IN  /\ Len(q) \in Nat /\ Len(packets) \in Nat /\ DOMAIN q = 1 .. Len(q)
               /\ DOMAIN packets = 1 .. Len(packets)
               /\ IsSeq(r) /\ Len(r) = Len(q) + Len(packets) /\ DOMAIN r = 1 .. Len(r)
               /\ \A i \in 1 .. Len(q) : r[i] = q[i]
               /\ \A k \in 1 .. Len(packets) : r[Len(q) + k] = packets[k]
               /\ \A i \in DOMAIN r : \/ i \in DOMAIN q /\ r[i] = q[i]
                                      \/ \E k \in DOMAIN packets : i = Len(q) + k /\ r[i] = packets[k]
  <1> DEFINE q == wire[Peer(s)]
             r == wire'[Peer(s)]
  <1>1. IsSeq(q) /\ r = q \o packets
    BY Ends DEF Shape, Sends
  <1> HIDE DEF q, r
  <1>2. /\ Len(q) \in Nat /\ Len(packets) \in Nat /\ DOMAIN q = 1 .. Len(q)
        /\ DOMAIN packets = 1 .. Len(packets)
    BY <1>1, SeqFacts
  <1>3. IsSeq(r) /\ Len(r) = Len(q) + Len(packets)
    BY <1>1, ConcatFacts
  <1>4. DOMAIN r = 1 .. Len(r)
    BY <1>3, SeqFacts
  <1>5. \A i \in 1 .. Len(q) : r[i] = q[i]
    BY <1>1, ConcatFacts
  <1>6. \A k \in 1 .. Len(packets) : r[Len(q) + k] = packets[k]
    BY <1>1, ConcatFacts
  <1>7. \A i \in DOMAIN r : \/ i \in DOMAIN q /\ r[i] = q[i]
                            \/ \E k \in DOMAIN packets : i = Len(q) + k /\ r[i] = packets[k]
    BY <1>1, ConcatFacts
  <1> QED BY <1>2, <1>3, <1>4, <1>5, <1>6, <1>7 DEF q, r

\* Message numbers are numbers.
LEMMA Types ==
    /\ CLOSED = 0 /\ VERSION = 1 /\ LINE = 2 /\ EXT_INFO = 7 /\ KEXINIT = 20 /\ NEWKEYS = 21
    /\ EngineTypes = {30, 31, 32, 33, 34, 40, 41} /\ BannerTypes = {1, 2}
  BY DEF CLOSED, VERSION, LINE, EXT_INFO, KEXINIT, NEWKEYS, EngineTypes, BannerTypes

\* A packet other than NEWKEYS is read: the rest stays in order.
LEMMA ReadStream ==
    ASSUME NEW q, NEW r, NEW n \in Nat, n >= 1, Len(q) = n, DOMAIN q = 1 .. n,
           Len(r) = n - 1, DOMAIN r = 1 .. (n - 1), \A i \in DOMAIN r : r[i] = q[i + 1],
           q[1].type # NEWKEYS, NEW in, NEW nin \in Nat, NEW out, NEW nout, NEW strict, NEW open,
           Stream(q, in, nin, out, nout, strict, open)
    PROVE  Stream(r, in, nin + 1, out, nout, strict, open)
  <1>1. ASSUME NEW i \in 1 .. n, NEW key, NEW seq, Fits(q, in, nin, out, strict, i + 1, key, seq)
        PROVE  Fits(r, in, nin + 1, out, strict, i, key, seq)
    <2>1. ASSUME \A j \in 1 .. (i - 1) : r[j].type # NEWKEYS
          PROVE  key = in /\ seq = nin + 1 + i - 1
      <3>1. \A j \in 1 .. ((i + 1) - 1) : q[j].type # NEWKEYS
        <4> SUFFICES ASSUME NEW j \in 1 .. ((i + 1) - 1), j # 1
                     PROVE  q[j].type # NEWKEYS
          OBVIOUS
        <4>1. j - 1 \in 1 .. (i - 1) /\ j - 1 \in DOMAIN r
          OBVIOUS
        <4>2. r[j - 1] = q[j]
          BY <4>1
        <4> QED BY <2>1, <4>1, <4>2
      <3>2. key = in /\ seq = nin + (i + 1) - 1
        BY <1>1, <3>1 DEF Fits
      <3> QED BY <3>2
    <2>2. ASSUME NEW j \in 1 .. (i - 1), r[j].type = NEWKEYS
          PROVE  key = out /\ seq = IF strict THEN i - j - 1 ELSE nin + 1 + i - 1
      <3>1. j + 1 \in 1 .. ((i + 1) - 1) /\ q[j + 1].type = NEWKEYS
        BY <2>2
      <3>2. key = out /\ seq = IF strict THEN (i + 1) - (j + 1) - 1 ELSE nin + (i + 1) - 1
        BY <1>1, <3>1 DEF Fits
      <3> QED BY <3>2
    <2> QED BY <2>1, <2>2 DEF Fits
  <1>2. ASSUME NEW i \in DOMAIN r
        PROVE  /\ r[i].type \notin BannerTypes
               /\ r[i].type # CLOSED => Fits(r, in, nin + 1, out, strict, i, r[i].key, r[i].seq)
    <2>1. i + 1 \in DOMAIN q /\ r[i] = q[i + 1] /\ i \in 1 .. n
      OBVIOUS
    <2>2. /\ r[i].type \notin BannerTypes
          /\ r[i].type # CLOSED => Fits(q, in, nin, out, strict, i + 1, r[i].key, r[i].seq)
      BY <2>1 DEF Stream
    <2> QED BY <1>1, <2>1, <2>2
  <1>3. open => Fits(r, in, nin + 1, out, strict, Len(r) + 1, out, nout)
    <2> SUFFICES ASSUME open PROVE Fits(r, in, nin + 1, out, strict, Len(r) + 1, out, nout)
      OBVIOUS
    <2>1. Fits(q, in, nin, out, strict, n + 1, out, nout)
      BY DEF Stream
    <2>2. n \in 1 .. n /\ Len(r) + 1 = n
      OBVIOUS
    <2> QED BY <1>1, <2>1, <2>2
  <1> QED BY <1>2, <1>3 DEF Stream

\* NEWKEYS is read, the only one there is, and the keys of the other end are taken.
LEMMA SwitchStream ==
    ASSUME NEW q, NEW r, NEW n \in Nat, n >= 1, Len(q) = n, DOMAIN q = 1 .. n,
           Len(r) = n - 1, DOMAIN r = 1 .. (n - 1), \A i \in DOMAIN r : r[i] = q[i + 1],
           q[1].type = NEWKEYS, \A i \in DOMAIN r : r[i].type # NEWKEYS,
           NEW in, NEW nin \in Nat, NEW out, NEW nout, NEW strict \in BOOLEAN, NEW open,
           Stream(q, in, nin, out, nout, strict, open)
    PROVE  Stream(r, out, IF strict THEN 0 ELSE nin + 1, out, nout, strict, open)
  <1> DEFINE nnew == IF strict THEN 0 ELSE nin + 1
  <1>1. ASSUME NEW i \in 1 .. n, NEW key, NEW seq, Fits(q, in, nin, out, strict, i + 1, key, seq)
        PROVE  Fits(r, out, nnew, out, strict, i, key, seq)
    <2>1. key = out /\ seq = IF strict THEN (i + 1) - 1 - 1 ELSE nin + (i + 1) - 1
      <3>1. 1 \in 1 .. ((i + 1) - 1)
        OBVIOUS
      <3> QED BY <1>1, <3>1 DEF Fits
    <2>2. key = out /\ seq = nnew + i - 1
      BY <2>1
    <2>3. \A j \in 1 .. (i - 1) : r[j].type # NEWKEYS
      OBVIOUS
    <2> HIDE DEF nnew
    <2> QED BY <2>2, <2>3 DEF Fits
  <1>2. ASSUME NEW i \in DOMAIN r
        PROVE  /\ r[i].type \notin BannerTypes
               /\ r[i].type # CLOSED => Fits(r, out, nnew, out, strict, i, r[i].key, r[i].seq)
    <2>1. i + 1 \in DOMAIN q /\ r[i] = q[i + 1] /\ i \in 1 .. n
      OBVIOUS
    <2>2. /\ r[i].type \notin BannerTypes
          /\ r[i].type # CLOSED => Fits(q, in, nin, out, strict, i + 1, r[i].key, r[i].seq)
      BY <2>1 DEF Stream
    <2> HIDE DEF nnew
    <2> QED BY <1>1, <2>1, <2>2
  <1>3. open => Fits(r, out, nnew, out, strict, Len(r) + 1, out, nout)
    <2> SUFFICES ASSUME open PROVE Fits(r, out, nnew, out, strict, Len(r) + 1, out, nout)
      OBVIOUS
    <2>1. Fits(q, in, nin, out, strict, n + 1, out, nout)
      BY DEF Stream
    <2>2. n \in 1 .. n /\ Len(r) + 1 = n
      OBVIOUS
    <2> HIDE DEF nnew
    <2> QED BY <1>1, <2>1, <2>2
  <1> HIDE DEF nnew
  <1>4. Stream(r, out, nnew, out, nout, strict, open)
    BY <1>2, <1>3 DEF Stream
  <1> QED BY <1>4 DEF nnew

\* r is q with packets of the keys and numbers of the sender behind.
Plain(q, r, packets, out, nout) ==
    /\ Len(q) \in Nat /\ DOMAIN q = 1 .. Len(q) /\ Len(packets) \in Nat
    /\ Len(r) = Len(q) + Len(packets) /\ DOMAIN r = 1 .. Len(r)
    /\ \A i \in 1 .. Len(q) : r[i] = q[i]
    /\ \A k \in 1 .. Len(packets) :
        /\ r[Len(q) + k] = packets[k]
        /\ packets[k].key = out /\ packets[k].seq = nout + k - 1
        /\ packets[k].type \notin {CLOSED, VERSION, LINE}

\* Packets are sent, none of them NEWKEYS.
LEMMA SendStream ==
    ASSUME NEW q, NEW r, NEW packets, NEW in, NEW nin \in Nat, NEW out, NEW nout \in Nat,
           NEW strict \in BOOLEAN, NEW open, Plain(q, r, packets, out, nout),
           \A k \in 1 .. Len(packets) : packets[k].type # NEWKEYS,
           Stream(q, in, nin, out, nout, strict, TRUE)
    PROVE  Stream(r, in, nin, out, nout + Len(packets), strict, open)
  <1> DEFINE n == Len(q)
             m == Len(packets)
  <1>1. /\ n \in Nat /\ m \in Nat /\ Len(r) = n + m /\ DOMAIN r = 1 .. (n + m) /\ DOMAIN q = 1 .. n
        /\ \A i \in 1 .. n : r[i] = q[i]
        /\ \A k \in 1 .. m : /\ r[n + k] = packets[k] /\ packets[k].type \notin {CLOSED, VERSION, LINE}
                             /\ packets[k].key = out /\ packets[k].seq = nout + k - 1
    BY DEF Plain
  <1>2. /\ \A i \in 1 .. n :
            /\ q[i].type \notin BannerTypes
            /\ q[i].type # CLOSED => Fits(q, in, nin, out, strict, i, q[i].key, q[i].seq)
        /\ Fits(q, in, nin, out, strict, n + 1, out, nout)
    BY <1>1 DEF Stream
  <1>3. \A k \in 1 .. m : packets[k].type # NEWKEYS
    OBVIOUS
  <1> HIDE DEF n, m
  <1>4. ASSUME NEW i \in 1 .. n, q[i].type # CLOSED
        PROVE  Fits(r, in, nin, out, strict, i, r[i].key, r[i].seq)
    <2>1. Fits(q, in, nin, out, strict, i, r[i].key, r[i].seq)
      BY <1>1, <1>2, <1>4
    <2>2. \A j \in 1 .. (i - 1) : r[j] = q[j]
      BY <1>1
    <2> QED BY <2>1, <2>2 DEF Fits
  <1>5. ASSUME NEW k \in 1 .. (m + 1)
        PROVE  Fits(r, in, nin, out, strict, n + k, out, nout + k - 1)
    <2>1. ASSUME \A j \in 1 .. ((n + k) - 1) : r[j].type # NEWKEYS
          PROVE  nout + k - 1 = nin + (n + k) - 1 /\ out = in
      <3>1. \A j \in 1 .. ((n + 1) - 1) : q[j].type # NEWKEYS
        BY <1>1, <2>1
      <3>2. out = in /\ nout = nin + (n + 1) - 1
        BY <1>2, <3>1 DEF Fits
      <3> QED BY <1>1, <3>2
    <2>2. ASSUME NEW j \in 1 .. ((n + k) - 1), r[j].type = NEWKEYS
          PROVE  nout + k - 1 = IF strict THEN (n + k) - j - 1 ELSE nin + (n + k) - 1
      <3>1. j \in 1 .. n
        <4> SUFFICES ASSUME j > n PROVE FALSE
          BY <1>1
        <4>1. j - n \in 1 .. m /\ j = n + (j - n)
          BY <1>1
        <4>2. r[j] = packets[j - n]
          BY <1>1, <4>1
        <4> QED BY <1>3, <2>2, <4>1, <4>2
      <3>2. q[j].type = NEWKEYS /\ j \in 1 .. ((n + 1) - 1)
        BY <1>1, <2>2, <3>1
      <3>3. nout = IF strict THEN (n + 1) - j - 1 ELSE nin + (n + 1) - 1
        BY <1>2, <3>2 DEF Fits
      <3> QED BY <1>1, <3>3
    <2> QED BY <2>1, <2>2 DEF Fits
  <1>6. ASSUME NEW i \in 1 .. (n + m)
        PROVE  /\ r[i].type \notin BannerTypes
               /\ r[i].type # CLOSED => Fits(r, in, nin, out, strict, i, r[i].key, r[i].seq)
    <2>1. CASE i <= n
      BY <1>1, <1>2, <1>4, <2>1
    <2>2. CASE i > n
      <3>1. i - n \in 1 .. (m + 1) /\ i - n \in 1 .. m /\ i = n + (i - n)
        BY <1>1, <2>2
      <3>2. r[i] = packets[i - n] /\ r[i].key = out /\ r[i].seq = nout + (i - n) - 1
        BY <1>1, <3>1
      <3>3. Fits(r, in, nin, out, strict, n + (i - n), out, nout + (i - n) - 1)
        BY <1>5, <3>1
      <3>4. r[i].type \notin BannerTypes
        BY <1>1, <3>1, <3>2 DEF BannerTypes
      <3> QED BY <3>1, <3>2, <3>3, <3>4
    <2> QED BY <1>1, <2>1, <2>2
  <1>7. Fits(r, in, nin, out, strict, Len(r) + 1, out, nout + m)
    <2>1. m + 1 \in 1 .. (m + 1) /\ n + (m + 1) = Len(r) + 1 /\ nout + (m + 1) - 1 = nout + m
      BY <1>1
    <2>2. Fits(r, in, nin, out, strict, n + (m + 1), out, nout + (m + 1) - 1)
      BY <1>5, <2>1
    <2> QED BY <2>1, <2>2
  <1> QED BY <1>1, <1>6, <1>7 DEF Stream, m

\* The sender changes its keys: NEWKEYS is in place l of r, all before it is of the
\* old keys and at most one packet behind it.
Switch(q, n, r, l, x, out, nout, new, after) ==
    /\ n \in Nat /\ l \in Nat /\ l > n /\ x \in {0, 1} /\ Len(q) = n /\ DOMAIN q = 1 .. n
    /\ Len(r) = l + x /\ DOMAIN r = 1 .. (l + x) /\ \A i \in 1 .. n : r[i] = q[i]
    /\ \A i \in (n + 1) .. l : /\ r[i].key = out /\ r[i].seq = nout + (i - n) - 1
                               /\ r[i].type \notin {CLOSED, VERSION, LINE}
    /\ \A i \in 1 .. (l - 1) : r[i].type # NEWKEYS
    /\ r[l].type = NEWKEYS
    /\ x = 1 => /\ r[l + 1].key = new /\ r[l + 1].seq = after
                /\ r[l + 1].type \notin {CLOSED, VERSION, LINE, NEWKEYS}

SwitchOf(q, in, nin, out, nout, strict, r, new, l, n, x, after) ==
    /\ nin \in Nat /\ nout \in Nat /\ strict \in BOOLEAN /\ after \in Nat
    /\ strict => after = 0
    /\ ~strict => after = nout + (l - n)
    /\ Switch(q, n, r, l, x, out, nout, new, after)
    /\ Stream(q, in, nin, out, nout, strict, TRUE)

LEMMA OutboundStream ==
    ASSUME NEW q, NEW in, NEW nin, NEW out, NEW nout, NEW strict, NEW r, NEW new, NEW l, NEW n,
           NEW x, NEW after, NEW open,
           SwitchOf(q, in, nin, out, nout, strict, r, new, l, n, x, after)
    PROVE  Stream(r, in, nin, new, after + x, strict, open)
  <1>0. /\ nin \in Nat /\ nout \in Nat /\ strict \in BOOLEAN /\ after \in Nat
        /\ strict => after = 0
        /\ ~strict => after = nout + (l - n)
        /\ Switch(q, n, r, l, x, out, nout, new, after)
        /\ Stream(q, in, nin, out, nout, strict, TRUE)
    BY DEF SwitchOf
  <1> USE <1>0
  <1>1. /\ n \in Nat /\ l \in Nat /\ l > n /\ x \in {0, 1}
        /\ \A i \in 1 .. n : r[i] = q[i] /\ q[i].type # NEWKEYS
    BY DEF Switch
  <1>2. /\ \A i \in 1 .. n :
            /\ q[i].type \notin BannerTypes
            /\ q[i].type # CLOSED => Fits(q, in, nin, out, strict, i, q[i].key, q[i].seq)
        /\ Fits(q, in, nin, out, strict, n + 1, out, nout)
    BY DEF Stream, Switch
  <1>3. out = in /\ nout = nin + n
    <2>1. \A j \in 1 .. ((n + 1) - 1) : q[j].type # NEWKEYS
      BY <1>1
    <2>2. out = in /\ nout = nin + (n + 1) - 1
      BY <1>2, <2>1 DEF Fits
    <2> QED BY <1>1, <2>2
  <1>4. ASSUME NEW i \in 1 .. l
        PROVE  /\ r[i].type \notin BannerTypes
               /\ r[i].type # CLOSED => Fits(r, in, nin, new, strict, i, r[i].key, r[i].seq)
    <2>1. \A j \in 1 .. (i - 1) : r[j].type # NEWKEYS
      BY <1>1 DEF Switch
    <2>2. r[i].type \notin BannerTypes /\ (r[i].type # CLOSED => r[i].key = in /\ r[i].seq = nin + i - 1)
      <3>1. CASE i <= n
        <4>1. \A j \in 1 .. (i - 1) : q[j].type # NEWKEYS
          BY <1>1, <3>1
        <4> QED BY <1>1, <1>2, <3>1, <4>1 DEF Fits
      <3>2. CASE i > n
        <4>1. i \in (n + 1) .. l
          BY <1>1, <3>2
        <4>2. r[i].key = out /\ r[i].seq = nout + (i - n) - 1
          BY <4>1 DEF Switch
        <4>3. r[i].type \notin BannerTypes
          BY <4>1 DEF BannerTypes, Switch
        <4> QED BY <1>1, <1>3, <4>2, <4>3
      <3> QED BY <1>1, <3>1, <3>2
    <2> QED BY <2>1, <2>2 DEF Fits
  <1>5. ASSUME NEW d \in {0, 1}, d <= x
        PROVE  Fits(r, in, nin, new, strict, l + d + 1, new, after + d)
    <2>1. \A j \in 1 .. ((l + d + 1) - 1) : r[j].type = NEWKEYS => j = l
      <3> SUFFICES ASSUME NEW j \in 1 .. ((l + d + 1) - 1), r[j].type = NEWKEYS PROVE j = l
        OBVIOUS
      <3>1. CASE j < l
        <4>1. j \in 1 .. (l - 1)
          BY <1>1, <3>1
        <4> QED BY <4>1 DEF Switch
      <3>2. CASE j > l
        <4>1. j = l + 1 /\ x = 1
          BY <1>1, <1>5, <3>2
        <4> QED BY <4>1 DEF Switch
      <3> QED BY <1>1, <3>1, <3>2
    <2>2. l \in 1 .. ((l + d + 1) - 1)
      BY <1>1
    <2>3. after + d = IF strict THEN (l + d + 1) - l - 1 ELSE nin + (l + d + 1) - 1
      BY <1>1, <1>3
    <2>4. r[l].type = NEWKEYS
      BY DEF Switch
    <2> QED BY <2>1, <2>2, <2>3, <2>4 DEF Fits
  <1>6. ASSUME NEW i \in DOMAIN r
        PROVE  /\ r[i].type \notin BannerTypes
               /\ r[i].type # CLOSED => Fits(r, in, nin, new, strict, i, r[i].key, r[i].seq)
    <2>0. i \in 1 .. (l + x)
      BY DEF Switch
    <2>1. CASE i <= l
      <3>1. i \in 1 .. l
        BY <1>1, <2>0, <2>1
      <3> QED BY <1>4, <3>1
    <2>2. CASE i > l
      <3>1. i = l + 1 /\ x = 1
        BY <1>1, <2>0, <2>2
      <3>2. Fits(r, in, nin, new, strict, l + 0 + 1, new, after + 0)
        BY <1>5, <3>1
      <3>3. l + 0 + 1 = i /\ after + 0 = after
        BY <1>1, <3>1
      <3>4. r[i].key = new /\ r[i].seq = after /\ r[i].type \notin BannerTypes
        BY <3>1 DEF BannerTypes, Switch
      <3> QED BY <3>2, <3>3, <3>4
    <2> QED BY <1>1, <2>0, <2>1, <2>2
  <1>7. Fits(r, in, nin, new, strict, Len(r) + 1, new, after + x)
    <2>1. Len(r) = l + x
      BY DEF Switch
    <2>2. Fits(r, in, nin, new, strict, l + x + 1, new, after + x)
      BY <1>1, <1>5
    <2> QED BY <2>1, <2>2
  <1> QED BY <1>6, <1>7 DEF Stream

\* A line before the version line is read.
LEMMA ReadBanner ==
    ASSUME NEW q, NEW r, NEW n \in Nat, n >= 1, Len(q) = n, DOMAIN q = 1 .. n,
           Len(r) = n - 1, DOMAIN r = 1 .. (n - 1), \A i \in DOMAIN r : r[i] = q[i + 1],
           NEW nout, NEW open, Banner(q, nout, open)
    PROVE  Banner(r, nout, open)
  <1> SUFFICES ASSUME NEW i \in DOMAIN r, r[i].type = VERSION
               PROVE  /\ \A j \in DOMAIN r : j > i =>
                          /\ r[j].type \notin BannerTypes
                          /\ r[j].type # CLOSED => r[j].key = NoKeys /\ r[j].seq = j - i - 1
                      /\ open => nout = Len(r) - i
    BY DEF Banner
  <1>1. i + 1 \in DOMAIN q /\ q[i + 1].type = VERSION
    OBVIOUS
  <1>2. /\ \A j \in DOMAIN q : j > i + 1 =>
            /\ q[j].type \notin BannerTypes
            /\ q[j].type # CLOSED => q[j].key = NoKeys /\ q[j].seq = j - (i + 1) - 1
        /\ open => nout = Len(q) - (i + 1)
    BY <1>1 DEF Banner
  <1>3. ASSUME NEW j \in DOMAIN r, j > i
        PROVE  /\ r[j].type \notin BannerTypes
               /\ r[j].type # CLOSED => r[j].key = NoKeys /\ r[j].seq = j - i - 1
    <2>1. j + 1 \in DOMAIN q /\ j + 1 > i + 1 /\ r[j] = q[j + 1] /\ (j + 1) - (i + 1) - 1 = j - i - 1
      BY <1>3
    <2> QED BY <1>2, <2>1
  <1>4. open => nout = Len(r) - i
    BY <1>2
  <1> QED BY <1>3, <1>4

\* Packets without keys are sent behind the version line.
LEMMA SendBanner ==
    ASSUME NEW q, NEW r, NEW packets, NEW nout \in Nat, NEW open,
           Plain(q, r, packets, NoKeys, nout), Banner(q, nout, TRUE)
    PROVE  Banner(r, nout + Len(packets), open)
  <1> DEFINE n == Len(q)
             m == Len(packets)
  <1>1. /\ n \in Nat /\ m \in Nat /\ Len(r) = n + m /\ DOMAIN r = 1 .. (n + m) /\ DOMAIN q = 1 .. n
        /\ \A i \in 1 .. n : r[i] = q[i]
        /\ \A k \in 1 .. m : /\ r[n + k] = packets[k] /\ packets[k].type \notin {CLOSED, VERSION, LINE}
                             /\ packets[k].key = NoKeys /\ packets[k].seq = nout + k - 1
    BY DEF Plain
  <1>2. ASSUME NEW i \in 1 .. n, q[i].type = VERSION
        PROVE  /\ \A j \in 1 .. n : j > i =>
                   /\ q[j].type \notin BannerTypes
                   /\ q[j].type # CLOSED => q[j].key = NoKeys /\ q[j].seq = j - i - 1
               /\ nout = n - i
    BY <1>1, <1>2 DEF Banner
  <1> HIDE DEF n, m
  <1>3. ASSUME NEW j \in 1 .. (n + m), j > n
        PROVE  /\ r[j].type \notin {CLOSED, VERSION, LINE} /\ r[j].type \notin BannerTypes
               /\ r[j].key = NoKeys /\ r[j].seq = nout + (j - n) - 1
    <2>1. j - n \in 1 .. m /\ j = n + (j - n)
      BY <1>1, <1>3
    <2>2. r[j] = packets[j - n]
      BY <1>1, <2>1
    <2> QED BY <1>1, <2>1, <2>2 DEF BannerTypes
  <1>4. ASSUME NEW i \in 1 .. (n + m), r[i].type = VERSION
        PROVE  /\ \A j \in 1 .. (n + m) : j > i =>
                    /\ r[j].type \notin BannerTypes
                    /\ r[j].type # CLOSED => r[j].key = NoKeys /\ r[j].seq = j - i - 1
               /\ nout + m = Len(r) - i
    <2>1. i \in 1 .. n
      BY <1>1, <1>3, <1>4
    <2>2. q[i].type = VERSION
      BY <1>1, <1>4, <2>1
    <2>3. nout = n - i
      BY <1>2, <2>1, <2>2
    <2>4. ASSUME NEW j \in 1 .. (n + m), j > i
          PROVE  /\ r[j].type \notin BannerTypes
                 /\ r[j].type # CLOSED => r[j].key = NoKeys /\ r[j].seq = j - i - 1
      <3>1. CASE j <= n
        <4>1. j \in 1 .. n /\ r[j] = q[j]
          BY <1>1, <3>1
        <4> QED BY <1>2, <2>1, <2>2, <2>4, <4>1
      <3>2. CASE j > n
        <4>1. r[j].type \notin BannerTypes /\ r[j].key = NoKeys /\ r[j].seq = nout + (j - n) - 1
          BY <1>3, <3>2
        <4>2. nout + (j - n) - 1 = j - i - 1
          BY <1>1, <2>1, <2>3
        <4> QED BY <4>1, <4>2
      <3> QED BY <1>1, <3>1, <3>2
    <2>5. nout + m = Len(r) - i
      BY <1>1, <2>1, <2>3
    <2> QED BY <2>4, <2>5
  <1> QED BY <1>1, <1>4, SMTT(60) DEF Banner, m
-----------------------------------------------------------------------------
(* ... and in the state of the system *)

\* The parts of the invariant.
LEMMA Parts ==
    ASSUME HandshakeInv
    PROVE  /\ Shape /\ PhasesOK
           /\ \A s \in Side : /\ StageOK(s) /\ ExpectedOK(s) /\ LocalOK(s) /\ AgreedOK(s)
                              /\ InitWire(s) /\ NewkeysWire(s) /\ ClosedWire(s) /\ KeyOK(s)
                              /\ StreamOK(s) /\ BannerOK(s)
           /\ KexOK /\ OneEngine /\ EngineToServer /\ EngineToClient
           /\ HashOK /\ OutOK /\ HostOK /\ FirstOK
  BY DEF HandshakeInv, EndOK, WireOK

\* An end that runs has been started, and has not closed its connection.
LEMMA ActiveFacts ==
    ASSUME HandshakeInv, NEW s \in Side, tr[s].active
    PROVE  /\ app[s] # "idle"
           /\ \A i \in DOMAIN wire[Peer(s)] : wire[Peer(s)][i].type # CLOSED
  <1>1. StageOK(s) /\ ClosedWire(Peer(s)) /\ Peer(Peer(s)) = s
    BY Parts, Ends
  <1> QED BY <1>1 DEF StageOK, ClosedWire

\* An end in its banner is not behind.
LEMMA BannerKeys ==
    ASSUME HandshakeInv, NEW s \in Side, tr[s].stage \in {"new", "banner"}
    PROVE  Phase(s) = 0 /\ tr[Peer(s)].out_key = NoKeys
  <1>1. StageOK(s) /\ KeyOK(s)
    BY Parts
  <1>2. Phase(s) = 0 /\ tr[s].in_key = NoKeys
    BY <1>1 DEF StageOK
  <1>3. ~Behind(s)
    BY <1>2 DEF Behind
  <1> QED BY <1>1, <1>2, <1>3 DEF KeyOK

\* Packets with the keys and numbers of s, none of which says anything about keys.
PlainPackets(s, packets) ==
    \A k \in 1 .. Len(packets) :
        /\ packets[k].key = tr[s].out_key /\ packets[k].seq = tr[s].seqno_out + k - 1
        /\ packets[k].type \notin {CLOSED, VERSION, LINE, NEWKEYS}

LEMMA SendOK ==
    ASSUME HandshakeInv, NEW s \in Side, tr[s].active, Others(s), app' = app,
           NEW packets, IsSeq(packets), Sends(s, packets), PlainPackets(s, packets),
           tr'[s].out_key = tr[s].out_key,
           tr'[s].seqno_out = tr[s].seqno_out + Len(packets)
    PROVE  StreamOK(Peer(s))' /\ BannerOK(Peer(s))' /\ ClosedWire(Peer(s))'
  <1> DEFINE p == Peer(s)
             q == wire[p]
             r == wire'[p]
             out == tr[s].out_key
             nout == tr[s].seqno_out
             nin == tr[p].seqno_in
  <1>1. p \in Side /\ Peer(p) = s /\ tr'[p] = tr[p] /\ app' = app
    BY Ends DEF Others
  <1>2. nout \in Nat /\ nin \in Nat /\ Strict \in BOOLEAN /\ Strict' = Strict
    BY <1>1, Parts, SetupFacts, Ends DEF Shape, Strict, Others
  <1>3. Plain(q, r, packets, out, nout) /\ \A k \in 1 .. Len(packets) : packets[k].type # NEWKEYS
    BY Parts, SendFacts DEF Plain, PlainPackets
  <1>4. app[s] # "idle" /\ \A i \in DOMAIN q : q[i].type # CLOSED
    BY ActiveFacts
  <1>5. StreamOK(p)'
    <2> SUFFICES ASSUME tr[p].stage = "loop"
                 PROVE  Stream(r, tr[p].in_key, nin, out, nout + Len(packets), Strict, tr'[s].active)
      BY <1>1, <1>2, <1>4 DEF StreamOK
    <2>1. Stream(q, tr[p].in_key, nin, out, nout, Strict, TRUE)
      BY <1>1, Parts DEF StreamOK
    <2> HIDE DEF p, q, r, out, nout, nin
    <2> QED BY <1>2, <1>3, <2>1, SendStream
  <1>6. BannerOK(p)'
    <2> SUFFICES ASSUME tr[p].stage \in {"new", "banner"}
                 PROVE  Banner(r, nout + Len(packets), tr'[s].active)
      BY <1>1, <1>4 DEF BannerOK
    <2>1. out = NoKeys
      BY <1>1, BannerKeys
    <2>2. Banner(q, nout, TRUE)
      BY <1>1, Parts DEF BannerOK
    <2> HIDE DEF p, q, r, out, nout, nin
    <2> QED BY <1>2, <1>3, <2>1, <2>2, SendBanner
  <1>7. ClosedWire(p)'
    <2>1. \A i \in DOMAIN r : r[i].type # CLOSED
      <3>1. \A i \in DOMAIN r : \/ i \in DOMAIN q /\ r[i] = q[i]
                                \/ \E k \in DOMAIN packets : r[i] = packets[k]
        BY Parts, SendFacts
      <3>2. DOMAIN packets = 1 .. Len(packets)
        BY SeqFacts
      <3>3. \A k \in DOMAIN packets : packets[k].type # CLOSED
        BY <3>2 DEF PlainPackets
      <3> QED BY <1>4, <3>1, <3>3
    <2> QED BY <2>1 DEF ClosedWire
  <1> QED BY <1>5, <1>6, <1>7

\* The closing of a connection stays where it is.
LEMMA TailClosed ==
    ASSUME HandshakeInv, NEW s \in Side, wire[s] # <<>>, wire'[s] = Tail(wire[s]),
           Others(s), app' = app
    PROVE  ClosedWire(s)'
  <1> DEFINE p == Peer(s)
             q == wire[s]
             r == wire'[s]
             n == Len(wire[s])
  <1>1. Shape /\ ClosedWire(s) /\ tr'[p] = tr[p]
    BY Parts DEF Others
  <1>2. /\ n \in Nat /\ DOMAIN q = 1 .. n /\ Len(r) = n - 1 /\ DOMAIN r = 1 .. (n - 1)
        /\ \A i \in DOMAIN r : r[i] = q[i + 1]
    BY <1>1, ReadFacts
  <1>3. ASSUME NEW i \in DOMAIN r, r[i].type = CLOSED
        PROVE  i = Len(r) /\ ~tr[p].active /\ app[p] # "idle"
    <2>1. i + 1 \in DOMAIN q /\ q[i + 1].type = CLOSED
      BY <1>2, <1>3
    <2>2. i + 1 = n /\ ~tr[p].active /\ app[p] # "idle"
      BY <1>1, <2>1 DEF ClosedWire
    <2> QED BY <1>2, <2>2
  <1> QED BY <1>1, <1>3 DEF ClosedWire

\* s reads a packet of its loop that is not NEWKEYS.
LEMMA ReadOK ==
    ASSUME HandshakeInv, NEW s \in Side, tr[s].stage = "loop", tr'[s].stage = "loop",
           wire[s] # <<>>, wire'[s] = Tail(wire[s]), Read(s).type # NEWKEYS,
           Others(s), app' = app,
           tr'[s].in_key = tr[s].in_key, tr'[s].seqno_in = tr[s].seqno_in + 1
    PROVE  StreamOK(s)' /\ BannerOK(s)' /\ ClosedWire(s)'
  <1> DEFINE p == Peer(s)
             q == wire[s]
             r == wire'[s]
             n == Len(wire[s])
             nin == tr[s].seqno_in
  <1>1. Shape /\ StreamOK(s) /\ ClosedWire(s)
    BY Parts
  <1>2. /\ n \in Nat /\ n >= 1 /\ DOMAIN q = 1 .. n /\ Len(r) = n - 1 /\ DOMAIN r = 1 .. (n - 1)
        /\ \A i \in DOMAIN r : r[i] = q[i + 1]
        /\ q[1].type # NEWKEYS
    BY <1>1, ReadFacts
  <1>3. nin \in Nat /\ tr'[p] = tr[p] /\ Strict' = Strict /\ app[p] # "idle"
    BY <1>1 DEF Shape, Others, Strict, StreamOK
  <1>4. Stream(q, tr[s].in_key, nin, tr[p].out_key, tr[p].seqno_out, Strict, tr[p].active)
    BY <1>1 DEF StreamOK
  <1>5. Stream(r, tr[s].in_key, nin + 1, tr[p].out_key, tr[p].seqno_out, Strict, tr[p].active)
    <2> HIDE DEF p, q, r, nin
    <2>1. Len(q) = n
      BY DEF q
    <2> HIDE DEF n
    <2> QED BY <1>2, <1>3, <1>4, <2>1, ReadStream
  <1>6. StreamOK(s)'
    BY <1>3, <1>5 DEF StreamOK
  <1>7. BannerOK(s)'
    BY <1>3 DEF BannerOK
  <1>8. ClosedWire(s)'
    BY TailClosed
  <1> QED BY <1>6, <1>7, <1>8
-----------------------------------------------------------------------------
(* Steps that change no phase, no hash and no key *)

\* What an end makes of its lists depends on how it is set up.
LEMMA SetupKept ==
    ASSUME setup' = setup
    PROVE  /\ Strict' = Strict /\ Algs' = Algs /\ KeyAlg' = KeyAlg /\ ClientKex' = ClientKex
           /\ \A s : AvailableKeys(s)' = AvailableKeys(s)
           /\ \A s, c : Preferred(s, c)' = Preferred(s, c)
           /\ \A s, c, q : FilterAlgorithm(s, c, q)' = FilterAlgorithm(s, c, q)
  <1>1. Strict' = Strict
    BY DEF Strict
  <1>2. \A s, c, q : FilterAlgorithm(s, c, q)' = FilterAlgorithm(s, c, q)
    BY DEF FilterAlgorithm, Keep
  <1>3. \A s, c : Preferred(s, c)' = Preferred(s, c)
    BY DEF Preferred, FilterAlgorithm, Keep
  <1>4. server_key_dict' = server_key_dict
    BY DEF server_key_dict, NamesOf
  <1>5. \A s : PreferredKeys(s)' = PreferredKeys(s)
    BY DEF PreferredKeys, Pinned, NamesOf, FilterAlgorithm, Keep
  <1>6. \A s : AvailableKeys(s)' = AvailableKeys(s)
    BY <1>4, <1>5 DEF AvailableKeys
  <1>7. Algs' = Algs
    BY <1>3 DEF Algs
  <1>8. KeyAlg' = KeyAlg
    BY <1>6 DEF KeyAlg, Keep
  <1>9. ClientKex' = ClientKex
    BY DEF ClientKex, FilterAlgorithm, Keep
  <1> QED BY <1>1, <1>2, <1>3, <1>6, <1>7, <1>8, <1>9

CalmFields ==
    Fields \ {"stage", "active", "lines", "timer", "seqno_in", "seqno_out", "event",
              "saved_exception"}

\* Of the packets to t there are some of the old ones, in their order, and others
\* that no engine and no exchange sends.
Fewer(t, d) ==
    \A i \in DOMAIN wire'[t] :
        \/ wire'[t][i].type \in {CLOSED, VERSION, LINE, EXT_INFO}
        \/ i + d \in DOMAIN wire[t] /\ i \in Int /\ wire'[t][i] = wire[t][i + d]

Calm(d, e) ==
    /\ setup' = setup /\ d \in Nat /\ e \in Nat
    /\ \A t \in Side : \A f \in CalmFields : tr'[t][f] = tr[t][f]
    /\ Fewer("client", d) /\ Fewer("server", e)

\* The invariant but for the stages, the numbers and the ends of the wires.
Core ==
    /\ PhasesOK /\ KexOK /\ OneEngine /\ EngineToServer /\ EngineToClient
    /\ HashOK /\ OutOK /\ HostOK /\ FirstOK
    /\ \A s \in Side : /\ ExpectedOK(s) /\ LocalOK(s) /\ AgreedOK(s)
                       /\ InitWire(s) /\ NewkeysWire(s) /\ KeyOK(s)

LEMMA CalmFacts ==
    ASSUME NEW d, NEW e, Calm(d, e), NEW t \in Side
    PROVE  /\ tr'[t].expected = tr[t].expected /\ tr'[t].preferred_kex = tr[t].preferred_kex
           /\ tr'[t].made = tr[t].made /\ tr'[t].local_kex_init = tr[t].local_kex_init
           /\ tr'[t].remote_kex_init = tr[t].remote_kex_init /\ tr'[t].agreed = tr[t].agreed
           /\ tr'[t].strict = tr[t].strict /\ tr'[t].H = tr[t].H
           /\ tr'[t].session_id = tr[t].session_id /\ tr'[t].host_key = tr[t].host_key
           /\ tr'[t].gss_kex_used = tr[t].gss_kex_used
           /\ tr'[t].out_key = tr[t].out_key /\ tr'[t].in_key = tr[t].in_key
           /\ tr'[t].initial_kex_done = tr[t].initial_kex_done
           /\ Phase(t)' = Phase(t)
  <1>1. /\ tr'[t].expected = tr[t].expected /\ tr'[t].preferred_kex = tr[t].preferred_kex
        /\ tr'[t].made = tr[t].made /\ tr'[t].local_kex_init = tr[t].local_kex_init
        /\ tr'[t].remote_kex_init = tr[t].remote_kex_init /\ tr'[t].agreed = tr[t].agreed
        /\ tr'[t].strict = tr[t].strict /\ tr'[t].H = tr[t].H
        /\ tr'[t].session_id = tr[t].session_id /\ tr'[t].host_key = tr[t].host_key
        /\ tr'[t].gss_kex_used = tr[t].gss_kex_used
        /\ tr'[t].out_key = tr[t].out_key /\ tr'[t].in_key = tr[t].in_key
        /\ tr'[t].initial_kex_done = tr[t].initial_kex_done
    BY DEF Calm, CalmFields, Fields
  <1>2. Phase(t)' = Phase(t)
    BY <1>1 DEF Phase
  <1> QED BY <1>1, <1>2

LEMMA CalmCore ==
    ASSUME HandshakeInv, NEW d, NEW e, Calm(d, e)
    PROVE  Core'
  <1> DEFINE off == [t \in Side |-> IF t = "client" THEN d ELSE e]
  <1>1. setup' = setup
    BY DEF Calm
  <1>2. /\ Strict' = Strict /\ Algs' = Algs /\ KeyAlg' = KeyAlg /\ ClientKex' = ClientKex
        /\ \A s : AvailableKeys(s)' = AvailableKeys(s)
        /\ \A s, c : Preferred(s, c)' = Preferred(s, c)
        /\ \A s, c, q : FilterAlgorithm(s, c, q)' = FilterAlgorithm(s, c, q)
    BY <1>1, SetupKept
  <1>3. \A t \in Side :
           /\ tr'[t].expected = tr[t].expected /\ tr'[t].preferred_kex = tr[t].preferred_kex
           /\ tr'[t].made = tr[t].made /\ tr'[t].local_kex_init = tr[t].local_kex_init
           /\ tr'[t].remote_kex_init = tr[t].remote_kex_init /\ tr'[t].agreed = tr[t].agreed
           /\ tr'[t].strict = tr[t].strict /\ tr'[t].H = tr[t].H
           /\ tr'[t].session_id = tr[t].session_id /\ tr'[t].host_key = tr[t].host_key
           /\ tr'[t].gss_kex_used = tr[t].gss_kex_used
           /\ tr'[t].out_key = tr[t].out_key /\ tr'[t].in_key = tr[t].in_key
    BY CalmFacts
  <1>4. \A t \in Side : Phase(t)' = Phase(t)
    BY CalmFacts
  <1>5. /\ Phase("client")' = Phase("client") /\ Phase("server")' = Phase("server")
    BY <1>4, Ends
  <1>6. ASSUME NEW t \in Side, NEW i \in DOMAIN wire'[t],
               wire'[t][i].type \in {KEXINIT, NEWKEYS} \cup EngineTypes
        PROVE  i + off[t] \in DOMAIN wire[t] /\ i \in Int /\ off[t] \in Nat
               /\ wire'[t][i] = wire[t][i + off[t]]
    <2>1. wire'[t][i].type \notin {CLOSED, VERSION, LINE, EXT_INFO}
      BY <1>6, Types
    <2> QED BY <2>1, Ends DEF Calm, Fewer
  <1> HIDE DEF off
  <1>7. PhasesOK'
    BY <1>3, <1>5, Parts, Ends DEF PhasesOK, C, V
  <1>8. KexOK'
    BY <1>3, <1>5, Parts, Ends, ZenonT(90) DEF KexOK, C, V, FirstTypes
  <1>9. OneEngine'
    BY <1>6, Parts, Types DEF OneEngine, IsEngine
  <1>10. EngineToServer'
    <2> DEFINE w == wire'["server"]
    <2> SUFFICES ASSUME NEW i \in DOMAIN w, w[i].type \in EngineTypes
                 PROVE  /\ Phase("client") = 2 /\ Phase("server") \in {1, 2}
                        /\ w[i].type \in ClientSends(C.agreed.kex)
                        /\ C.agreed.kex = "gex" =>
                             \/ w[i].type = GEX_REQUEST
                             \/ w[i].type = GEX_REQUEST_OLD /\ ~Ephemeral(w[i].val)
                             \/ w[i].type = GEX_INIT /\ Phase("server") = 2 /\ V.agreed.kex = "gex"
      BY <1>3, <1>5, Ends DEF EngineToServer, IsEngine, C, V
    <2>1. \E k \in DOMAIN wire["server"] : w[i] = wire["server"][k]
      BY <1>6, Ends
    <2> HIDE DEF w
    <2> QED BY <2>1, Parts DEF EngineToServer, IsEngine
  <1>11. EngineToClient'
    BY <1>1, <1>3, <1>5, <1>6, Parts, Types, Ends DEF EngineToClient, IsEngine, C, V, AnswerOK, Signed, Miced
  <1>12. HashOK' /\ OutOK' /\ HostOK' /\ FirstOK'
    BY <1>1, <1>2, <1>3, <1>5, Parts, Ends DEF HashOK, OutOK, HostOK, FirstOK, C, V
  <1>13. ASSUME NEW s \in Side
         PROVE  /\ ExpectedOK(s)' /\ LocalOK(s)' /\ AgreedOK(s)'
                /\ InitWire(s)' /\ NewkeysWire(s)' /\ KeyOK(s)'
    <2>1. ExpectedOK(s)'
      BY <1>3, <1>4, <1>5, Parts, Ends DEF ExpectedOK, C, V
    <2>2. LocalOK(s)'
      BY <1>1, <1>2, <1>3, Parts, Ends DEF LocalOK, V, ServerKex
    <2>3. AgreedOK(s)'
      BY <1>1, <1>2, <1>3, <1>4, Parts, Ends DEF AgreedOK, V, ServerKex
    <2>4. InitWire(s)'
      BY <1>3, <1>4, <1>6, Parts, Ends, Types DEF InitWire, Once
    <2>5. NewkeysWire(s)'
      BY <1>2, <1>3, <1>4, <1>6, Parts, Ends, Types DEF NewkeysWire, Once, Behind
    <2>6. KeyOK(s)'
      BY <1>3, <1>4, Parts, Ends DEF KeyOK, Behind
    <2> QED BY <2>1, <2>2, <2>3, <2>4, <2>5, <2>6
  <1> QED BY <1>7, <1>8, <1>9, <1>10, <1>11, <1>12, <1>13 DEF Core

\* What is left to show besides Core.
Rest(s) == StageOK(s) /\ ClosedWire(s) /\ StreamOK(s) /\ BannerOK(s)

LEMMA Whole ==
    ASSUME Core', Shape', NEW s \in Side, Rest(s)', Rest(Peer(s))'
    PROVE  HandshakeInv'
  <1>1. \A t \in Side : Rest(t)'
    BY Ends
  <1> QED BY <1>1 DEF Core, HandshakeInv, EndOK, WireOK, Rest

\* The shape of the next state.
LEMMA NewShape ==
    ASSUME Shape, setup' = setup, tr' = [t \in Side |-> tr'[t]], wire' = [t \in Side |-> wire'[t]],
           app' = [t \in Side |-> app'[t]],
           \A t \in Side :
             /\ DOMAIN tr'[t] = Fields /\ IsSeq(wire'[t])
             /\ tr'[t].made \in Nat /\ tr'[t].seqno_in \in Nat /\ tr'[t].seqno_out \in Nat
             /\ tr'[t].strict \in BOOLEAN /\ tr'[t].preferred_kex \in Seq(STRING)
    PROVE  Shape'
  <1>1. \A t \in Side : IsSeq(wire[t])'
    BY DEF IsSeq, Range
  <1> QED BY <1>1 DEF Shape

LEMMA StepShape ==
    ASSUME Shape, NEW s \in Side, Others(s), app' = [t \in Side |-> app'[t]],
           IsSeq(wire'[s]), IsSeq(wire'[Peer(s)]),
           tr'[s].made \in Nat, tr'[s].seqno_in \in Nat, tr'[s].seqno_out \in Nat,
           tr'[s].strict \in BOOLEAN, tr'[s].preferred_kex \in Seq(STRING)
    PROVE  Shape'
  <1>1. \A t \in Side :
          /\ DOMAIN tr'[t] = Fields /\ IsSeq(wire'[t])
          /\ tr'[t].made \in Nat /\ tr'[t].seqno_in \in Nat /\ tr'[t].seqno_out \in Nat
          /\ tr'[t].strict \in BOOLEAN /\ tr'[t].preferred_kex \in Seq(STRING)
    BY Ends, SMTT(60) DEF Others, Shape
  <1> QED BY <1>1, NewShape DEF Others

\* The applications: what they do is no concern of the protocol.
LEMMA AppSteps ==
    ASSUME HandshakeInv,
           StartGivesUp \/ CheckHostKey \/ (\E s \in Side : Waiter(s)) \/ UNCHANGED vars
    PROVE  HandshakeInv'
  <1>1. Shape
    BY Parts
  <1>2. /\ tr' = tr /\ wire' = wire /\ setup' = setup /\ app' = [t \in Side |-> app'[t]]
        /\ \A t \in Side : (app'[t] = "idle") = (app[t] = "idle")
    <2>1. app = [t \in Side |-> app[t]]
      BY <1>1 DEF Shape
    <2>2. CASE StartGivesUp
      BY <2>1, <2>2, Ends DEF StartGivesUp
    <2>3. CASE CheckHostKey
      BY <2>1, <2>3, Ends DEF CheckHostKey
    <2>4. CASE \E s \in Side : Waiter(s)
      BY <2>1, <2>4 DEF Waiter, LookActive, LookEvent
    <2>5. CASE UNCHANGED vars
      BY <2>1, <2>5 DEF vars
    <2> QED BY <2>2, <2>3, <2>4, <2>5
  <1>3. Shape'
    <2>1. \A t \in Side : DOMAIN tr'[t] = Fields /\ IsSeq(wire'[t])
      BY <1>1, <1>2 DEF Shape
    <2> QED BY <1>1, <1>2, <2>1, NewShape DEF Shape
  <1>4. Core'
    <2>1. \A t \in Side : IsSeq(wire[t])
      BY <1>1 DEF Shape
    <2>2. \A t \in Side : \A i \in DOMAIN wire[t] : i \in Int /\ i + 0 = i
      BY <2>1, SeqFacts
    <2>3. Calm(0, 0)
      BY <1>2, <2>2, Ends DEF Calm, Fewer, CalmFields
    <2> QED BY <2>3, CalmCore
  <1>5. ASSUME NEW t \in Side PROVE Rest(t)'
    <2>1. StageOK(t) /\ ClosedWire(t) /\ StreamOK(t) /\ BannerOK(t)
      BY Parts
    <2>2. Phase(t)' = Phase(t) /\ Strict' = Strict
      BY <1>2 DEF Phase, Strict
    <2>3. StageOK(t)' /\ ClosedWire(t)'
      BY <1>2, <2>1, <2>2, Ends DEF StageOK, ClosedWire
    <2>4. StreamOK(t)' /\ BannerOK(t)'
      BY <1>2, <2>1, <2>2, Ends DEF StreamOK, BannerOK
    <2> QED BY <2>3, <2>4 DEF Rest
  <1> QED BY <1>3, <1>4, <1>5, Whole, Ends

LEMMA StallStep ==
    ASSUME HandshakeInv, NEW s \in Side, Stall(s)
    PROVE  HandshakeInv'
  <1> DEFINE p == Peer(s)
  <1>1. Shape /\ p \in Side /\ Peer(p) = s
    BY Parts, Ends
  <1>2. /\ wire' = wire /\ setup' = setup /\ app' = app /\ tr[s].active
        /\ tr' = [tr EXCEPT ![s].stage = "stalled"]
    BY DEF Stall
  <1>3. /\ tr'[p] = tr[p] /\ tr'[s].stage = "stalled" /\ DOMAIN tr'[s] = Fields
        /\ \A f \in Fields \ {"stage"} : tr'[s][f] = tr[s][f]
        /\ tr' = [t \in Side |-> tr'[t]]
    <2> DEFINE T == [tr[s] EXCEPT !.stage = "stalled"]
    <2>1. T.stage = "stalled" /\ DOMAIN T = Fields /\ \A f \in Fields \ {"stage"} : T[f] = tr[s][f]
      BY <1>1 DEF Shape, Fields
    <2>2. tr' = [tr EXCEPT ![s] = T] /\ tr = [t \in Side |-> tr[t]]
      BY <1>1, <1>2 DEF Shape
    <2> HIDE DEF T
    <2> QED BY <2>1, <2>2, Ends
  <1>4. Shape'
    <2>1. /\ tr'[s].made = tr[s].made /\ tr'[s].seqno_in = tr[s].seqno_in
          /\ tr'[s].seqno_out = tr[s].seqno_out /\ tr'[s].strict = tr[s].strict
          /\ tr'[s].preferred_kex = tr[s].preferred_kex
      BY <1>3 DEF Fields
    <2>2. Others(s)
      BY <1>1, <1>2, <1>3 DEF Others, Shape
    <2>3. IsSeq(wire'[s]) /\ IsSeq(wire'[p])
      BY <1>1, <1>2 DEF Shape
    <2> QED BY <1>1, <1>2, <2>1, <2>2, <2>3, StepShape DEF Shape
  <1>5. Calm(0, 0)
    <2>1. \A t \in Side : \A i \in DOMAIN wire[t] : i \in Int /\ i + 0 = i
      BY <1>1, SeqFacts DEF Shape
    <2>2. \A t \in Side : \A f \in CalmFields : tr'[t][f] = tr[t][f]
      BY <1>3, Ends DEF CalmFields
    <2> QED BY <1>2, <2>1, <2>2, Ends DEF Calm, Fewer
  <1>6. Core' /\ Phase(p)' = Phase(p) /\ Strict' = Strict
    BY <1>1, <1>2, <1>5, CalmCore, CalmFacts, SetupKept
  <1>7. Rest(s) /\ Rest(p)
    BY <1>1, Parts DEF Rest
  <1>8. app[s] # "idle"
    BY <1>2, ActiveFacts
  <1>9. tr'[s].seqno_out = tr[s].seqno_out /\ tr'[s].out_key = tr[s].out_key /\ tr'[s].active = tr[s].active
    BY <1>3 DEF Fields
  <1>10. Rest(s)'
    BY <1>1, <1>2, <1>3, <1>7, <1>8 DEF Rest, StageOK, ClosedWire, StreamOK, BannerOK
  <1>11. Rest(p)'
    <2>1. StageOK(p)'
      BY <1>2, <1>3, <1>6, <1>7 DEF Rest, StageOK
    <2>2. ClosedWire(p)' /\ BannerOK(p)'
      BY <1>1, <1>2, <1>3, <1>7, <1>9, ZenonT(90) DEF Rest, ClosedWire, BannerOK
    <2>3. StreamOK(p)'
      <3>1. tr[p].stage = "loop" =>
              /\ app[s] # "idle"
              /\ Stream(wire[p], tr[p].in_key, tr[p].seqno_in, tr[s].out_key, tr[s].seqno_out,
                        Strict, tr[s].active)
        BY <1>1, <1>7 DEF Rest, StreamOK
      <3> QED BY <1>1, <1>2, <1>3, <1>6, <1>9, <3>1 DEF StreamOK
    <2> QED BY <2>1, <2>2, <2>3 DEF Rest
  <1> QED BY <1>4, <1>6, <1>10, <1>11, Whole

\* The other end's stage, when s does something.
LEMMA OtherStage ==
    ASSUME HandshakeInv, NEW s \in Side, Others(s), app'[Peer(s)] = app[Peer(s)]
    PROVE  StageOK(Peer(s))' /\ Phase(Peer(s))' = Phase(Peer(s))
  <1>1. StageOK(Peer(s)) /\ tr'[Peer(s)] = tr[Peer(s)]
    BY Parts, Ends DEF Others
  <1>2. Phase(Peer(s))' = Phase(Peer(s))
    BY <1>1 DEF Phase
  <1> QED BY <1>1, <1>2 DEF StageOK

\* A connection is closed behind what was sent before.
LEMMA CloseStream ==
    ASSUME NEW q, NEW r, NEW n \in Nat, Len(q) = n, DOMAIN q = 1 .. n, Len(r) = n + 1,
           DOMAIN r = 1 .. (n + 1), \A i \in 1 .. n : r[i] = q[i], r[n + 1].type = CLOSED
    PROVE  /\ \A in, nin, out, nout, strict, open :
                Stream(q, in, nin, out, nout, strict, open) =>
                  Stream(r, in, nin, out, nout, strict, FALSE)
           /\ \A nout, open : Banner(q, nout, open) => Banner(r, nout, FALSE)
  <1>1. ASSUME NEW in, NEW nin, NEW out, NEW nout, NEW strict, NEW open,
               Stream(q, in, nin, out, nout, strict, open)
        PROVE  Stream(r, in, nin, out, nout, strict, FALSE)
    <2>1. ASSUME NEW i \in DOMAIN r
          PROVE  /\ r[i].type \notin BannerTypes
                 /\ r[i].type # CLOSED => Fits(r, in, nin, out, strict, i, r[i].key, r[i].seq)
      <3>1. CASE i = n + 1
        BY <3>1, Types
      <3>2. CASE i # n + 1
        <4>1. i \in 1 .. n /\ r[i] = q[i] /\ \A j \in 1 .. (i - 1) : r[j] = q[j]
          BY <3>2
        <4>2. /\ r[i].type \notin BannerTypes
              /\ r[i].type # CLOSED => Fits(q, in, nin, out, strict, i, r[i].key, r[i].seq)
          BY <1>1, <4>1 DEF Stream
        <4> QED BY <4>1, <4>2 DEF Fits
      <3> QED BY <3>1, <3>2
    <2> QED BY <2>1 DEF Stream
  <1>2. ASSUME NEW nout, NEW open, Banner(q, nout, open)
        PROVE  Banner(r, nout, FALSE)
    <2> SUFFICES ASSUME NEW i \in DOMAIN r, r[i].type = VERSION, NEW j \in DOMAIN r, j > i
                 PROVE  /\ r[j].type \notin BannerTypes
                        /\ r[j].type # CLOSED => r[j].key = NoKeys /\ r[j].seq = j - i - 1
      BY DEF Banner
    <2>1. CASE j = n + 1
      BY <2>1, Types
    <2>2. CASE j # n + 1
      <3>1. i \in DOMAIN q /\ j \in DOMAIN q /\ r[i] = q[i] /\ r[j] = q[j]
        BY <2>2
      <3> QED BY <1>2, <3>1 DEF Banner
    <2> QED BY <2>1, <2>2
  <1> QED BY <1>1, <1>2

\* An end that raises has gone, and says so with the closing of its connection.
LEMMA RaisesStep ==
    ASSUME HandshakeInv, NEW s \in Side, tr[s].active, NEW why, Raises(s, why)
    PROVE  HandshakeInv'
  <1> DEFINE p == Peer(s)
             q == wire[p]
             r == wire'[p]
             closed == [type |-> CLOSED, val |-> why, seq |-> 0, key |-> NoKeys]
  <1>1. Shape /\ p \in Side /\ Peer(p) = s /\ p # s
    BY Parts, Ends
  <1>2. /\ tr'[p] = tr[p] /\ tr' = [t \in Side |-> tr'[t]] /\ DOMAIN tr'[s] = Fields
        /\ tr'[s].active = FALSE /\ tr'[s].stage = "down"
        /\ \A f \in Fields \ {"active", "stage", "event", "saved_exception"} : tr'[s][f] = tr[s][f]
    <2> DEFINE T == [tr[s] EXCEPT !.active = FALSE, !.stage = "down", !.event = TRUE,
                                  !.saved_exception = why]
    <2>1. /\ T.active = FALSE /\ T.stage = "down" /\ DOMAIN T = Fields
          /\ \A f \in Fields \ {"active", "stage", "event", "saved_exception"} : T[f] = tr[s][f]
      BY <1>1 DEF Shape, Fields
    <2>2. tr' = [tr EXCEPT ![s] = T] /\ tr = [t \in Side |-> tr[t]]
      BY <1>1 DEF Shape, Raises
    <2> HIDE DEF T
    <2> QED BY <2>1, <2>2, Ends
  <1>3. /\ wire' = [t \in Side |-> wire'[t]] /\ wire'[s] = <<>> /\ r = Append(q, closed)
        /\ setup' = setup /\ app' = app
    BY <1>1, Ends, ZenonT(90) DEF Raises, Shape
  <1>4. IsSeq(q)
    BY <1>1 DEF Shape
  <1>5. /\ IsSeq(r) /\ Len(q) \in Nat /\ DOMAIN q = 1 .. Len(q) /\ Len(r) = Len(q) + 1
        /\ DOMAIN r = 1 .. (Len(q) + 1) /\ r[Len(q) + 1] = closed
        /\ \A i \in 1 .. Len(q) : r[i] = q[i]
    <2> DEFINE X == Range(q) \cup {closed}
    <2>1. q \in Seq(X) /\ closed \in X
      BY <1>4 DEF IsSeq
    <2> HIDE DEF X, closed, q, r
    <2>2. /\ r \in Seq(X) /\ Len(q) \in Nat /\ DOMAIN q = 1 .. Len(q) /\ Len(r) = Len(q) + 1
          /\ DOMAIN r = 1 .. (Len(q) + 1) /\ r[Len(q) + 1] = closed
          /\ \A i \in 1 .. Len(q) : r[i] = q[i]
      BY <1>3, <2>1
    <2> QED BY <2>2, SeqIsSeq
  <1>6. Others(s)
    BY <1>2, <1>3 DEF Others
  <1>7. Shape'
    <2>1. /\ tr'[s].made = tr[s].made /\ tr'[s].seqno_in = tr[s].seqno_in
          /\ tr'[s].seqno_out = tr[s].seqno_out /\ tr'[s].strict = tr[s].strict
          /\ tr'[s].preferred_kex = tr[s].preferred_kex
      BY <1>2 DEF Fields
    <2>2. IsSeq(wire'[s]) /\ IsSeq(wire'[p])
      BY <1>3, <1>5, EmptyIsSeq
    <2> QED BY <1>1, <1>3, <1>6, <2>1, <2>2, StepShape DEF Shape
  <1>8. Core'
    <2>1. Fewer(s, 0)
      BY <1>3 DEF Fewer
    <2>2. Fewer(p, 0)
      <3>1. \A i \in DOMAIN r : \/ r[i].type = CLOSED
                                \/ i \in DOMAIN q /\ i \in Int /\ i + 0 = i /\ r[i] = q[i]
        BY <1>5
      <3> QED BY <3>1 DEF Fewer
    <2>3. \A t \in Side : \A f \in CalmFields : tr'[t][f] = tr[t][f]
      BY <1>2, Ends DEF CalmFields
    <2>4. Calm(0, 0)
      BY <1>3, <2>1, <2>2, <2>3, Ends DEF Calm
    <2> QED BY <2>4, CalmCore
  <1>9. app[s] # "idle" /\ \A i \in DOMAIN q : q[i].type # CLOSED
    BY ActiveFacts
  <1>10. Rest(s)'
    <2>1. StageOK(s)'
      BY <1>2, <1>3, <1>9 DEF StageOK
    <2>2. ClosedWire(s)' /\ StreamOK(s)' /\ BannerOK(s)'
      BY <1>2, <1>3 DEF ClosedWire, StreamOK, BannerOK
    <2> QED BY <2>1, <2>2 DEF Rest
  <1>11. Rest(p)'
    <2>1. StageOK(p)'
      BY <1>3, <1>6, OtherStage
    <2>2. ClosedWire(p)'
      BY <1>1, <1>2, <1>3, <1>5, <1>9 DEF ClosedWire
    <2>3. /\ tr'[s].out_key = tr[s].out_key /\ tr'[s].seqno_out = tr[s].seqno_out
          /\ Strict' = Strict
      BY <1>2, <1>3, SetupKept DEF Fields
    <2>4. r[Len(q) + 1].type = CLOSED
      BY <1>5
    <2>5. /\ \A in, nin, out, nout, strict, open :
                Stream(q, in, nin, out, nout, strict, open) =>
                  Stream(r, in, nin, out, nout, strict, FALSE)
          /\ \A nout, open : Banner(q, nout, open) => Banner(r, nout, FALSE)
      <3> HIDE DEF q, r, p, closed
      <3> QED BY <1>5, <2>4, CloseStream
    <2>6. StreamOK(p)'
      <3> SUFFICES ASSUME tr[p].stage = "loop"
                   PROVE  /\ app[s] # "idle"
                          /\ Stream(r, tr[p].in_key, tr[p].seqno_in, tr[s].out_key, tr[s].seqno_out,
                                    Strict, FALSE)
        BY <1>1, <1>2, <1>3, <2>3 DEF StreamOK
      <3>1. Stream(q, tr[p].in_key, tr[p].seqno_in, tr[s].out_key, tr[s].seqno_out, Strict,
                   tr[s].active)
        BY <1>1, Parts DEF StreamOK
      <3> QED BY <1>9, <2>5, <3>1
    <2>7. BannerOK(p)'
      BY <1>1, <1>2, <1>3, <1>9, <2>3, <2>5, Parts, ZenonT(90) DEF BannerOK
    <2> QED BY <2>1, <2>2, <2>6, <2>7 DEF Rest
  <1> QED BY <1>7, <1>8, <1>10, <1>11, Whole

\* An end starts: its lines and its version are the first it sends.
LEMMA StartStep ==
    ASSUME HandshakeInv, NEW s \in Side, StartThread(s)
    PROVE  HandshakeInv'
  <1> DEFINE p == Peer(s)
             n == setup.lines[s] + 1
             pk == [i \in 1..n |->
                     [type |-> IF i <= setup.lines[s] THEN LINE ELSE VERSION,
                      val |-> setup.version[s], seq |-> 0, key |-> NoKeys]]
             r == wire'[p]
  <1>1. Shape /\ p \in Side /\ Peer(p) = s /\ p # s /\ setup \in Setups
    BY Parts, Ends DEF Shape
  <1>2. app[s] = "idle" /\ tr[s].stage = "new" /\ wire[p] = <<>> /\ tr[p].stage # "loop"
    BY <1>1, Parts DEF StartThread, StageOK, BannerOK, StreamOK
  <1>3. /\ tr'[p] = tr[p] /\ tr' = [t \in Side |-> tr'[t]] /\ DOMAIN tr'[s] = Fields
        /\ tr'[s].active = TRUE /\ tr'[s].stage = "banner"
        /\ \A f \in Fields \ {"active", "stage"} : tr'[s][f] = tr[s][f]
    <2> DEFINE T == [tr[s] EXCEPT !.active = TRUE, !.stage = "banner"]
    <2>1. /\ T.active = TRUE /\ T.stage = "banner" /\ DOMAIN T = Fields
          /\ \A f \in Fields \ {"active", "stage"} : T[f] = tr[s][f]
      BY <1>1 DEF Shape, Fields
    <2>2. tr' = [tr EXCEPT ![s] = T] /\ tr = [t \in Side |-> tr[t]]
      BY <1>1 DEF Shape, StartThread
    <2> HIDE DEF T
    <2> QED BY <2>1, <2>2, Ends
  <1>4. /\ wire' = [t \in Side |-> wire'[t]] /\ wire'[s] = wire[s] /\ r = wire[p] \o pk
        /\ setup' = setup /\ app' = [app EXCEPT ![s] = "waiting"]
    BY <1>1, Ends, ZenonT(90) DEF StartThread, Shape
  <1>5. app' = [t \in Side |-> app'[t]] /\ app'[s] = "waiting" /\ app'[p] = app[p]
    BY <1>1, <1>4 DEF Shape
  <1>6. n \in Nat /\ n >= 1 /\ setup.lines[s] = n - 1
    BY <1>1, SetupFacts
  <1>7. /\ IsSeq(pk) /\ Len(pk) = n
        /\ \A i \in 1 .. n : pk[i].type \in {LINE, VERSION} /\ (pk[i].type = VERSION => i = n)
    <2>1. pk = [i \in 1 .. n |-> pk[i]]
      OBVIOUS
    <2>2. ASSUME NEW i \in 1 .. n
          PROVE  pk[i].type = IF i <= setup.lines[s] THEN LINE ELSE VERSION
      OBVIOUS
    <2> HIDE DEF pk
    <2>3. IsSeq(pk) /\ Len(pk) = n
      BY <1>6, <2>1, FunctionIsSeq
    <2> QED BY <1>6, <2>2, <2>3, Types
  <1> HIDE DEF pk
  <1>8. /\ IsSeq(r) /\ Len(r) = n /\ DOMAIN r = 1 .. n
        /\ \A i \in 1 .. n : r[i].type \in {LINE, VERSION} /\ (r[i].type = VERSION => i = n)
    <2>1. IsSeq(wire[p]) /\ r = wire[p] \o pk /\ Len(wire[p]) = 0
      BY <1>2, <1>4, EmptyIsSeq
    <2>2. Sends(s, pk)
      BY <1>4 DEF Sends
    <2> HIDE DEF n
    <2>3. /\ IsSeq(r) /\ Len(r) = Len(wire[p]) + n /\ DOMAIN r = 1 .. Len(r)
          /\ \A k \in 1 .. n : r[Len(wire[p]) + k] = pk[k]
      BY <1>1, <1>7, <2>2, SendFacts, ZenonT(90)
    <2>4. IsSeq(r) /\ Len(r) = n /\ DOMAIN r = 1 .. n /\ \A k \in 1 .. n : r[k] = pk[k]
      <3>1. \A k \in 1 .. n : 0 + k = k
        OBVIOUS
      <3>2. n \in Nat
        BY <1>6 DEF n
      <3> QED BY <2>1, <2>3, <3>1, <3>2
    <2> QED BY <1>7, <2>4
  <1>9. Others(s)
    BY <1>3, <1>4 DEF Others
  <1>10. Shape'
    <2>1. /\ tr'[s].made = tr[s].made /\ tr'[s].seqno_in = tr[s].seqno_in
          /\ tr'[s].seqno_out = tr[s].seqno_out /\ tr'[s].strict = tr[s].strict
          /\ tr'[s].preferred_kex = tr[s].preferred_kex
      BY <1>3 DEF Fields
    <2>2. IsSeq(wire'[s]) /\ IsSeq(wire'[p])
      BY <1>1, <1>4, <1>8 DEF Shape
    <2> QED BY <1>1, <1>5, <1>9, <2>1, <2>2, StepShape DEF Shape
  <1>11. Calm(0, 0)
    <2>1. Fewer(s, 0)
      <3>1. \A i \in DOMAIN wire[s] : i \in Int /\ i + 0 = i
        BY <1>1, SeqFacts DEF Shape
      <3> QED BY <1>4, <3>1 DEF Fewer
    <2>2. Fewer(p, 0)
      BY <1>8 DEF Fewer
    <2>3. \A t \in Side : \A f \in CalmFields : tr'[t][f] = tr[t][f]
      BY <1>3, Ends DEF CalmFields
    <2> QED BY <1>4, <2>1, <2>2, <2>3, Ends DEF Calm
  <1>12. Core'
    BY <1>11, CalmCore
  <1>13. /\ tr'[s].out_key = tr[s].out_key /\ tr'[s].in_key = tr[s].in_key
         /\ tr'[s].seqno_out = tr[s].seqno_out /\ tr'[s].seqno_in = tr[s].seqno_in
         /\ tr'[s].made = tr[s].made /\ tr'[s].initial_kex_done = tr[s].initial_kex_done
         /\ Phase(s)' = Phase(s)
    BY <1>3, <1>11, CalmFacts DEF Fields
  <1>14. Rest(s)'
    <2>1. StageOK(s)'
      BY <1>2, <1>3, <1>5, <1>13, Parts DEF StageOK
    <2>2. ClosedWire(s)' /\ StreamOK(s)'
      BY <1>1, <1>3, <1>4, <1>5, Parts DEF ClosedWire, StreamOK
    <2>3. BannerOK(s)'
      BY <1>1, <1>2, <1>3, <1>4, <1>5, Parts DEF BannerOK
    <2> QED BY <2>1, <2>2, <2>3 DEF Rest
  <1>15. Rest(p)'
    <2>1. StageOK(p)'
      BY <1>5, <1>9, OtherStage
    <2>2. ClosedWire(p)'
      BY <1>8, Types DEF ClosedWire
    <2>3. StreamOK(p)'
      BY <1>2, <1>3 DEF StreamOK
    <2>4. tr[s].seqno_out = 0
      BY <1>2, Parts DEF StageOK
    <2>5. Banner(r, 0, TRUE)
      <3> HIDE DEF r, n
      <3>1. n \in Nat
        BY <1>6 DEF n
      <3> QED BY <1>8, <3>1 DEF Banner
    <2>6. BannerOK(p)'
      BY <1>1, <1>3, <1>5, <1>13, <2>4, <2>5 DEF BannerOK
    <2> QED BY <2>1, <2>2, <2>3, <2>6 DEF Rest
  <1> QED BY <1>10, <1>12, <1>14, <1>15, Whole

\* An end reads and sends nothing.
LEMMA NothingSent ==
    ASSUME Shape, NEW s \in Side, Wires(s, <<>>)
    PROVE  /\ Sends(s, <<>>) /\ PlainPackets(s, <<>>) /\ wire'[Peer(s)] = wire[Peer(s)]
           /\ Fewer(Peer(s), 0) /\ Fewer(s, 1) /\ IsSeq(wire'[s]) /\ IsSeq(wire'[Peer(s)])
           /\ IsSeq(<<>>) /\ Len(<<>>) = 0
  <1> DEFINE q == wire[Peer(s)]
  <1>1. IsSeq(q)
    BY Ends DEF Shape
  <1>2. q \o <<>> = q
    <2> HIDE DEF q
    <2> QED BY <1>1 DEF IsSeq
  <1>3. wire'[Peer(s)] = q
    BY <1>2 DEF Wires
  <1>4. \A i \in DOMAIN q : i \in Int /\ i + 0 = i
    <2> HIDE DEF q
    <2> QED BY <1>1, SeqFacts
  <1>5. /\ IsSeq(wire'[s]) /\ DOMAIN wire'[s] = 1 .. (Len(wire[s]) - 1)
        /\ \A i \in DOMAIN wire'[s] : i + 1 \in DOMAIN wire[s] /\ wire'[s][i] = wire[s][i + 1]
    BY ReadFacts DEF Wires
  <1>6. Fewer(s, 1)
    BY <1>5 DEF Fewer
  <1> QED BY <1>1, <1>3, <1>4, <1>5, <1>6, EmptyIsSeq DEF Fewer, Sends, Wires, PlainPackets

\* A line before the version line.
LEMMA LineStep ==
    ASSUME HandshakeInv, NEW s \in Side, tr[s].active, tr[s].stage = "banner", wire[s] # <<>>,
           Leaves(s, [tr[s] EXCEPT !.lines = @ + 1], <<>>)
    PROVE  HandshakeInv'
  <1> DEFINE p == Peer(s)
             T == [tr[s] EXCEPT !.lines = @ + 1]
  <1>1. Shape /\ p \in Side /\ Peer(p) = s
    BY Parts, Ends
  <1>2. DOMAIN T = Fields /\ \A f \in Fields \ {"lines"} : T[f] = tr[s][f]
    BY <1>1 DEF Shape
  <1> HIDE DEF T
  <1>3. Others(s) /\ Wires(s, <<>>) /\ tr'[s] = T /\ app' = app
    BY <1>1, <1>2, LeavesFacts DEF T
  <1>4. /\ tr'[s].made = tr[s].made /\ tr'[s].seqno_in = tr[s].seqno_in
        /\ tr'[s].seqno_out = tr[s].seqno_out /\ tr'[s].strict = tr[s].strict
        /\ tr'[s].preferred_kex = tr[s].preferred_kex /\ tr'[s].stage = "banner"
        /\ tr'[s].active = tr[s].active /\ tr'[s].initial_kex_done = tr[s].initial_kex_done
        /\ tr'[s].in_key = tr[s].in_key /\ tr'[s].out_key = tr[s].out_key
    BY <1>2, <1>3 DEF Fields
  <1>5. /\ Sends(s, <<>>) /\ PlainPackets(s, <<>>) /\ Fewer(p, 0) /\ Fewer(s, 1)
        /\ IsSeq(wire'[s]) /\ IsSeq(wire'[p]) /\ IsSeq(<<>>) /\ Len(<<>>) = 0
    BY <1>1, <1>3, NothingSent
  <1>6. Shape'
    BY <1>1, <1>3, <1>4, <1>5, StepShape DEF Shape
  <1>7. Core' /\ Phase(s)' = Phase(s)
    <2>1. \A t \in Side : \A f \in CalmFields : tr'[t][f] = tr[t][f]
      BY <1>2, <1>3, Ends DEF CalmFields, Others
    <2>2. s = "client" => Calm(1, 0)
      BY <1>3, <1>5, <2>1 DEF Calm, Others, Peer
    <2>3. s = "server" => Calm(0, 1)
      BY <1>3, <1>5, <2>1 DEF Calm, Others, Peer
    <2> QED BY <2>2, <2>3, CalmCore, CalmFacts, Ends
  <1>8. Rest(p)'
    <2>1. tr'[s].seqno_out = tr[s].seqno_out + Len(<<>>)
      BY <1>1, <1>4, <1>5 DEF Shape
    <2>2. StreamOK(p)' /\ BannerOK(p)' /\ ClosedWire(p)'
      BY <1>3, <1>4, <1>5, <2>1, SendOK
    <2> QED BY <1>3, <2>2, OtherStage DEF Rest
  <1>9. Rest(s)'
    <2>1. StageOK(s)'
      BY <1>3, <1>4, <1>7, Parts DEF StageOK
    <2>2. ClosedWire(s)'
      BY <1>3, TailClosed DEF Wires
    <2>3. StreamOK(s)'
      BY <1>4 DEF StreamOK
    <2>4. BannerOK(s)'
      <3> DEFINE q == wire[s]
                 r == wire'[s]
                 n == Len(wire[s])
      <3>1. /\ n \in Nat /\ n >= 1 /\ DOMAIN q = 1 .. n /\ Len(r) = n - 1 /\ DOMAIN r = 1 .. (n - 1)
            /\ \A i \in DOMAIN r : r[i] = q[i + 1]
        BY <1>1, <1>3, ReadFacts DEF Wires
      <3>2. Banner(q, tr[p].seqno_out, tr[p].active) /\ app[p] # "idle"
        BY Parts DEF BannerOK
      <3>3. Banner(r, tr[p].seqno_out, tr[p].active)
        <4>1. Len(q) = n
          OBVIOUS
        <4> HIDE DEF p, q, r, n
        <4> QED BY <3>1, <3>2, <4>1, ReadBanner
      <3> QED BY <1>3, <3>2, <3>3 DEF BannerOK, Others
    <2> QED BY <2>1, <2>2, <2>3, <2>4 DEF Rest
  <1> QED BY <1>6, <1>7, <1>8, <1>9, Whole
-----------------------------------------------------------------------------
(* What an end can be reading *)

\* What the engines expect.
LEMMA EngineExpects ==
    ASSUME NEW s \in Side, NEW kex \in Kex, NEW E,
           E = FirstTypes(s, kex) \/ E \in LaterTypes(s, kex)
    PROVE  /\ E # {} /\ E \subseteq EngineTypes
           /\ s = "client" =>
                /\ kex \in {"group", "ecdh"} => E = {31}
                /\ kex = "gex" => E = {31} \/ E = {33}
                /\ kex = "gss" => E = {31, 32, 33, 34}
                /\ kex = "gss_gex" => E = {41} \/ E = {31, 32, 33, 34}
           /\ s = "server" =>
                /\ kex \in {"group", "ecdh"} => E = {30}
                /\ kex = "gex" => E = {30, 34} \/ E = {32}
                /\ kex = "gss" => E = {30} \/ E = {31, 32, 34}
                /\ kex = "gss_gex" => E = {40} \/ E = {30} \/ E = {31, 32, 34}
  <1> USE DEF KEXDH_INIT, KEXDH_REPLY, GEX_REQUEST, GEX_REQUEST_OLD, GEX_GROUP, GEX_INIT, GEX_REPLY,
              KEXGSS_INIT, KEXGSS_CONTINUE, KEXGSS_COMPLETE, KEXGSS_HOSTKEY, KEXGSS_ERROR,
              KEXGSS_GROUPREQ, KEXGSS_GROUP
  <1>1. s = "client" =>
          /\ kex \in {"group", "ecdh"} => E = {31}
          /\ kex = "gex" => E = {31} \/ E = {33}
          /\ kex = "gss" => E = {31, 32, 33, 34}
          /\ kex = "gss_gex" => E = {41} \/ E = {31, 32, 33, 34}
    BY DEF FirstTypes, LaterTypes, AnswersToInit
  <1>2. s = "server" =>
          /\ kex \in {"group", "ecdh"} => E = {30}
          /\ kex = "gex" => E = {30, 34} \/ E = {32}
          /\ kex = "gss" => E = {30} \/ E = {31, 32, 34}
          /\ kex = "gss_gex" => E = {40} \/ E = {30} \/ E = {31, 32, 34}
    BY DEF FirstTypes, LaterTypes, Further
  <1>3. s \in {"client", "server"} /\ kex \in {"group", "ecdh", "gex", "gss", "gss_gex"}
    BY DEF Side, Kex
  <1>4. E # {} /\ E \subseteq {30, 31, 32, 33, 34, 40, 41}
    BY <1>1, <1>2, <1>3
  <1> QED BY <1>1, <1>2, <1>4, Types

\* An engine's messages are expected in phase 2 only, and so on.
LEMMA ExpectedFacts ==
    ASSUME HandshakeInv, NEW s \in Side
    PROVE  /\ Phase(s) \in {0, 1, 2, 3} /\ EXT_INFO \notin tr[s].expected
           /\ Phase(s) = 0 => tr[s].expected = {}
           /\ Phase(s) = 1 => tr[s].expected \subseteq {KEXINIT}
           /\ Phase(s) = 2 => tr[s].expected # {} /\ tr[s].expected \subseteq EngineTypes
           /\ Phase(s) = 3 => tr[s].expected = {NEWKEYS}
  <1>1. ExpectedOK(s) /\ AgreedOK(s)
    BY Parts
  <1>2. Phase(s) \in {0, 1, 2, 3}
    BY DEF Phase
  <1>3. Phase(s) = 2 => tr[s].expected # {} /\ tr[s].expected \subseteq EngineTypes
    <2> SUFFICES ASSUME Phase(s) = 2
                 PROVE  tr[s].expected # {} /\ tr[s].expected \subseteq EngineTypes
      OBVIOUS
    <2>1. tr[s].agreed.kex \in Kex
      BY <1>1 DEF AgreedOK
    <2>2. \/ tr[s].expected = FirstTypes(s, tr[s].agreed.kex)
          \/ tr[s].expected \in LaterTypes(s, tr[s].agreed.kex)
      BY <1>1 DEF ExpectedOK
    <2> QED BY <2>1, <2>2, EngineExpects
  <1>4. /\ Phase(s) = 0 => tr[s].expected = {}
        /\ Phase(s) = 1 => tr[s].expected \subseteq {KEXINIT}
        /\ Phase(s) = 3 => tr[s].expected = {NEWKEYS}
    BY <1>1 DEF ExpectedOK
  <1> QED BY <1>2, <1>3, <1>4, Types

\* The phases the two ends can be in.
LEMMA PhasePairs ==
    ASSUME HandshakeInv, NEW s \in Side
    PROVE  LET a == Phase(s)
               b == Phase(Peer(s))
           IN  /\ a = 0 => \/ b \in {0, 3} /\ tr[Peer(s)].made = tr[s].made
                           \/ b = 1 /\ tr[Peer(s)].made = tr[s].made + 1
               /\ a = 1 => \/ b \in {1, 2} /\ tr[Peer(s)].made = tr[s].made
                           \/ b \in {0, 3} /\ tr[s].made = tr[Peer(s)].made + 1
               /\ a = 2 => b \in {1, 2, 3} /\ tr[Peer(s)].made = tr[s].made
               /\ a = 2 /\ s = "server" => b \in {1, 2}
               /\ a = 3 => \/ b \in {0, 2, 3} /\ tr[Peer(s)].made = tr[s].made
                           \/ b = 1 /\ tr[Peer(s)].made = tr[s].made + 1
               /\ a = 3 /\ s = "client" => b \in {0, 1, 3}
  <1>1. PhasesOK
    BY Parts
  <1>2. \A t \in Side : Phase(t) \in {0, 1, 2, 3}
    BY ExpectedFacts
  <1>3. CASE s = "client"
    <2> DEFINE a == Phase("client")
               b == Phase("server")
    <2>1. \/ <<a, b>> \in SamePairs /\ C.made = V.made
          \/ a = 1 /\ b \in {0, 3} /\ C.made = V.made + 1
          \/ b = 1 /\ a \in {0, 3} /\ V.made = C.made + 1
      BY <1>1 DEF PhasesOK
    <2> HIDE DEF a, b
    <2>3. <<a, b>> \in SamePairs =>
            /\ a = 0 => b \in {0, 3}
            /\ a = 1 => b \in {1, 2}
            /\ a = 2 => b \in {1, 2, 3}
            /\ a = 3 => b \in {0, 3}
      BY DEF SamePairs
    <2>2. /\ a = 0 => (b \in {0, 3} /\ V.made = C.made) \/ (b = 1 /\ V.made = C.made + 1)
          /\ a = 1 => (b \in {1, 2} /\ V.made = C.made) \/ (b \in {0, 3} /\ C.made = V.made + 1)
          /\ a = 2 => b \in {1, 2, 3} /\ V.made = C.made
          /\ a = 3 => (b \in {0, 3} /\ V.made = C.made) \/ (b = 1 /\ V.made = C.made + 1)
      BY <2>1, <2>3
    <2> QED BY <1>3, <2>2 DEF a, b, C, V, Peer
  <1>4. CASE s = "server"
    <2> DEFINE a == Phase("client")
               b == Phase("server")
    <2>1. \/ <<a, b>> \in SamePairs /\ C.made = V.made
          \/ a = 1 /\ b \in {0, 3} /\ C.made = V.made + 1
          \/ b = 1 /\ a \in {0, 3} /\ V.made = C.made + 1
      BY <1>1 DEF PhasesOK
    <2> HIDE DEF a, b
    <2>3. <<a, b>> \in SamePairs =>
            /\ b = 0 => a \in {0, 3}
            /\ b = 1 => a \in {1, 2}
            /\ b = 2 => a \in {1, 2}
            /\ b = 3 => a \in {0, 2, 3}
      BY DEF SamePairs
    <2>2. /\ b = 0 => (a \in {0, 3} /\ V.made = C.made) \/ (a = 1 /\ C.made = V.made + 1)
          /\ b = 1 => (a \in {1, 2} /\ V.made = C.made) \/ (a \in {0, 3} /\ V.made = C.made + 1)
          /\ b = 2 => a \in {1, 2} /\ V.made = C.made
          /\ b = 3 => (a \in {0, 2, 3} /\ V.made = C.made) \/ (a = 1 /\ C.made = V.made + 1)
      BY <2>1, <2>3
    <2> QED BY <1>4, <2>2 DEF a, b, C, V, Peer
  <1> QED BY <1>3, <1>4, Ends

\* s reads in its loop.
LEMMA TakesFacts ==
    ASSUME HandshakeInv, NEW s \in Side, NEW type, Takes(s, type)
    PROVE  /\ tr[s].active /\ tr[s].stage = "loop" /\ wire[s] # <<>>
           /\ Read(s) = wire[s][1] /\ 1 \in DOMAIN wire[s] /\ wire[s][1].type = type
           /\ tr[s].expected = {} \/ type \in tr[s].expected
           /\ app[Peer(s)] # "idle" /\ app[s] # "idle"
  <1>1. Shape /\ StreamOK(s)
    BY Parts
  <1>2. /\ tr[s].active /\ tr[s].stage = "loop" /\ wire[s] # <<>> /\ Read(s).type = type
        /\ tr[s].expected = {} \/ type \in tr[s].expected
    BY DEF Takes, Running
  <1>3. Read(s) = wire[s][1] /\ 1 \in DOMAIN wire[s]
    <2> DEFINE q == wire[s]
    <2>1. IsSeq(q) /\ q # <<>> /\ Read(s) = Head(q)
      BY <1>1, <1>2 DEF Shape, Read
    <2> HIDE DEF q
    <2>2. Head(q) = q[1] /\ 1 \in DOMAIN q
      BY <2>1, TailFacts
    <2> QED BY <2>1, <2>2 DEF q
  <1> QED BY <1>1, <1>2, <1>3, ActiveFacts DEF StreamOK

LEMMA ExtInfoStep ==
    ASSUME HandshakeInv, NEW s \in Side, ParseExtInfo(s)
    PROVE  HandshakeInv'
  <1> DEFINE p == Peer(s)
             T == [tr[s] EXCEPT !.expected = {}, !.seqno_in = @ + 1]
  <1>1. Shape /\ p \in Side /\ Peer(p) = s
    BY Parts, Ends
  <1>2. /\ tr[s].active /\ tr[s].stage = "loop" /\ wire[s] # <<>> /\ Read(s).type = EXT_INFO
        /\ tr[s].expected = {} /\ app[s] # "idle"
    BY TakesFacts, ExpectedFacts DEF ParseExtInfo
  <1>3. /\ DOMAIN T = Fields /\ \A f \in Fields \ {"expected", "seqno_in"} : T[f] = tr[s][f]
        /\ T.expected = {} /\ T.seqno_in = tr[s].seqno_in + 1
    BY <1>1 DEF Shape, Fields
  <1> HIDE DEF T
  <1>4. Others(s) /\ Wires(s, <<>>) /\ tr'[s] = T /\ app' = app
    BY <1>1, <1>2, <1>3, LeavesFacts DEF T, ParseExtInfo
  <1>5. /\ tr'[s].made = tr[s].made /\ tr'[s].seqno_in = tr[s].seqno_in + 1
        /\ tr'[s].seqno_out = tr[s].seqno_out /\ tr'[s].strict = tr[s].strict
        /\ tr'[s].preferred_kex = tr[s].preferred_kex /\ tr'[s].stage = "loop"
        /\ tr'[s].active = tr[s].active
        /\ tr'[s].in_key = tr[s].in_key /\ tr'[s].out_key = tr[s].out_key
    BY <1>2, <1>3, <1>4 DEF Fields
  <1>6. /\ Sends(s, <<>>) /\ PlainPackets(s, <<>>) /\ Fewer(p, 0) /\ Fewer(s, 1)
        /\ IsSeq(wire'[s]) /\ IsSeq(wire'[p]) /\ IsSeq(<<>>) /\ Len(<<>>) = 0
    BY <1>1, <1>4, NothingSent
  <1>7. Shape'
    <2>1. tr'[s].seqno_in \in Nat
      BY <1>1, <1>5 DEF Shape
    <2> QED BY <1>1, <1>4, <1>5, <1>6, <2>1, StepShape DEF Shape
  <1>8. Core'
    <2>1. \A t \in Side : \A f \in CalmFields : tr'[t][f] = tr[t][f]
      <3>1. \A f \in CalmFields : f # "expected" => tr'[s][f] = tr[s][f]
        BY <1>3, <1>4 DEF CalmFields
      <3>2. tr'[s]["expected"] = tr[s]["expected"]
        BY <1>2, <1>3, <1>4
      <3>3. \A f \in CalmFields : tr'[s][f] = tr[s][f]
        BY <3>1, <3>2
      <3> QED BY <1>4, <3>3, Ends DEF Others
    <2>2. s = "client" => Calm(1, 0)
      BY <1>4, <1>6, <2>1 DEF Calm, Others, Peer
    <2>3. s = "server" => Calm(0, 1)
      BY <1>4, <1>6, <2>1 DEF Calm, Others, Peer
    <2> QED BY <2>2, <2>3, CalmCore, Ends
  <1>9. Rest(p)'
    <2>1. tr'[s].seqno_out = tr[s].seqno_out + Len(<<>>)
      BY <1>1, <1>5, <1>6 DEF Shape
    <2>2. StreamOK(p)' /\ BannerOK(p)' /\ ClosedWire(p)'
      BY <1>2, <1>4, <1>5, <1>6, <2>1, SendOK
    <2> QED BY <1>4, <2>2, OtherStage DEF Rest
  <1>10. Rest(s)'
    <2>1. StageOK(s)'
      BY <1>2, <1>4, <1>5 DEF StageOK
    <2>2. Read(s).type # NEWKEYS /\ wire'[s] = Tail(wire[s])
      BY <1>2, <1>4, Types DEF Wires
    <2>3. StreamOK(s)' /\ BannerOK(s)' /\ ClosedWire(s)'
      BY <1>2, <1>4, <1>5, <2>2, ReadOK
    <2> QED BY <2>1, <2>3 DEF Rest
  <1> QED BY <1>7, <1>8, <1>9, <1>10, Whole

\* The phases after a step, from the end that takes it.
LEMMA NewPhases ==
    ASSUME NEW s \in Side, NEW a, NEW b, Phase(s)' = a, Phase(Peer(s))' = b,
           \/ /\ tr'[s].made = tr'[Peer(s)].made
              /\ IF s = "client" THEN <<a, b>> \in SamePairs ELSE <<b, a>> \in SamePairs
           \/ a = 1 /\ b \in {0, 3} /\ tr'[s].made = tr'[Peer(s)].made + 1
           \/ b = 1 /\ a \in {0, 3} /\ tr'[Peer(s)].made = tr'[s].made + 1
    PROVE  PhasesOK'
  <1>1. CASE s = "client"
    BY <1>1 DEF PhasesOK, C, V, Peer
  <1>2. CASE s = "server"
    BY <1>2 DEF PhasesOK, C, V, Peer
  <1> QED BY <1>1, <1>2, Ends

\* What s has read is gone, the rest is as it was.
Old(t, d) ==
    \A i \in DOMAIN wire'[t] : i \in Int /\ i + d \in DOMAIN wire[t] /\ wire'[t][i] = wire[t][i + d]

LEMMA OldOnce ==
    ASSUME NEW t, NEW d \in Nat, Old(t, d), NEW type, Once(t, type)
    PROVE  Once(t, type)'
  BY DEF Old, Once

LEMMA ReadOld ==
    ASSUME Shape, NEW s \in Side, wire[s] # <<>>, wire'[s] = Tail(wire[s])
    PROVE  /\ Old(s, 1)
           /\ \A type : Once(s, type) /\ wire[s][1].type = type =>
                \A i \in DOMAIN wire'[s] : wire'[s][i].type # type
  <1>1. /\ DOMAIN wire'[s] = 1 .. (Len(wire[s]) - 1) /\ 1 \in DOMAIN wire[s]
        /\ \A i \in DOMAIN wire'[s] : i + 1 \in DOMAIN wire[s] /\ wire'[s][i] = wire[s][i + 1]
    BY ReadFacts
  <1>2. \A i \in DOMAIN wire'[s] : i \in Int /\ i + 1 # 1
    BY <1>1
  <1> QED BY <1>1, <1>2 DEF Old, Once

LEMMA SameOld ==
    ASSUME Shape, NEW t \in Side, wire'[t] = wire[t]
    PROVE  Old(t, 0)
  <1>1. \A i \in DOMAIN wire[t] : i \in Int /\ i + 0 = i
    BY SeqFacts DEF Shape
  <1> QED BY <1>1 DEF Old

\* Messages of the engines are there only while the client runs one.
LEMMA NoEngine ==
    ASSUME HandshakeInv, Phase("client") # 2, NEW t \in Side, NEW i \in DOMAIN wire[t]
    PROVE  wire[t][i].type \notin EngineTypes
  BY Parts, Ends DEF EngineToServer, EngineToClient, IsEngine

LEMMA QuietEngines ==
    ASSUME \A t \in Side : \A i \in DOMAIN wire'[t] : wire'[t][i].type \notin EngineTypes
    PROVE  OneEngine' /\ EngineToServer' /\ EngineToClient'
  BY Ends DEF OneEngine, EngineToServer, EngineToClient, IsEngine

\* NEWKEYS is read: s takes the keys that the other end has switched to.
LEMMA NewkeysFacts ==
    ASSUME HandshakeInv, NEW s \in Side, ParseNewkeys(s)
    PROVE  /\ Others(s) /\ Wires(s, <<>>) /\ app' = app
           /\ tr[s].active /\ tr[s].stage = "loop" /\ wire[s] # <<>> /\ Read(s).type = NEWKEYS
           /\ app[s] # "idle" /\ app[Peer(s)] # "idle"
           /\ Phase(s) = 3 /\ Phase(Peer(s)) \in {0, 1, 3} /\ Phase(s)' = 0
           /\ Phase(Peer(s))' = Phase(Peer(s))
           /\ tr[Peer(s)].strict = Strict /\ tr[s].strict = Strict
           /\ tr[Peer(s)].out_key = <<tr[Peer(s)].H, Algs>> /\ tr[s].agreed.remote = Algs
           /\ tr'[s].in_key = <<tr[s].H, tr[s].agreed.remote>> /\ tr'[s].expected = {}
           /\ tr'[s].seqno_in = IF tr[s].strict THEN 0 ELSE tr[s].seqno_in + 1
           /\ tr'[s].local_kex_init = NoInit /\ tr'[s].remote_kex_init = NoInit
           /\ \A f \in Fields \ {"in_key", "expected", "timer", "seqno_in", "local_kex_init",
                                 "remote_kex_init", "initial_kex_done", "event"} :
                tr'[s][f] = tr[s][f]
  <1> DEFINE p == Peer(s)
             T == [tr[s] EXCEPT !.in_key = <<tr[s].H, tr[s].agreed.remote>>,
                               !.expected = {}, !.timer = FALSE,
                               !.seqno_in = IF tr[s].strict THEN 0 ELSE @ + 1,
                               !.local_kex_init = NoInit, !.remote_kex_init = NoInit,
                               !.initial_kex_done = TRUE, !.event = TRUE]
             Changed == {"in_key", "expected", "timer", "seqno_in", "local_kex_init",
                         "remote_kex_init", "initial_kex_done", "event"}
  <1>1. Shape /\ p \in Side /\ Peer(p) = s
    BY Parts, Ends
  <1>2. Takes(s, NEWKEYS)
    BY DEF ParseNewkeys
  <1>3. /\ tr[s].active /\ tr[s].stage = "loop" /\ wire[s] # <<>> /\ Read(s) = wire[s][1]
        /\ 1 \in DOMAIN wire[s] /\ wire[s][1].type = NEWKEYS
        /\ tr[s].expected = {} \/ NEWKEYS \in tr[s].expected
        /\ app[p] # "idle" /\ app[s] # "idle"
    BY <1>2, TakesFacts
  <1>4. /\ Behind(s) /\ tr[p].strict = Strict /\ tr[p].out_key = <<tr[p].H, Algs>>
    BY <1>1, <1>3, Parts DEF NewkeysWire
  <1>5. Phase(s) = 3 /\ Phase(p) \in {0, 1, 3}
    <2>1. Phase(s) = 2 => NEWKEYS \in EngineTypes
      BY <1>3, ExpectedFacts
    <2>2. Phase(s) # 2
      BY <2>1, Types
    <2> QED BY <1>4, <2>2 DEF Behind
  <1>6. tr[s].strict = Strict /\ tr[s].agreed.remote = Algs
    BY <1>5, Parts DEF AgreedOK
  <1>7. /\ DOMAIN T = Fields /\ \A f \in Fields \ Changed : T[f] = tr[s][f]
        /\ T.in_key = <<tr[s].H, tr[s].agreed.remote>> /\ T.expected = {}
        /\ T.seqno_in = (IF tr[s].strict THEN 0 ELSE tr[s].seqno_in + 1)
        /\ T.local_kex_init = NoInit /\ T.remote_kex_init = NoInit
    BY <1>1 DEF Shape, Fields
  <1> HIDE DEF T
  <1>8. Others(s) /\ Wires(s, <<>>) /\ tr'[s] = T /\ app' = app
    <2>1. Leaves(s, T, <<>>)
      BY DEF T, ParseNewkeys
    <2> QED BY <1>1, <1>3, <1>7, <2>1, LeavesFacts
  <1>9. Phase(s)' = 0 /\ Phase(p)' = Phase(p)
    BY <1>7, <1>8 DEF Phase, Others
  <1> QED BY <1>3, <1>4, <1>5, <1>6, <1>7, <1>8, <1>9

LEMMA NewkeysCore ==
    ASSUME HandshakeInv, NEW s \in Side, ParseNewkeys(s)
    PROVE  Core'
  <1> DEFINE p == Peer(s)
  <1>1. Shape /\ p \in Side /\ Peer(p) = s /\ \A t \in Side : t = s \/ t = p
    BY Parts, Ends
  <1>2. /\ Others(s) /\ Wires(s, <<>>) /\ Read(s).type = NEWKEYS /\ wire[s] # <<>>
        /\ Phase(s) = 3 /\ Phase(p) \in {0, 1, 3} /\ Phase(s)' = 0 /\ Phase(p)' = Phase(p)
    BY NewkeysFacts
  <1>3. /\ tr'[s].in_key = tr[p].out_key /\ tr'[s].expected = {}
        /\ tr'[s].local_kex_init = NoInit /\ tr'[s].remote_kex_init = NoInit
        /\ tr'[s].made = tr[s].made /\ tr'[s].preferred_kex = tr[s].preferred_kex
        /\ tr'[s].agreed = tr[s].agreed /\ tr'[s].strict = tr[s].strict /\ tr'[s].H = tr[s].H
        /\ tr'[s].session_id = tr[s].session_id /\ tr'[s].host_key = tr[s].host_key
        /\ tr'[s].gss_kex_used = tr[s].gss_kex_used /\ tr'[s].out_key = tr[s].out_key
        /\ tr'[p] = tr[p] /\ setup' = setup
    <2>1. tr[s].H = tr[p].H
      <3>1. HashOK
        BY Parts
      <3> QED BY <1>2, <3>1, Ends DEF HashOK, C, V
    <2> QED BY <1>2, <2>1, NewkeysFacts DEF Fields, Others
  <1>4. /\ Strict' = Strict /\ Algs' = Algs /\ KeyAlg' = KeyAlg /\ ClientKex' = ClientKex
        /\ \A t : AvailableKeys(t)' = AvailableKeys(t)
        /\ \A t, c : Preferred(t, c)' = Preferred(t, c)
        /\ \A t, c, q : FilterAlgorithm(t, c, q)' = FilterAlgorithm(t, c, q)
    BY <1>3, SetupKept
  <1>5. /\ Old(s, 1) /\ Old(p, 0) /\ \A i \in DOMAIN wire'[s] : wire'[s][i].type # NEWKEYS
    <2>1. wire'[p] = wire[p] /\ wire'[s] = Tail(wire[s])
      BY <1>1, <1>2, NothingSent DEF Wires
    <2>2. Once(s, NEWKEYS) /\ wire[s][1].type = NEWKEYS
      BY <1>1, <1>2, <2>1, Parts, ReadFacts DEF NewkeysWire
    <2> QED BY <1>1, <1>2, <2>1, <2>2, ReadOld, SameOld
  <1>6. PhasesOK'
    <2>1. \/ Phase(p) \in {0, 3} /\ tr[p].made = tr[s].made
          \/ Phase(p) = 1 /\ tr[p].made = tr[s].made + 1
      BY <1>2, PhasePairs
    <2>2. \/ tr'[s].made = tr'[p].made /\ <<0, Phase(p)>> \in SamePairs /\ <<Phase(p), 0>> \in SamePairs
          \/ Phase(p) = 1 /\ tr'[p].made = tr'[s].made + 1
      BY <1>3, <2>1 DEF SamePairs
    <2> QED BY <1>2, <2>2, NewPhases
  <1>7. Phase("client") # 2 /\ Phase("client")' # 2
    BY <1>2, Ends
  <1>8. OneEngine' /\ EngineToServer' /\ EngineToClient' /\ KexOK'
    <2>1. \A t \in Side : \A i \in DOMAIN wire'[t] : wire'[t][i].type \notin EngineTypes
      BY <1>1, <1>5, <1>7, NoEngine DEF Old
    <2> QED BY <1>7, <2>1, QuietEngines DEF KexOK
  <1>9. HashOK'
    <2>1. HashOK
      BY Parts
    <2> QED BY <1>2, <1>3, <2>1, Ends DEF HashOK, C, V
  <1>10. OutOK'
    <2>1. OutOK
      BY Parts
    <2> QED BY <1>3, <1>4, <2>1, Ends DEF OutOK, C
  <1>11. HostOK'
    <2>1. HostOK
      BY Parts
    <2> QED BY <1>2, <1>3, <2>1, Ends DEF HostOK, C
  <1>12. FirstOK'
    <2>1. FirstOK
      BY Parts
    <2> QED BY <1>2, <1>3, <2>1, Ends DEF FirstOK, C, V
  <1>13. ExpectedOK(s)' /\ LocalOK(s)' /\ AgreedOK(s)'
    <2>1. ExpectedOK(s)'
      BY <1>2, <1>3, Ends DEF ExpectedOK
    <2>2. LocalOK(s)'
      BY <1>3 DEF LocalOK
    <2>3. AgreedOK(s)'
      BY <1>2, <1>3, <1>4, Parts DEF AgreedOK
    <2> QED BY <2>1, <2>2, <2>3
  <1>14. ExpectedOK(p)' /\ LocalOK(p)' /\ AgreedOK(p)'
    <2>1. ExpectedOK(p)'
      BY <1>1, <1>2, <1>3, Parts, Ends DEF ExpectedOK
    <2>2. LocalOK(p)'
      BY <1>1, <1>3, <1>4, Parts, Ends DEF LocalOK, V, ServerKex
    <2>3. AgreedOK(p)'
      BY <1>1, <1>2, <1>3, <1>4, Parts, Ends DEF AgreedOK, V, ServerKex
    <2> QED BY <2>1, <2>2, <2>3
  <1>15. InitWire(s)' /\ InitWire(p)'
    <2>1. InitWire(s) /\ InitWire(p)
      BY <1>1, Parts
    <2>2. \A i \in DOMAIN wire[p] : wire[p][i].type # KEXINIT
      BY <1>1, <1>2, <2>1 DEF InitWire
    <2>3. \A i \in DOMAIN wire'[p] : wire'[p][i].type # KEXINIT
      BY <1>5, <2>2 DEF Old
    <2>4. InitWire(p)'
      BY <2>3 DEF InitWire, Once
    <2>5. Once(s, KEXINIT)'
      BY <1>5, <2>1, OldOnce DEF InitWire
    <2>6. \A i \in DOMAIN wire'[s] : wire'[s][i].type = KEXINIT =>
            wire'[s][i].val = tr[p].local_kex_init /\ Phase(p) = 1
      BY <1>2, <1>5, <2>1 DEF InitWire, Old
    <2>7. InitWire(s)'
      BY <1>1, <1>2, <1>3, <2>5, <2>6 DEF InitWire
    <2> QED BY <2>4, <2>7
  <1>16. NewkeysWire(s)' /\ NewkeysWire(p)'
    <2>1. NewkeysWire(s)'
      BY <1>5 DEF NewkeysWire, Once
    <2>2. NewkeysWire(p)
      BY <1>1, Parts
    <2>3. Once(p, NEWKEYS)'
      BY <1>5, <2>2, OldOnce DEF NewkeysWire
    <2>4. \A i \in DOMAIN wire'[p] : wire'[p][i].type = NEWKEYS =>
            Behind(p) /\ tr[s].strict = Strict /\ tr[s].out_key = <<tr[s].H, Algs>>
      BY <1>1, <1>5, <2>2 DEF NewkeysWire, Old
    <2>5. Behind(p) => Behind(p)' /\ Phase(p)' = 3
      BY <1>1, <1>2 DEF Behind
    <2>6. NewkeysWire(p)'
      BY <1>1, <1>3, <1>4, <2>3, <2>4, <2>5 DEF NewkeysWire
    <2> QED BY <2>1, <2>6
  <1>17. KeyOK(s)' /\ KeyOK(p)'
    <2>1. ~Behind(p)' => ~Behind(p)
      BY <1>1, <1>2 DEF Behind
    <2> QED BY <1>1, <1>3, <2>1, Parts DEF KeyOK
  <1>18. \A t \in Side : /\ ExpectedOK(t)' /\ LocalOK(t)' /\ AgreedOK(t)'
                         /\ InitWire(t)' /\ NewkeysWire(t)' /\ KeyOK(t)'
    BY <1>1, <1>13, <1>14, <1>15, <1>16, <1>17
  <1> QED BY <1>6, <1>8, <1>9, <1>10, <1>11, <1>12, <1>18 DEF Core

LEMMA NewkeysStep ==
    ASSUME HandshakeInv, NEW s \in Side, ParseNewkeys(s)
    PROVE  HandshakeInv'
  <1> DEFINE p == Peer(s)
             q == wire[s]
             r == wire'[s]
             n == Len(wire[s])
             nin == tr[s].seqno_in
  <1>1. Shape /\ p \in Side /\ Peer(p) = s
    BY Parts, Ends
  <1>2. /\ Others(s) /\ Wires(s, <<>>) /\ app' = app /\ tr[s].active /\ tr[s].stage = "loop"
        /\ wire[s] # <<>> /\ Read(s).type = NEWKEYS /\ app[s] # "idle" /\ app[p] # "idle"
        /\ tr[s].strict = Strict
        /\ tr'[s].seqno_in = IF tr[s].strict THEN 0 ELSE tr[s].seqno_in + 1
    BY NewkeysFacts
  <1>3. /\ tr'[s].made = tr[s].made /\ tr'[s].seqno_out = tr[s].seqno_out
        /\ tr'[s].strict = tr[s].strict /\ tr'[s].preferred_kex = tr[s].preferred_kex
        /\ tr'[s].stage = "loop" /\ tr'[s].active = tr[s].active
        /\ tr'[s].out_key = tr[s].out_key /\ tr'[p] = tr[p] /\ Strict' = Strict
    <2>1. tr'[p] = tr[p] /\ Strict' = Strict
      BY <1>2, SetupKept DEF Others
    <2>2. \A f \in {"made", "seqno_out", "strict", "preferred_kex", "stage", "active", "out_key"} :
            tr'[s][f] = tr[s][f]
      BY NewkeysFacts DEF Fields
    <2> QED BY <1>2, <2>1, <2>2
  <1>4. /\ Sends(s, <<>>) /\ PlainPackets(s, <<>>) /\ IsSeq(wire'[s]) /\ IsSeq(wire'[p])
        /\ IsSeq(<<>>) /\ Len(<<>>) = 0
    BY <1>1, <1>2, NothingSent
  <1>5. Shape'
    <2>1. tr'[s].seqno_in \in Nat
      BY <1>1, <1>2 DEF Shape
    <2> QED BY <1>1, <1>2, <1>3, <1>4, <2>1, StepShape DEF Shape
  <1>6. Core'
    BY NewkeysCore
  <1>7. Rest(p)'
    <2>1. tr'[s].seqno_out = tr[s].seqno_out + Len(<<>>)
      BY <1>1, <1>3, <1>4 DEF Shape
    <2>2. StreamOK(p)' /\ BannerOK(p)' /\ ClosedWire(p)'
      BY <1>2, <1>3, <1>4, <2>1, SendOK
    <2> QED BY <1>2, <2>2, OtherStage DEF Rest
  <1>8. Rest(s)'
    <2>1. StageOK(s)'
      BY <1>2, <1>3 DEF StageOK
    <2>2. ClosedWire(s)' /\ wire'[s] = Tail(wire[s])
      BY <1>2, TailClosed DEF Wires
    <2>3. BannerOK(s)'
      BY <1>2, <1>3 DEF BannerOK
    <2>4. /\ n \in Nat /\ n >= 1 /\ DOMAIN q = 1 .. n /\ Len(r) = n - 1 /\ DOMAIN r = 1 .. (n - 1)
          /\ \A i \in DOMAIN r : r[i] = q[i + 1]
          /\ q[1].type = NEWKEYS /\ Len(q) = n
      BY <1>1, <1>2, <2>2, ReadFacts
    <2>5. \A i \in DOMAIN r : r[i].type # NEWKEYS
      <3>1. NewkeysWire(s)
        BY Parts
      <3> QED BY <1>1, <1>2, <2>2, <2>4, <3>1, ReadOld DEF NewkeysWire
    <2>6. Stream(q, tr[s].in_key, nin, tr[p].out_key, tr[p].seqno_out, Strict, tr[p].active)
      BY <1>2, Parts DEF StreamOK
    <2>7. nin \in Nat /\ Strict \in BOOLEAN
      BY <1>1, SetupFacts, Ends DEF Shape, Strict
    <2>8. Stream(r, tr[p].out_key, IF Strict THEN 0 ELSE nin + 1, tr[p].out_key,
                 tr[p].seqno_out, Strict, tr[p].active)
      <3> HIDE DEF p, q, r, n, nin
      <3> QED BY <2>4, <2>5, <2>6, <2>7, SwitchStream
    <2>9. tr'[s].in_key = tr[p].out_key
      <3>1. KeyOK(s)' /\ Phase(s)' = 0
        BY <1>6, NewkeysFacts DEF Core
      <3>2. ~Behind(s)'
        BY <3>1 DEF Behind
      <3> QED BY <1>3, <3>1, <3>2 DEF KeyOK
    <2>10. StreamOK(s)'
      BY <1>2, <1>3, <2>8, <2>9 DEF StreamOK
    <2> QED BY <2>1, <2>2, <2>3, <2>10 DEF Rest
  <1> QED BY <1>5, <1>6, <1>7, <1>8, Whole
-----------------------------------------------------------------------------
(* KEXINIT is sent *)

\* Of what is on the wire after s has sent packets.
LEMMA Sent ==
    ASSUME Shape, NEW s \in Side, NEW packets, IsSeq(packets), Sends(s, packets)
    PROVE  /\ \A i \in DOMAIN wire'[Peer(s)] :
                \/ i \in DOMAIN wire[Peer(s)] /\ wire'[Peer(s)][i] = wire[Peer(s)][i]
                \/ \E k \in DOMAIN packets : wire'[Peer(s)][i] = packets[k]
           /\ \A type : ((\A k \in DOMAIN packets : packets[k].type # type) /\ Once(Peer(s), type))
                          => Once(Peer(s), type)'
           /\ \A type :
                ((\A i \in DOMAIN wire[Peer(s)] : wire[Peer(s)][i].type # type) /\
                 (\A k, l \in DOMAIN packets :
                    packets[k].type = type /\ packets[l].type = type => k = l))
                  => Once(Peer(s), type)'
           /\ IsSeq(wire'[Peer(s)])
  <1> DEFINE q == wire[Peer(s)]
             r == wire'[Peer(s)]
  <1>1. /\ IsSeq(r)
        /\ \A i \in DOMAIN r : \/ i \in DOMAIN q /\ r[i] = q[i]
                               \/ \E k \in DOMAIN packets : i = Len(q) + k /\ r[i] = packets[k]
    BY SendFacts
  <1>2. ASSUME NEW type, \A k \in DOMAIN packets : packets[k].type # type, Once(Peer(s), type)
        PROVE  Once(Peer(s), type)'
    <2>1. ASSUME NEW i \in DOMAIN r, r[i].type = type
          PROVE  i \in DOMAIN q /\ q[i].type = type
      BY <1>1, <1>2, <2>1
    <2> QED BY <1>2, <2>1 DEF Once
  <1>3. ASSUME NEW type, \A i \in DOMAIN q : q[i].type # type,
               \A k, l \in DOMAIN packets :
                 packets[k].type = type /\ packets[l].type = type => k = l
        PROVE  Once(Peer(s), type)'
    <2>1. ASSUME NEW i \in DOMAIN r, r[i].type = type
          PROVE  \E k \in DOMAIN packets : i = Len(q) + k /\ packets[k].type = type
      BY <1>1, <1>3, <2>1
    <2>2. ASSUME NEW i \in DOMAIN r, NEW j \in DOMAIN r, r[i].type = type, r[j].type = type
          PROVE  i = j
      <3>1. PICK k \in DOMAIN packets : i = Len(q) + k /\ packets[k].type = type
        BY <2>1, <2>2
      <3>2. PICK l \in DOMAIN packets : j = Len(q) + l /\ packets[l].type = type
        BY <2>1, <2>2
      <3> QED BY <1>3, <3>1, <3>2
    <2> QED BY <2>2 DEF Once
  <1> QED BY <1>1, <1>2, <1>3

\* What the KEXINIT of s lists, and what is left of s's preferences.
InitLists(s, own, made, preferred) ==
    /\ own # NoInit /\ own.n = made /\ own.n # 0
    /\ own.strict = setup.strict[s] /\ own.ext_info = (s = "client")
    /\ own.keys = AvailableKeys(s)
    /\ own.c2s = [c \in Directional |-> Preferred(s, c)]
    /\ own.s2c = [c \in Directional |-> Preferred(s, c)]
    /\ IF s = "client" THEN own.kex = FilterAlgorithm("client", "kex", preferred)
       ELSE /\ Range(own.kex) \ {"gex"} = Range(FilterAlgorithm("server", "kex", preferred)) \ {"gex"}
            /\ Range(FilterAlgorithm("server", "kex", preferred)) \subseteq Range(own.kex)

LEMMA SendKexInitFacts ==
    ASSUME setup \in Setups, NEW s \in Side, NEW T, DOMAIN T = Fields, T.made \in Nat,
           T.preferred_kex \in Seq(STRING)
    PROVE  LET R == SendKexInit(s, T)
           IN  /\ DOMAIN R = Fields /\ R.made = T.made + 1 /\ R.gss_kex_used = FALSE
               /\ \A f \in Fields \ {"preferred_kex", "gss_kex_used", "made", "local_kex_init"} :
                    R[f] = T[f]
               /\ R.preferred_kex \in Seq(STRING)
               /\ s = "client" => R.preferred_kex = T.preferred_kex
               /\ InitLists(s, R.local_kex_init, R.made, R.preferred_kex)
  <1> DEFINE lists == KexInit(s, T)
             kexes == IF s = "server" /\ ~setup.loaded THEN WithoutGex(T.preferred_kex)
                      ELSE T.preferred_kex
             R == SendKexInit(s, T)
  <1>1. /\ lists.n = T.made + 1 /\ lists.kex = FilterAlgorithm(s, "kex", T.preferred_kex)
        /\ lists.ext_info = (s = "client") /\ lists.strict = setup.strict[s]
        /\ lists.keys = AvailableKeys(s)
        /\ lists.c2s = [c \in Directional |-> Preferred(s, c)]
        /\ lists.s2c = [c \in Directional |-> Preferred(s, c)]
    BY DEF KexInit
  <1> HIDE DEF lists
  <1>2. /\ kexes \in Seq(STRING) /\ (s = "client" => kexes = T.preferred_kex)
        /\ Range(kexes) \ {"gex"} = Range(T.preferred_kex) \ {"gex"}
        /\ Range(kexes) \subseteq Range(T.preferred_kex)
    <2>1. /\ WithoutGex(T.preferred_kex) \in Seq(STRING)
          /\ Range(WithoutGex(T.preferred_kex)) = Range(T.preferred_kex) \ {"gex"}
      BY WithoutGexFacts
    <2> QED BY <2>1
  <1>3. /\ DOMAIN R = Fields /\ R.made = T.made + 1 /\ R.gss_kex_used = FALSE
        /\ \A f \in Fields \ {"preferred_kex", "gss_kex_used", "made", "local_kex_init"} :
             R[f] = T[f]
        /\ R.preferred_kex = kexes /\ R.local_kex_init = lists
    <2>1. R = [T EXCEPT !.preferred_kex = kexes, !.gss_kex_used = FALSE, !.made = @ + 1,
                        !.local_kex_init = lists]
      BY DEF SendKexInit, lists
    <2> HIDE DEF kexes, R
    <2> QED BY <2>1 DEF Fields
  <1> HIDE DEF R, kexes
  <1>4. lists # NoInit /\ lists.n # 0
    BY <1>1 DEF NoInit
  <1>5. s = "client" => lists.kex = FilterAlgorithm("client", "kex", kexes)
    BY <1>1, <1>2
  <1>6. s = "server" =>
          /\ Range(lists.kex) \ {"gex"} = Range(FilterAlgorithm("server", "kex", kexes)) \ {"gex"}
          /\ Range(FilterAlgorithm("server", "kex", kexes)) \subseteq Range(lists.kex)
    <2> SUFFICES ASSUME s = "server"
                 PROVE  /\ Range(lists.kex) \ {"gex"} =
                             Range(FilterAlgorithm("server", "kex", kexes)) \ {"gex"}
                        /\ Range(FilterAlgorithm("server", "kex", kexes)) \subseteq Range(lists.kex)
      OBVIOUS
    <2> DEFINE D == setup.disabled["server"]["kex"]
    <2>1. Range(FilterAlgorithm("server", "kex", kexes)) = Range(kexes) \ D
      BY <1>2, FilterFacts
    <2>2. Range(lists.kex) = Range(T.preferred_kex) \ D
      BY <1>1, FilterFacts
    <2> HIDE DEF D
    <2> QED BY <1>2, <2>1, <2>2
  <1>7. InitLists(s, lists, T.made + 1, kexes)
    BY <1>1, <1>4, <1>5, <1>6, Ends DEF InitLists
  <1> QED BY <1>2, <1>3, <1>7 DEF R

\* LocalOK is InitLists.
LEMMA LocalLists ==
    ASSUME NEW s \in Side
    PROVE  LocalOK(s) <=> (tr[s].local_kex_init # NoInit =>
              InitLists(s, tr[s].local_kex_init, tr[s].made,
                        IF s = "client" THEN setup.preferred["client"]["kex"]
                        ELSE tr["server"].preferred_kex))
  BY Ends DEF LocalOK, InitLists, ClientKex, ServerKex, V

LEMMA LocalListsNext ==
    ASSUME NEW s \in Side, setup' = setup,
           tr'[s].local_kex_init # NoInit =>
              InitLists(s, tr'[s].local_kex_init, tr'[s].made,
                        IF s = "client" THEN setup.preferred["client"]["kex"]
                        ELSE tr'["server"].preferred_kex)
    PROVE  LocalOK(s)'
  <1>1. /\ ClientKex' = ClientKex /\ \A t : AvailableKeys(t)' = AvailableKeys(t)
        /\ \A t, c : Preferred(t, c)' = Preferred(t, c)
        /\ \A t, c, q : FilterAlgorithm(t, c, q)' = FilterAlgorithm(t, c, q)
    BY SetupKept
  <1>2. ServerKex' = FilterAlgorithm("server", "kex", tr'["server"].preferred_kex)
    BY <1>1 DEF ServerKex, V
  <1>3. ClientKex = FilterAlgorithm("client", "kex", setup.preferred["client"]["kex"])
    BY DEF ClientKex
  <1> QED BY <1>1, <1>2, <1>3, Ends DEF LocalOK, InitLists

\* s sends its KEXINIT outside of an exchange; d packets of its own are read.
SendsInit(s, d) ==
    /\ Others(s) /\ app' = app /\ tr[s].active /\ Phase(s) = 0
    /\ tr'[s].made = tr[s].made + 1 /\ tr'[s].gss_kex_used = FALSE
    /\ tr'[s].expected \subseteq {KEXINIT}
    /\ \A f \in {"remote_kex_init", "agreed", "strict", "H", "session_id", "host_key",
                 "in_key", "out_key", "seqno_in", "active"} : tr'[s][f] = tr[s][f]
    /\ tr'[s].seqno_out = tr[s].seqno_out + 1
    /\ tr'[s].preferred_kex \in Seq(STRING)
    /\ s = "client" => tr'[s].preferred_kex = tr[s].preferred_kex
    /\ InitLists(s, tr'[s].local_kex_init, tr'[s].made, tr'[s].preferred_kex)
    /\ d \in Nat /\ Old(s, d)
    /\ \E m : /\ Sends(s, <<m>>) /\ m.type = KEXINIT /\ m.val = tr'[s].local_kex_init
              /\ m.key = tr[s].out_key /\ m.seq = tr[s].seqno_out

LEMMA SendsInitPeer ==
    ASSUME HandshakeInv, NEW s \in Side, NEW d, SendsInit(s, d)
    PROVE  /\ StreamOK(Peer(s))' /\ BannerOK(Peer(s))' /\ ClosedWire(Peer(s))'
           /\ IsSeq(wire'[Peer(s)])
  <1>1. PICK m : /\ Sends(s, <<m>>) /\ m.type = KEXINIT /\ m.val = tr'[s].local_kex_init
                 /\ m.key = tr[s].out_key /\ m.seq = tr[s].seqno_out
    BY DEF SendsInit
  <1>2. Shape /\ tr[s].seqno_out \in Nat
    BY Parts DEF Shape
  <1>3. IsSeq(<<m>>) /\ Len(<<m>>) = 1 /\ <<m>>[1] = m
    BY ShortSeqs
  <1> DEFINE pk == <<m>>
  <1>4. PlainPackets(s, pk)
    <2> HIDE DEF pk
    <2>1. IsSeq(pk) /\ Len(pk) = 1 /\ pk[1] = m
      BY <1>3 DEF pk
    <2> SUFFICES ASSUME NEW k \in 1 .. 1
                 PROVE  /\ pk[k].key = tr[s].out_key /\ pk[k].seq = tr[s].seqno_out + k - 1
                        /\ pk[k].type \notin {CLOSED, VERSION, LINE, NEWKEYS}
      BY <2>1 DEF PlainPackets
    <2>2. k = 1
      OBVIOUS
    <2> QED BY <1>1, <1>2, <2>1, <2>2, Types
  <1>5. /\ tr[s].active /\ Others(s) /\ app' = app /\ tr'[s].out_key = tr[s].out_key
        /\ tr'[s].seqno_out = tr[s].seqno_out + Len(pk)
    BY <1>3 DEF SendsInit
  <1>6. IsSeq(pk) /\ Sends(s, pk)
    BY <1>1, <1>3
  <1> HIDE DEF pk
  <1> QED BY <1>2, <1>4, <1>5, <1>6, SendOK, Sent

LEMMA SendsInitCore ==
    ASSUME HandshakeInv, NEW s \in Side, NEW d, SendsInit(s, d)
    PROVE  Core' /\ Phase(s)' = 1
  <1> DEFINE p == Peer(s)
  <1>1. Shape /\ p \in Side /\ Peer(p) = s /\ \A t \in Side : t = s \/ t = p
    BY Parts, Ends
  <1>2. /\ Others(s) /\ Phase(s) = 0 /\ tr'[p] = tr[p] /\ setup' = setup
        /\ tr'[s].made = tr[s].made + 1 /\ tr'[s].gss_kex_used = FALSE
        /\ tr'[s].expected \subseteq {KEXINIT}
        /\ tr'[s].remote_kex_init = tr[s].remote_kex_init
        /\ tr'[s].agreed = tr[s].agreed /\ tr'[s].strict = tr[s].strict /\ tr'[s].H = tr[s].H
        /\ tr'[s].session_id = tr[s].session_id /\ tr'[s].host_key = tr[s].host_key
        /\ tr'[s].in_key = tr[s].in_key /\ tr'[s].out_key = tr[s].out_key
        /\ s = "client" => tr'[s].preferred_kex = tr[s].preferred_kex
    BY DEF SendsInit, Others
  <1>3. InitLists(s, tr'[s].local_kex_init, tr'[s].made, tr'[s].preferred_kex)
    BY DEF SendsInit
  <1>4. tr'[s].local_kex_init # NoInit /\ tr[s].remote_kex_init = NoInit
    BY <1>2, <1>3, Parts DEF InitLists, ExpectedOK
  <1>5. Phase(s)' = 1 /\ Phase(p)' = Phase(p)
    BY <1>2, <1>4 DEF Phase
  <1>6. /\ Strict' = Strict /\ Algs' = Algs /\ KeyAlg' = KeyAlg /\ ClientKex' = ClientKex
        /\ \A t : AvailableKeys(t)' = AvailableKeys(t)
        /\ \A t, c : Preferred(t, c)' = Preferred(t, c)
        /\ \A t, c, q : FilterAlgorithm(t, c, q)' = FilterAlgorithm(t, c, q)
    BY <1>2, SetupKept
  <1>7. \/ Phase(p) \in {0, 3} /\ tr[p].made = tr[s].made
        \/ Phase(p) = 1 /\ tr[p].made = tr[s].made + 1
    BY <1>2, PhasePairs
  <1>8. /\ tr[s].made \in Nat /\ tr[p].made \in Nat
    BY <1>1 DEF Shape
  <1>9. PICK m : Sends(s, <<m>>) /\ m.type = KEXINIT /\ m.val = tr'[s].local_kex_init
    BY DEF SendsInit
  <1>10. /\ d \in Nat /\ Old(s, d)
         /\ \A i \in DOMAIN wire'[p] : \/ i \in DOMAIN wire[p] /\ wire'[p][i] = wire[p][i]
                                       \/ wire'[p][i] = m
         /\ \A type : type # KEXINIT /\ Once(p, type) => Once(p, type)'
         /\ (\A i \in DOMAIN wire[p] : wire[p][i].type # KEXINIT) => Once(p, KEXINIT)'
    <2> DEFINE pk == <<m>>
    <2>1. IsSeq(pk) /\ DOMAIN pk = {1} /\ pk[1] = m /\ Sends(s, pk)
      <3>1. IsSeq(pk) /\ Len(pk) = 1 /\ pk[1] = m
        BY ShortSeqs
      <3> HIDE DEF pk
      <3>2. DOMAIN pk = 1 .. 1
        BY <3>1, SeqFacts
      <3>3. 1 .. 1 = {1}
        OBVIOUS
      <3> QED BY <1>9, <3>1, <3>2, <3>3 DEF pk
    <2>2. d \in Nat /\ Old(s, d)
      BY DEF SendsInit
    <2> HIDE DEF pk
    <2> QED BY <1>1, <1>9, <2>1, <2>2, Sent
  <1>11. PhasesOK'
    <2>1. \/ tr'[s].made = tr'[p].made /\ Phase(p) = 1
          \/ Phase(p) \in {0, 3} /\ tr'[s].made = tr'[p].made + 1
      BY <1>2, <1>7, <1>8
    <2>2. <<1, 1>> \in SamePairs
      BY DEF SamePairs
    <2> QED BY <1>5, <2>1, <2>2, NewPhases
  <1>12. Phase("client") # 2 /\ Phase("client")' # 2
    BY <1>2, <1>5, <1>7, Ends
  <1>13. OneEngine' /\ EngineToServer' /\ EngineToClient' /\ KexOK'
    <2>1. \A t \in Side : \A i \in DOMAIN wire[t] : wire[t][i].type \notin EngineTypes
      BY <1>12, NoEngine
    <2>2. \A i \in DOMAIN wire'[s] : wire'[s][i].type \notin EngineTypes
      BY <1>10, <2>1 DEF Old
    <2>3. \A i \in DOMAIN wire'[p] : wire'[p][i].type \notin EngineTypes
      BY <1>1, <1>9, <1>10, <2>1, Types
    <2>4. \A t \in Side : \A i \in DOMAIN wire'[t] : wire'[t][i].type \notin EngineTypes
      BY <1>1, <2>2, <2>3
    <2> QED BY <1>12, <2>4, QuietEngines DEF KexOK
  <1>14. HashOK'
    <2>1. HashOK
      BY Parts
    <2> QED BY <1>2, <1>5, <2>1, Ends DEF HashOK, C, V
  <1>15. OutOK'
    <2>1. OutOK
      BY Parts
    <2> QED BY <1>2, <1>6, <2>1, Ends DEF OutOK, C
  <1>16. HostOK'
    <2>1. HostOK
      BY Parts
    <2>2. CASE s = "client"
      BY <1>2, <1>5, <1>8, <2>1, <2>2 DEF HostOK, C
    <2>3. CASE s = "server"
      BY <1>2, <1>5, <2>1, <2>3, Ends DEF HostOK, C
    <2> QED BY <2>2, <2>3, Ends
  <1>17. FirstOK'
    <2>1. FirstOK
      BY Parts
    <2>2. CASE s = "client"
      BY <1>2, <1>5, <1>8, <2>1, <2>2, Ends DEF FirstOK, C, V
    <2>3. CASE s = "server"
      BY <1>2, <1>5, <1>8, <2>1, <2>3, Ends DEF FirstOK, C, V
    <2> QED BY <2>2, <2>3, Ends
  <1>18. ExpectedOK(s)' /\ LocalOK(s)' /\ AgreedOK(s)'
    <2>1. ExpectedOK(s)'
      BY <1>2, <1>5, <1>7, Ends DEF ExpectedOK
    <2>2. s = "client" => tr[s].preferred_kex = setup.preferred["client"]["kex"]
      BY Parts DEF AgreedOK
    <2>3. LocalOK(s)'
      BY <1>2, <1>3, <2>2, LocalListsNext, Ends
    <2>4. AgreedOK(s)'
      BY <1>2, <1>5, <1>6, Parts DEF AgreedOK
    <2> QED BY <2>1, <2>3, <2>4
  <1>19. ExpectedOK(p)' /\ LocalOK(p)' /\ AgreedOK(p)'
    <2>1. ExpectedOK(p)'
      BY <1>1, <1>2, <1>5, <1>7, Parts, Ends DEF ExpectedOK
    <2>2. LocalOK(p)'
      BY <1>1, <1>2, <1>6, Parts, Ends DEF LocalOK, V, ServerKex
    <2>3. AgreedOK(p)'
      BY <1>1, <1>2, <1>5, <1>6, <1>7, Parts, Ends DEF AgreedOK, V, ServerKex
    <2> QED BY <2>1, <2>2, <2>3
  <1>20. InitWire(s)' /\ InitWire(p)'
    <2>1. InitWire(s) /\ InitWire(p)
      BY <1>1, Parts
    <2>2. \A i \in DOMAIN wire[p] : wire[p][i].type # KEXINIT
      BY <1>1, <1>2, <2>1 DEF InitWire
    <2>3. Once(p, KEXINIT)'
      BY <1>10, <2>2
    <2>4. \A i \in DOMAIN wire'[p] : wire'[p][i].type = KEXINIT =>
            wire'[p][i].val = tr'[s].local_kex_init
      BY <1>9, <1>10, <2>2
    <2>5. InitWire(p)'
      BY <1>1, <1>5, <1>7, <2>3, <2>4 DEF InitWire
    <2>6. Once(s, KEXINIT)'
      BY <1>10, <2>1, OldOnce DEF InitWire
    <2>7. \A i \in DOMAIN wire'[s] : wire'[s][i].type = KEXINIT =>
            wire'[s][i].val = tr[p].local_kex_init /\ Phase(p) = 1
      BY <1>2, <1>10, <2>1 DEF InitWire, Old
    <2>8. InitWire(s)'
      BY <1>1, <1>2, <1>5, <2>6, <2>7 DEF InitWire
    <2> QED BY <2>5, <2>8
  <1>21. NewkeysWire(s)' /\ NewkeysWire(p)'
    <2>1. NewkeysWire(s) /\ NewkeysWire(p)
      BY <1>1, Parts
    <2>2. \A i \in DOMAIN wire[s] : wire[s][i].type # NEWKEYS
      BY <1>2, <2>1 DEF NewkeysWire, Behind
    <2>3. \A i \in DOMAIN wire'[s] : wire'[s][i].type # NEWKEYS
      BY <1>10, <2>2 DEF Old
    <2>4. NewkeysWire(s)'
      BY <2>3 DEF NewkeysWire, Once
    <2>5. Once(p, NEWKEYS)'
      BY <1>10, <2>1, Types DEF NewkeysWire
    <2>6. \A i \in DOMAIN wire'[p] : wire'[p][i].type = NEWKEYS =>
            Behind(p) /\ tr[s].strict = Strict /\ tr[s].out_key = <<tr[s].H, Algs>>
      BY <1>1, <1>9, <1>10, <2>1, Types DEF NewkeysWire
    <2>7. Behind(p) => Behind(p)' /\ Phase(p)' = 3
      BY <1>1, <1>2, <1>5 DEF Behind
    <2>8. NewkeysWire(p)'
      BY <1>1, <1>2, <1>6, <2>5, <2>6, <2>7 DEF NewkeysWire
    <2> QED BY <2>4, <2>8
  <1>22. KeyOK(s)' /\ KeyOK(p)'
    <2>1. ~Behind(p)' => ~Behind(p)
      BY <1>1, <1>2, <1>5 DEF Behind
    <2>2. ~Behind(s)
      BY <1>2 DEF Behind
    <2> QED BY <1>1, <1>2, <2>1, <2>2, Parts DEF KeyOK
  <1>23. \A t \in Side : /\ ExpectedOK(t)' /\ LocalOK(t)' /\ AgreedOK(t)'
                         /\ InitWire(t)' /\ NewkeysWire(t)' /\ KeyOK(t)'
    BY <1>1, <1>18, <1>19, <1>20, <1>21, <1>22
  <1> QED BY <1>5, <1>11, <1>13, <1>14, <1>15, <1>16, <1>17, <1>23 DEF Core

\* A list of one message.
LEMMA OnePacket ==
    ASSUME NEW T, NEW val, NEW nout \in Nat, NEW out, T.seqno_out = nout, T.out_key = out,
           NEW type
    PROVE  \E m : /\ Packets(T, <<Msg(type, val)>>) = <<m>> /\ m.type = type
                  /\ m.val = val /\ m.key = out /\ m.seq = nout
  <1> DEFINE msgs == <<Msg(type, val)>>
             pk == Packets(T, msgs)
  <1>1. IsSeq(msgs) /\ Len(msgs) = 1 /\ msgs[1] = Msg(type, val)
    BY ShortSeqs
  <1>2. msgs[1].type = type /\ msgs[1].val = val
    BY <1>1 DEF Msg
  <1> HIDE DEF msgs
  <1>3. /\ IsSeq(pk) /\ Len(pk) = 1 /\ DOMAIN pk = 1 .. 1
        /\ pk[1].type = type /\ pk[1].val = val /\ pk[1].seq = nout + 1 - 1 /\ pk[1].key = out
    BY <1>1, <1>2, PacketsFacts
  <1>4. pk = <<pk[1]>>
    <2> HIDE DEF pk
    <2>1. pk \in Seq(Range(pk))
      BY <1>3 DEF IsSeq
    <2> QED BY <1>3, <2>1
  <1>5. pk[1].seq = nout
    BY <1>3
  <1> HIDE DEF pk
  <1>6. \E m : pk = <<m>> /\ m.type = type /\ m.val = val /\ m.key = out /\ m.seq = nout
    BY <1>3, <1>4, <1>5
  <1> QED BY <1>6 DEF pk, msgs

\* Behind the version line the packets are numbered from zero.
LEMMA FirstStream ==
    ASSUME NEW q, NEW r, NEW n \in Nat, n >= 1, Len(q) = n, DOMAIN q = 1 .. n,
           Len(r) = n - 1, DOMAIN r = 1 .. (n - 1), \A i \in DOMAIN r : r[i] = q[i + 1],
           q[1].type = VERSION, \A i \in DOMAIN r : r[i].type # NEWKEYS,
           NEW nout, NEW open, NEW strict, Banner(q, nout, open)
    PROVE  Stream(r, NoKeys, 0, NoKeys, nout, strict, open)
  <1>1. /\ \A j \in DOMAIN q : j > 1 =>
            /\ q[j].type \notin BannerTypes
            /\ q[j].type # CLOSED => q[j].key = NoKeys /\ q[j].seq = j - 1 - 1
        /\ open => nout = n - 1
    BY DEF Banner
  <1>2. ASSUME NEW i \in DOMAIN r
        PROVE  /\ r[i].type \notin BannerTypes
               /\ r[i].type # CLOSED => Fits(r, NoKeys, 0, NoKeys, strict, i, r[i].key, r[i].seq)
    <2>1. i + 1 \in DOMAIN q /\ i + 1 > 1 /\ r[i] = q[i + 1]
      OBVIOUS
    <2>2. /\ r[i].type \notin BannerTypes
          /\ r[i].type # CLOSED => r[i].key = NoKeys /\ r[i].seq = (i + 1) - 1 - 1
      BY <1>1, <2>1
    <2>3. (i + 1) - 1 - 1 = 0 + i - 1 /\ \A j \in 1 .. (i - 1) : r[j].type # NEWKEYS
      OBVIOUS
    <2> QED BY <2>2, <2>3 DEF Fits
  <1>3. open => Fits(r, NoKeys, 0, NoKeys, strict, Len(r) + 1, NoKeys, nout)
    <2> SUFFICES ASSUME open PROVE Fits(r, NoKeys, 0, NoKeys, strict, Len(r) + 1, NoKeys, nout)
      OBVIOUS
    <2>1. nout = 0 + (Len(r) + 1) - 1
      BY <1>1
    <2>2. \A j \in 1 .. ((Len(r) + 1) - 1) : r[j].type # NEWKEYS
      OBVIOUS
    <2> QED BY <2>1, <2>2 DEF Fits
  <1> QED BY <1>2, <1>3 DEF Stream

\* renegotiate_keys.
LEMMA RenegotiateStep ==
    ASSUME HandshakeInv, NEW s \in Side, Renegotiate(s)
    PROVE  HandshakeInv'
  <1> DEFINE p == Peer(s)
             T == SendKexInit(s, tr[s])
             R == [T EXCEPT !.seqno_out = @ + 1]
             msgs == <<Msg(KEXINIT, T.local_kex_init)>>
  <1>1. Shape /\ p \in Side /\ Peer(p) = s /\ p # s /\ tr[s].seqno_out \in Nat
    BY Parts, Ends DEF Shape
  <1>2. /\ tr[s].active /\ tr[s].local_kex_init = NoInit /\ tr' = [tr EXCEPT ![s] = R]
        /\ wire' = [wire EXCEPT ![Peer(s)] = @ \o Packets(T, msgs)]
        /\ setup' = setup /\ app' = app
    BY DEF Renegotiate, Running
  <1>3. /\ DOMAIN T = Fields /\ T.made = tr[s].made + 1 /\ T.gss_kex_used = FALSE
        /\ \A f \in Fields \ {"preferred_kex", "gss_kex_used", "made", "local_kex_init"} :
             T[f] = tr[s][f]
        /\ T.preferred_kex \in Seq(STRING)
        /\ s = "client" => T.preferred_kex = tr[s].preferred_kex
        /\ InitLists(s, T.local_kex_init, T.made, T.preferred_kex)
    BY <1>1, SendKexInitFacts DEF Shape
  <1> HIDE DEF T
  <1>4. /\ DOMAIN R = Fields /\ \A f \in Fields \ {"seqno_out"} : R[f] = T[f]
        /\ R.seqno_out = T.seqno_out + 1
    BY <1>3 DEF Fields
  <1> HIDE DEF R
  <1>5. /\ Others(s) /\ tr'[s] = R /\ wire'[s] = wire[s] /\ wire'[p] = wire[p] \o Packets(T, msgs)
    BY <1>1, <1>2, <1>4, Ends, ZenonT(90) DEF Shape, Others
  <1>6. PICK m : /\ Packets(T, msgs) = <<m>> /\ m.type = KEXINIT /\ m.val = T.local_kex_init
                 /\ m.key = tr[s].out_key /\ m.seq = tr[s].seqno_out
    <2>1. T.seqno_out = tr[s].seqno_out /\ T.out_key = tr[s].out_key
      BY <1>3 DEF Fields
    <2> QED BY <1>1, <2>1, OnePacket
  <1>7. Phase(s) = 0
    BY <1>2 DEF Phase
  <1>8. /\ \A f \in {"remote_kex_init", "agreed", "strict", "H", "session_id", "host_key",
                     "in_key", "out_key", "seqno_in", "active", "stage", "initial_kex_done",
                     "expected"} : tr'[s][f] = tr[s][f]
        /\ tr'[s].made = T.made /\ tr'[s].gss_kex_used = T.gss_kex_used
        /\ tr'[s].preferred_kex = T.preferred_kex /\ tr'[s].local_kex_init = T.local_kex_init
        /\ tr'[s].seqno_out = tr[s].seqno_out + 1
    BY <1>3, <1>4, <1>5 DEF Fields
  <1>9. SendsInit(s, 0)
    <2>1. tr'[s].expected \subseteq {KEXINIT}
      BY <1>7, <1>8, ExpectedFacts
    <2>2. Old(s, 0)
      BY <1>1, <1>5, SameOld
    <2>3. \E x : /\ Sends(s, <<x>>) /\ x.type = KEXINIT /\ x.val = tr'[s].local_kex_init
                 /\ x.key = tr[s].out_key /\ x.seq = tr[s].seqno_out
      BY <1>5, <1>6, <1>8 DEF Sends
    <2>4. /\ Others(s) /\ app' = app /\ tr[s].active /\ Phase(s) = 0
          /\ tr'[s].made = tr[s].made + 1 /\ tr'[s].gss_kex_used = FALSE
          /\ \A f \in {"remote_kex_init", "agreed", "strict", "H", "session_id", "host_key",
                       "in_key", "out_key", "seqno_in", "active"} : tr'[s][f] = tr[s][f]
          /\ tr'[s].seqno_out = tr[s].seqno_out + 1
          /\ tr'[s].preferred_kex \in Seq(STRING)
          /\ s = "client" => tr'[s].preferred_kex = tr[s].preferred_kex
      BY <1>2, <1>3, <1>5, <1>7, <1>8
    <2>5. InitLists(s, tr'[s].local_kex_init, tr'[s].made, tr'[s].preferred_kex)
      BY <1>3, <1>8
    <2> QED BY <2>1, <2>2, <2>3, <2>4, <2>5 DEF SendsInit
  <1>10. Core'
    BY <1>9, SendsInitCore
  <1>11. Shape'
    <2>1. IsSeq(wire'[s]) /\ IsSeq(wire'[p])
      BY <1>1, <1>5, <1>9, SendsInitPeer DEF Shape
    <2>2. tr'[s].made \in Nat /\ tr'[s].seqno_in \in Nat /\ tr'[s].seqno_out \in Nat
      BY <1>1, <1>3, <1>8, SMTT(60) DEF Shape
    <2>3. tr'[s].strict \in BOOLEAN /\ tr'[s].preferred_kex \in Seq(STRING)
      BY <1>1, <1>3, <1>8 DEF Shape
    <2> QED BY <1>1, <1>2, <1>5, <2>1, <2>2, <2>3, StepShape DEF Shape
  <1>12. Rest(p)'
    BY <1>2, <1>5, <1>9, SendsInitPeer, OtherStage DEF Rest
  <1>13. Rest(s)'
    <2>1. StageOK(s) /\ tr[s].initial_kex_done
      BY Parts DEF Renegotiate
    <2>2. StageOK(s)'
      BY <1>2, <1>8, <2>1 DEF StageOK
    <2>3. ClosedWire(s)'
      BY <1>2, <1>5, Parts, ZenonT(90) DEF ClosedWire, Others
    <2>4. Strict' = Strict
      BY <1>2, SetupKept
    <2>5. StreamOK(s)'
      <3>1. tr[s].stage = "loop" =>
              /\ app[p] # "idle"
              /\ Stream(wire[s], tr[s].in_key, tr[s].seqno_in, tr[p].out_key, tr[p].seqno_out,
                        Strict, tr[p].active)
        BY Parts DEF StreamOK
      <3> QED BY <1>2, <1>5, <1>8, <2>4, <3>1 DEF StreamOK, Others
    <2>6. BannerOK(s)'
      <3>1. tr[s].stage \notin {"new", "banner"}
        BY <2>1 DEF StageOK
      <3>2. BannerOK(s)
        BY Parts
      <3> QED BY <1>2, <1>5, <1>8, <3>1, <3>2 DEF BannerOK
    <2> QED BY <2>2, <2>3, <2>5, <2>6 DEF Rest
  <1> QED BY <1>10, <1>11, <1>12, <1>13, Whole

\* The version line is there: the KEXINIT behind it is packet 0.
LEMMA BannerReadStep ==
    ASSUME HandshakeInv, NEW s \in Side, tr[s].active, tr[s].stage = "banner", wire[s] # <<>>,
           Read(s).type = VERSION, BannerRead(s)
    PROVE  HandshakeInv'
  <1> DEFINE p == Peer(s)
             B == [tr[s] EXCEPT !.stage = "loop", !.timer = TRUE]
             T == SendKexInit(s, B)
             R == [T EXCEPT !.expected = {KEXINIT}, !.seqno_out = @ + 1]
             msgs == <<Msg(KEXINIT, T.local_kex_init)>>
  <1>1. Shape /\ p \in Side /\ Peer(p) = s /\ p # s /\ tr[s].seqno_out \in Nat
    BY Parts, Ends DEF Shape
  <1>2. Leaves(s, R, Packets(T, msgs))
    BY DEF BannerRead
  <1>3. /\ DOMAIN B = Fields /\ B.stage = "loop" /\ \A f \in Fields \ {"stage", "timer"} : B[f] = tr[s][f]
    BY <1>1 DEF Shape, Fields
  <1> HIDE DEF B
  <1>4. /\ DOMAIN T = Fields /\ T.made = tr[s].made + 1 /\ T.gss_kex_used = FALSE
        /\ \A f \in Fields \ {"preferred_kex", "gss_kex_used", "made", "local_kex_init"} :
             T[f] = B[f]
        /\ T.preferred_kex \in Seq(STRING)
        /\ s = "client" => T.preferred_kex = tr[s].preferred_kex
        /\ InitLists(s, T.local_kex_init, T.made, T.preferred_kex)
    <2>1. B.made = tr[s].made /\ B.preferred_kex = tr[s].preferred_kex
      BY <1>3 DEF Fields
    <2>2. B.made \in Nat /\ B.preferred_kex \in Seq(STRING) /\ setup \in Setups
      BY <1>1, <2>1 DEF Shape
    <2>3. /\ DOMAIN T = Fields /\ T.made = B.made + 1 /\ T.gss_kex_used = FALSE
          /\ \A f \in Fields \ {"preferred_kex", "gss_kex_used", "made", "local_kex_init"} :
               T[f] = B[f]
          /\ T.preferred_kex \in Seq(STRING)
          /\ s = "client" => T.preferred_kex = B.preferred_kex
          /\ InitLists(s, T.local_kex_init, T.made, T.preferred_kex)
      BY <1>3, <2>2, SendKexInitFacts
    <2> HIDE DEF T
    <2> QED BY <2>1, <2>3
  <1> HIDE DEF T
  <1>5. /\ DOMAIN R = Fields /\ \A f \in Fields \ {"seqno_out", "expected"} : R[f] = T[f]
        /\ R.seqno_out = T.seqno_out + 1 /\ R.expected = {KEXINIT}
    BY <1>4 DEF Fields
  <1> HIDE DEF R
  <1>6. Others(s) /\ Wires(s, Packets(T, msgs)) /\ tr'[s] = R /\ app' = app
    BY <1>1, <1>2, <1>5, LeavesFacts
  <1>7. PICK m : /\ Packets(T, msgs) = <<m>> /\ m.type = KEXINIT /\ m.val = T.local_kex_init
                 /\ m.key = tr[s].out_key /\ m.seq = tr[s].seqno_out
    <2>1. T.seqno_out = tr[s].seqno_out /\ T.out_key = tr[s].out_key
      BY <1>3, <1>4 DEF Fields
    <2> QED BY <1>1, <2>1, OnePacket
  <1>8. /\ Phase(s) = 0 /\ tr[s].seqno_in = 0 /\ tr[s].in_key = NoKeys
    BY Parts DEF StageOK
  <1>9. /\ \A f \in {"remote_kex_init", "agreed", "strict", "H", "session_id", "host_key",
                     "in_key", "out_key", "seqno_in", "active"} : tr'[s][f] = tr[s][f]
        /\ tr'[s].stage = "loop" /\ tr'[s].expected = {KEXINIT}
        /\ tr'[s].made = T.made /\ tr'[s].gss_kex_used = T.gss_kex_used
        /\ tr'[s].preferred_kex = T.preferred_kex /\ tr'[s].local_kex_init = T.local_kex_init
        /\ tr'[s].seqno_out = tr[s].seqno_out + 1
    BY <1>3, <1>4, <1>5, <1>6 DEF Fields
  <1>10. wire'[s] = Tail(wire[s]) /\ wire'[p] = wire[p] \o Packets(T, msgs)
    BY <1>6 DEF Wires
  <1>11. SendsInit(s, 1)
    <2>2. Old(s, 1)
      BY <1>1, <1>10, ReadOld
    <2>3. \E x : /\ Sends(s, <<x>>) /\ x.type = KEXINIT /\ x.val = tr'[s].local_kex_init
                 /\ x.key = tr[s].out_key /\ x.seq = tr[s].seqno_out
      BY <1>7, <1>9, <1>10 DEF Sends
    <2>4. /\ Others(s) /\ app' = app /\ tr[s].active /\ Phase(s) = 0
          /\ tr'[s].made = tr[s].made + 1 /\ tr'[s].gss_kex_used = FALSE
          /\ tr'[s].expected \subseteq {KEXINIT}
          /\ \A f \in {"remote_kex_init", "agreed", "strict", "H", "session_id", "host_key",
                       "in_key", "out_key", "seqno_in", "active"} : tr'[s][f] = tr[s][f]
          /\ tr'[s].seqno_out = tr[s].seqno_out + 1
          /\ tr'[s].preferred_kex \in Seq(STRING)
          /\ s = "client" => tr'[s].preferred_kex = tr[s].preferred_kex
      BY <1>4, <1>6, <1>8, <1>9
    <2>5. InitLists(s, tr'[s].local_kex_init, tr'[s].made, tr'[s].preferred_kex)
      BY <1>4, <1>9
    <2> QED BY <2>2, <2>3, <2>4, <2>5 DEF SendsInit
  <1>12. Core'
    BY <1>11, SendsInitCore
  <1>13. Shape'
    <2>1. IsSeq(wire'[s]) /\ IsSeq(wire'[p])
      BY <1>1, <1>10, <1>11, SendsInitPeer, ReadFacts
    <2>2. tr'[s].made \in Nat /\ tr'[s].seqno_in \in Nat /\ tr'[s].seqno_out \in Nat
      BY <1>1, <1>4, <1>9, SMTT(60) DEF Shape
    <2>3. tr'[s].strict \in BOOLEAN /\ tr'[s].preferred_kex \in Seq(STRING)
      BY <1>1, <1>4, <1>9 DEF Shape
    <2> QED BY <1>1, <1>6, <2>1, <2>2, <2>3, StepShape DEF Shape
  <1>14. Rest(p)'
    BY <1>6, <1>11, SendsInitPeer, OtherStage DEF Rest
  <1>15. Rest(s)'
    <2>1. app[s] # "idle"
      BY ActiveFacts
    <2>2. StageOK(s)'
      BY <1>6, <1>9, <2>1 DEF StageOK
    <2>3. ClosedWire(s)'
      BY <1>6, <1>10, TailClosed
    <2> DEFINE q == wire[s]
               r == wire'[s]
               n == Len(wire[s])
    <2>4. /\ n \in Nat /\ n >= 1 /\ DOMAIN q = 1 .. n /\ Len(r) = n - 1 /\ DOMAIN r = 1 .. (n - 1)
          /\ \A i \in DOMAIN r : r[i] = q[i + 1]
          /\ q[1].type = VERSION /\ Len(q) = n
      BY <1>1, <1>10, ReadFacts
    <2>5. Banner(q, tr[p].seqno_out, tr[p].active) /\ app[p] # "idle"
      BY Parts DEF BannerOK
    <2>6. \A i \in DOMAIN r : r[i].type # NEWKEYS
      <3>1. \A i \in DOMAIN q : q[i].type # NEWKEYS
        BY <1>8, Parts DEF NewkeysWire, Behind
      <3> QED BY <2>4, <3>1, SMTT(60)
    <2>7. tr[p].out_key = NoKeys
      BY BannerKeys
    <2>8. Stream(r, NoKeys, 0, NoKeys, tr[p].seqno_out, Strict, tr[p].active)
      <3> HIDE DEF p, q, r, n
      <3> QED BY <2>4, <2>5, <2>6, FirstStream
    <2>9. Strict' = Strict
      BY <1>6, SetupKept DEF Others
    <2>10. StreamOK(s)'
      BY <1>6, <1>8, <1>9, <2>5, <2>7, <2>8, <2>9 DEF StreamOK, Others
    <2>11. BannerOK(s)'
      BY <1>6, <1>9, <2>5 DEF BannerOK
    <2> QED BY <2>2, <2>3, <2>10, <2>11 DEF Rest
  <1> QED BY <1>12, <1>13, <1>14, <1>15, Whole
-----------------------------------------------------------------------------
(* KEXINIT is read *)

EngineFields == {"bits", "p", "old_style", "e", "f"}

\* What an engine does at the start.
Starting(s, T, k) ==
    /\ DOMAIN k.T = Fields /\ \A f \in Fields \ EngineFields : k.T[f] = T[f]
    /\ k.types = FirstTypes(s, T.agreed.kex)
    /\ s = "server" => k.msgs = <<>>
    /\ s = "client" => \E m : /\ k.msgs = <<m>>
                              /\ m.type \in ClientSends(T.agreed.kex) /\ m.type \in EngineTypes
                              /\ T.agreed.kex = "gex" =>
                                   m.type = GEX_REQUEST \/ (m.type = GEX_REQUEST_OLD /\ ~Ephemeral(m.val))

LEMMA StartsFacts ==
    ASSUME NEW T, NEW msgs, NEW types
    PROVE  /\ Starts(T, msgs, types).T = T /\ Starts(T, msgs, types).msgs = msgs
           /\ Starts(T, msgs, types).types = types
  BY DEF Starts

LEMMA StartKexFacts ==
    ASSUME NEW s \in Side, NEW T, DOMAIN T = Fields, T.agreed.kex \in Kex
    PROVE  Starting(s, T, StartKex(s, T))
  <1> DEFINE new == [T EXCEPT !.bits = <<>>, !.p = 0, !.old_style = FALSE, !.e = <<>>, !.f = <<>>]
             kex == T.agreed.kex
             k == StartKex(s, T)
  <1> USE DEF KEXDH_INIT, KEXDH_REPLY, GEX_REQUEST, GEX_REQUEST_OLD, GEX_GROUP, KEXGSS_INIT,
              KEXGSS_GROUPREQ, KEXGSS_GROUP
  <1>1. DOMAIN new = Fields /\ \A f \in Fields \ EngineFields : new[f] = T[f]
    BY DEF Fields, EngineFields
  <1>2. /\ kex = "group" => k = StartGroup(s, new)
        /\ kex = "ecdh" => k = StartEcdh(s, new)
        /\ kex = "gex" => k = StartGex(s, new)
        /\ kex = "gss" => k = StartGssGroup(s, new)
        /\ kex = "gss_gex" => k = StartGssGex(s, new)
    BY DEF StartKex
  <1> HIDE DEF new, k
  <1>3. ASSUME NEW val
        PROVE  /\ DOMAIN [new EXCEPT !.e = val] = Fields
               /\ \A f \in Fields \ EngineFields : [new EXCEPT !.e = val][f] = T[f]
               /\ DOMAIN [new EXCEPT !.f = val] = Fields
               /\ \A f \in Fields \ EngineFields : [new EXCEPT !.f = val][f] = T[f]
               /\ DOMAIN [new EXCEPT !.bits = val] = Fields
               /\ \A f \in Fields \ EngineFields : [new EXCEPT !.bits = val][f] = T[f]
    BY <1>1 DEF Fields, EngineFields
  <1>4. ASSUME NEW a, NEW b
        PROVE  /\ DOMAIN [new EXCEPT !.bits = a, !.old_style = b] = Fields
               /\ \A f \in Fields \ EngineFields : [new EXCEPT !.bits = a, !.old_style = b][f] = T[f]
    BY <1>1 DEF Fields, EngineFields
  <1>5. \A type, val : Msg(type, val).type = type /\ Msg(type, val).val = val
    BY DEF Msg
  <1>6. CASE s = "server"
    <2>1. kex \in {"group", "ecdh", "gss"} =>
            k.T = [new EXCEPT !.f = Fresh("server", new)] /\ k.msgs = <<>> /\ k.types = {30}
      <3>1. ASSUME kex = "group" PROVE k = Starts([new EXCEPT !.f = Fresh("server", new)], <<>>, {30})
        BY <1>2, <1>6, <3>1 DEF StartGroup
      <3>2. ASSUME kex = "ecdh" PROVE k = Starts([new EXCEPT !.f = Fresh("server", new)], <<>>, {30})
        BY <1>2, <1>6, <3>2 DEF StartEcdh
      <3>3. ASSUME kex = "gss" PROVE k = Starts([new EXCEPT !.f = Fresh("server", new)], <<>>, {30})
        BY <1>2, <1>6, <3>3 DEF StartGssGroup
      <3> QED BY <3>1, <3>2, <3>3, StartsFacts
    <2>2. kex = "gex" => k.T = new /\ k.msgs = <<>> /\ k.types = {34, 30}
      <3>1. ASSUME kex = "gex" PROVE k = Starts(new, <<>>, {34, 30})
        BY <1>2, <1>6, <3>1 DEF StartGex
      <3> QED BY <3>1, StartsFacts
    <2>3. kex = "gss_gex" => k.T = new /\ k.msgs = <<>> /\ k.types = {40}
      <3>1. ASSUME kex = "gss_gex" PROVE k = Starts(new, <<>>, {40})
        BY <1>2, <1>6, <3>1 DEF StartGssGex
      <3> QED BY <3>1, StartsFacts
    <2>4. kex \in {"group", "ecdh", "gss", "gex", "gss_gex"}
      BY DEF Kex
    <2>5. k.types = FirstTypes("server", kex)
      BY <2>1, <2>2, <2>3, <2>4 DEF FirstTypes
    <2>6. DOMAIN k.T = Fields /\ \A f \in Fields \ EngineFields : k.T[f] = T[f]
      <3>1. CASE kex \in {"group", "ecdh", "gss"}
        <4>1. k.T = [new EXCEPT !.f = Fresh("server", new)]
          BY <2>1, <3>1
        <4> QED BY ONLY <4>1, <1>3
      <3>2. CASE kex \in {"gex", "gss_gex"}
        <4>1. k.T = new
          BY <2>2, <2>3, <3>2
        <4> QED BY ONLY <4>1, <1>1
      <3> QED BY <2>4, <3>1, <3>2
    <2>7. k.msgs = <<>>
      BY <2>1, <2>2, <2>3, <2>4
    <2> HIDE DEF kex
    <2>8. Starting("server", T, k)
      BY <2>5, <2>6, <2>7 DEF Starting, kex
    <2> QED BY <1>6, <2>8 DEF k
  <1>7. CASE s = "client"
    <2>1. kex \in {"group", "ecdh"} =>
            /\ k.T = [new EXCEPT !.e = Fresh("client", new)]
            /\ k.msgs = <<Msg(30, Fresh("client", new))>> /\ k.types = {31}
      <3>1. ASSUME kex = "group"
            PROVE  k = Starts([new EXCEPT !.e = Fresh("client", new)],
                              <<Msg(30, Fresh("client", new))>>, {31})
        BY <1>2, <1>7, <3>1 DEF StartGroup
      <3>2. ASSUME kex = "ecdh"
            PROVE  k = Starts([new EXCEPT !.e = Fresh("client", new)],
                              <<Msg(30, Fresh("client", new))>>, {31})
        BY <1>2, <1>7, <3>2 DEF StartEcdh
      <3> QED BY <3>1, <3>2, StartsFacts
    <2>2. kex = "gss" =>
            /\ k.T = [new EXCEPT !.e = Fresh("client", new)]
            /\ k.msgs = <<Msg(30, Fresh("client", new))>> /\ k.types = AnswersToInit
      <3>1. ASSUME kex = "gss"
            PROVE  k = Starts([new EXCEPT !.e = Fresh("client", new)],
                              <<Msg(30, Fresh("client", new))>>, AnswersToInit)
        BY <1>2, <1>7, <3>1 DEF StartGssGroup
      <3> QED BY <3>1, StartsFacts
    <2>3. kex = "gex" =>
            \E m : /\ k.T = [new EXCEPT !.bits = Ask, !.old_style = setup.bits.old]
                   /\ k.msgs = <<m>> /\ k.types = {31}
                   /\ m = Msg(34, Ask) \/ m = Msg(30, <<"bits", setup.bits.prefer>>)
      <3> DEFINE m == IF setup.bits.old THEN Msg(30, <<"bits", setup.bits.prefer>>) ELSE Msg(34, Ask)
      <3>1. ASSUME kex = "gex"
            PROVE  k = Starts([new EXCEPT !.bits = Ask, !.old_style = setup.bits.old], <<m>>, {31})
        BY <1>2, <1>7, <3>1 DEF StartGex
      <3>2. m = Msg(34, Ask) \/ m = Msg(30, <<"bits", setup.bits.prefer>>)
        OBVIOUS
      <3> HIDE DEF m
      <3> QED BY <3>1, <3>2, StartsFacts
    <2>4. kex = "gss_gex" =>
            k.T = [new EXCEPT !.bits = Ask] /\ k.msgs = <<Msg(40, Ask)>> /\ k.types = {41}
      <3>1. ASSUME kex = "gss_gex"
            PROVE  k = Starts([new EXCEPT !.bits = Ask], <<Msg(40, Ask)>>, {41})
        BY <1>2, <1>7, <3>1 DEF StartGssGex
      <3> QED BY <3>1, StartsFacts
    <2>5. kex \in {"group", "ecdh", "gss", "gex", "gss_gex"}
      BY DEF Kex
    <2>6. k.types = FirstTypes("client", kex)
      BY <2>1, <2>2, <2>3, <2>4, <2>5 DEF FirstTypes
    <2>7. DOMAIN k.T = Fields /\ \A f \in Fields \ EngineFields : k.T[f] = T[f]
      <3>1. CASE kex \in {"group", "ecdh", "gss"}
        <4>1. k.T = [new EXCEPT !.e = Fresh("client", new)]
          BY <2>1, <2>2, <3>1
        <4> QED BY ONLY <4>1, <1>3, Zenon
      <3>2. CASE kex = "gex"
        <4>1. k.T = [new EXCEPT !.bits = Ask, !.old_style = setup.bits.old]
          BY <2>3, <3>2
        <4> QED BY ONLY <4>1, <1>4, Zenon
      <3>3. CASE kex = "gss_gex"
        <4>1. k.T = [new EXCEPT !.bits = Ask]
          BY <2>4, <3>3
        <4> QED BY ONLY <4>1, <1>3, Zenon
      <3> QED BY <2>5, <3>1, <3>2, <3>3
    <2>8. \A x : ~Ephemeral(<<"bits", x>>)
      BY DEF Ephemeral, Side
    <2>9. \E m : /\ k.msgs = <<m>>
                 /\ m.type \in ClientSends(kex) /\ m.type \in EngineTypes
                 /\ kex = "gex" =>
                      m.type = GEX_REQUEST \/ (m.type = GEX_REQUEST_OLD /\ ~Ephemeral(m.val))
      <3>1. CASE kex \in {"group", "ecdh", "gss"}
        <4>1. \E val : k.msgs = <<Msg(30, val)>>
          BY <2>1, <2>2, <3>1
        <4>2. 30 \in ClientSends(kex) /\ 30 \in EngineTypes /\ kex # "gex"
          BY <3>1, Types DEF ClientSends
        <4> QED BY <1>5, <4>1, <4>2
      <3>2. CASE kex = "gss_gex"
        <4>1. 40 \in ClientSends(kex) /\ 40 \in EngineTypes /\ kex # "gex"
          BY <3>2, Types DEF ClientSends
        <4> QED BY <1>5, <2>4, <3>2, <4>1
      <3>3. CASE kex = "gex"
        <4>1. {30, 34} \subseteq ClientSends(kex) /\ {30, 34} \subseteq EngineTypes
          BY <3>3, Types DEF ClientSends
        <4>2. PICK m : /\ k.msgs = <<m>>
                       /\ m = Msg(34, Ask) \/ m = Msg(30, <<"bits", setup.bits.prefer>>)
          BY <2>3, <3>3
        <4>3. m.type = 34 \/ (m.type = 30 /\ ~Ephemeral(m.val))
          BY <1>5, <2>8, <4>2
        <4> QED BY <4>1, <4>2, <4>3
      <3> QED BY <2>5, <3>1, <3>2, <3>3
    <2> HIDE DEF kex
    <2>10. Starting("client", T, k)
      BY <2>6, <2>7, <2>9 DEF Starting, kex
    <2> QED BY <1>7, <2>10 DEF k
  <1> QED BY <1>6, <1>7, Ends

\* The two ends choose the same engine, or the client group exchange.
LEMMA AnyKexChoice ==
    ASSUME NEW X, NEW q \in Seq(X), NEW A, NEW B, B \subseteq A, A \ {"gex"} = B \ {"gex"},
           Keep(q, A) # <<>> \/ Keep(q, B) # <<>>
    PROVE  Keep(q, A)[1] = Keep(q, B)[1] \/ Keep(q, A)[1] = "gex"
  <1>1. /\ Range(Keep(q, A)) = Range(q) \cap A /\ Range(Keep(q, B)) = Range(q) \cap B
        /\ Keep(q, A) \in Seq(X) /\ Keep(q, B) \in Seq(X)
        /\ Keep(q, A) # <<>> => Keep(q, A)[1] \in Range(q) \cap A
        /\ Keep(q, B) # <<>> => Keep(q, B)[1] \in Range(q) \cap B
    BY KeepFacts
  <1> DEFINE a == Keep(q, A)
             b == Keep(q, B)
  <1>2. Range(<<>>) = {}
    BY DEF Range
  <1>3. CASE b # <<>>
    <2>1. a # <<>>
      <3>1. b[1] \in Range(a)
        BY <1>1, <1>3
      <3> QED BY <1>2, <3>1
    <2> QED BY <1>3, <2>1, KexChoice
  <1>4. CASE b = <<>>
    <2>1. a[1] \in Range(q) \cap A
      BY <1>1, <1>4
    <2>2. Range(q) \cap B = {}
      BY <1>1, <1>2, <1>4
    <2> QED BY <2>1, <2>2
  <1> QED BY <1>3, <1>4

\* The client's list of engines.
LEMMA ClientKexFacts ==
    ASSUME setup \in Setups
    PROVE  /\ ClientKex \in Seq(STRING)
           /\ \A S : Keep(ClientKex, S) # <<>> => Keep(ClientKex, S)[1] \in Kex
  <1> DEFINE q == setup.preferred["client"]["kex"]
  <1>1. q \in Seq(STRING) /\ Range(q) \subseteq Kex
    BY SetupFacts, Ends DEF Category
  <1>2. ClientKex = FilterAlgorithm("client", "kex", q)
    BY DEF ClientKex
  <1> HIDE DEF q
  <1>3. ClientKex \in Seq(STRING) /\ Range(ClientKex) \subseteq Range(q)
    BY <1>1, <1>2, FilterFacts
  <1>4. ASSUME NEW S, Keep(ClientKex, S) # <<>>
        PROVE  Keep(ClientKex, S)[1] \in Kex
    <2>1. Keep(ClientKex, S)[1] \in Range(ClientKex) \cap S
      BY <1>3, <1>4, KeepFacts
    <2> QED BY <1>1, <1>3, <2>1
  <1> QED BY <1>3, <1>4

\* Both ends find the same algorithms in the two lists.
LEMMA CandidatesFacts ==
    ASSUME setup \in Setups, NEW s \in Side, NEW T, NEW m, NEW made, NEW q,
           InitLists(Peer(s), m, made, q),
           s = "server" => q = setup.preferred["client"]["kex"],
           s = "client" => T.preferred_kex = setup.preferred["client"]["kex"],
           AllFound(Candidates(s, T, m))
    PROVE  LET found == Candidates(s, T, m)
           IN  /\ [c \in Directional |-> found.local[c][1]] = Algs
               /\ [c \in Directional |-> found.remote[c][1]] = Algs
               /\ found.keys[1] = KeyAlg /\ KeyAlg \in Range(AvailableKeys("server"))
               /\ found.kex # <<>> /\ found.kex[1] \in Kex
               /\ s = "client" => found.kex = Keep(ClientKex, Range(m.kex))
               /\ s = "server" => found.kex =
                    Keep(ClientKex, Range(FilterAlgorithm("server", "kex", T.preferred_kex)))
  <1> DEFINE found == Candidates(s, T, m)
             Both(c) == Keep(Preferred("client", c), Range(Preferred("server", c)))
             keys == Keep(AvailableKeys("client"), Range(AvailableKeys("server")))
  <1>1. /\ m.keys = AvailableKeys(Peer(s))
        /\ m.c2s = [c \in Directional |-> Preferred(Peer(s), c)]
        /\ m.s2c = [c \in Directional |-> Preferred(Peer(s), c)]
        /\ s = "server" => m.kex = ClientKex
    BY Ends DEF InitLists, ClientKex
  <1>2. /\ found.local = [c \in Directional |-> Both(c)]
        /\ found.remote = [c \in Directional |-> Both(c)]
        /\ found.keys = keys
    <2>1. CASE s = "client"
      BY <1>1, <2>1 DEF Candidates, Choice, Peer
    <2>2. CASE s = "server"
      BY <1>1, <2>2 DEF Candidates, Choice, Peer
    <2> QED BY <2>1, <2>2, Ends
  <1>3. /\ s = "client" => found.kex = Keep(ClientKex, Range(m.kex))
        /\ s = "server" => found.kex =
             Keep(ClientKex, Range(FilterAlgorithm("server", "kex", T.preferred_kex)))
    BY <1>1 DEF Candidates, Choice, ClientKex
  <1>4. found.kex # <<>> /\ found.keys # <<>>
    BY DEF AllFound
  <1> HIDE DEF found
  <1>5. found.kex[1] \in Kex
    BY <1>3, <1>4, ClientKexFacts, Ends
  <1>6. found.keys[1] = KeyAlg /\ KeyAlg \in Range(AvailableKeys("server"))
    BY <1>2, <1>4, KeyFacts DEF KeyAlg
  <1>7. /\ [c \in Directional |-> found.local[c][1]] = Algs
        /\ [c \in Directional |-> found.remote[c][1]] = Algs
    BY <1>2 DEF Algs
  <1> QED BY <1>3, <1>4, <1>5, <1>6, <1>7 DEF found

\* s reads a packet of its loop, other than NEWKEYS, and answers with its old keys.
Answers(s, packets) ==
    /\ Others(s) /\ app' = app /\ tr[s].active /\ tr[s].stage = "loop"
    /\ wire[s] # <<>> /\ Read(s).type # NEWKEYS /\ app[s] # "idle"
    /\ Wires(s, packets) /\ IsSeq(packets) /\ PlainPackets(s, packets)
    /\ \A f \in {"stage", "active", "in_key", "out_key"} : tr'[s][f] = tr[s][f]
    /\ tr'[s].seqno_in = tr[s].seqno_in + 1
    /\ tr'[s].seqno_out = tr[s].seqno_out + Len(packets)
    /\ tr'[s].made \in Nat /\ tr'[s].strict \in BOOLEAN /\ tr'[s].preferred_kex \in Seq(STRING)

LEMMA AnswersRest ==
    ASSUME HandshakeInv, NEW s \in Side, NEW packets, Answers(s, packets)
    PROVE  Shape' /\ Rest(s)' /\ Rest(Peer(s))'
  <1> DEFINE p == Peer(s)
  <1>1. Shape /\ p \in Side /\ Peer(p) = s
    BY Parts, Ends
  <1>2. /\ Others(s) /\ app' = app /\ tr[s].active /\ tr[s].stage = "loop"
        /\ wire[s] # <<>> /\ Read(s).type # NEWKEYS /\ app[s] # "idle"
        /\ Wires(s, packets) /\ IsSeq(packets) /\ PlainPackets(s, packets)
        /\ tr'[s].stage = "loop" /\ tr'[s].active = tr[s].active
        /\ tr'[s].in_key = tr[s].in_key /\ tr'[s].out_key = tr[s].out_key
        /\ tr'[s].seqno_in = tr[s].seqno_in + 1
        /\ tr'[s].seqno_out = tr[s].seqno_out + Len(packets)
        /\ tr'[s].made \in Nat /\ tr'[s].strict \in BOOLEAN /\ tr'[s].preferred_kex \in Seq(STRING)
    BY DEF Answers
  <1>3. Sends(s, packets) /\ wire'[s] = Tail(wire[s])
    BY <1>2 DEF Wires, Sends
  <1>4. Shape'
    <2>1. IsSeq(wire'[s]) /\ IsSeq(wire'[p])
      BY <1>1, <1>2, <1>3, ReadFacts, Sent
    <2>2. tr'[s].seqno_in \in Nat /\ tr'[s].seqno_out \in Nat
      BY <1>1, <1>2, SeqFacts, SMTT(60) DEF Shape
    <2> QED BY <1>1, <1>2, <2>1, <2>2, StepShape DEF Shape
  <1>5. Rest(p)'
    <2>1. StreamOK(p)' /\ BannerOK(p)' /\ ClosedWire(p)'
      BY <1>2, <1>3, SendOK
    <2> QED BY <1>2, <2>1, OtherStage DEF Rest
  <1>6. Rest(s)'
    <2>1. StageOK(s)'
      BY <1>2 DEF StageOK
    <2>2. StreamOK(s)' /\ BannerOK(s)' /\ ClosedWire(s)'
      BY <1>2, <1>3, ReadOK
    <2> QED BY <2>1, <2>2 DEF Rest
  <1> QED BY <1>4, <1>5, <1>6

\* What an end that has read a KEXINIT sends: its own unless it has, and the first
\* message of the client's engine.
FirstMessages(s, kex, local, q) ==
    /\ IsSeq(q)
    /\ \A i \in DOMAIN q :
        \/ Phase(s) = 0 /\ q[i].type = KEXINIT /\ q[i].val = local
        \/ /\ s = "client" /\ q[i].type \in EngineTypes /\ q[i].type \in ClientSends(kex)
           /\ kex = "gex" =>
                q[i].type = GEX_REQUEST \/ (q[i].type = GEX_REQUEST_OLD /\ ~Ephemeral(q[i].val))
    /\ \A i, j \in DOMAIN q :
        (q[i].type = KEXINIT /\ q[j].type = KEXINIT) \/ (IsEngine(q[i]) /\ IsEngine(q[j])) => i = j

\* _negotiate_keys has found algorithms.
Negotiates(s, packets) ==
    /\ Answers(s, packets) /\ Read(s).type = KEXINIT
    /\ FirstMessages(s, tr'[s].agreed.kex, tr'[s].local_kex_init, packets)
    /\ <<Phase(s), Phase(Peer(s))>> \in {<<0, 1>>, <<1, 1>>, <<1, 2>>}
    /\ tr'[s].remote_kex_init = tr[Peer(s)].local_kex_init
    /\ InitLists(s, tr'[s].local_kex_init, tr'[s].made, tr'[s].preferred_kex)
    /\ s = "client" => tr'[s].preferred_kex = tr[s].preferred_kex
    /\ Phase(s) = 0 => tr'[s].made = tr[s].made + 1 /\ tr'[s].gss_kex_used = FALSE
    /\ Phase(s) = 1 => \A f \in {"made", "gss_kex_used", "local_kex_init", "preferred_kex"} :
                          tr'[s][f] = tr[s][f]
    /\ \A f \in {"H", "session_id", "host_key"} : tr'[s][f] = tr[s][f]
    /\ tr'[s].strict = Strict /\ tr'[s].agreed.local = Algs /\ tr'[s].agreed.remote = Algs
    /\ tr'[s].agreed.keys = KeyAlg /\ KeyAlg \in Range(AvailableKeys("server"))
    /\ tr'[s].agreed.kex \in Kex
    /\ tr'[s].expected = FirstTypes(s, tr'[s].agreed.kex)
    /\ s = "client" => LET q == Keep(ClientKex, Range(tr["server"].local_kex_init.kex))
                       IN  q # <<>> /\ tr'[s].agreed.kex = q[1]
    /\ s = "server" => LET q == Keep(ClientKex, Range(FilterAlgorithm("server", "kex", tr'[s].preferred_kex)))
                       IN  q # <<>> /\ tr'[s].agreed.kex = q[1]

\* The phases in which a KEXINIT is taken.
LEMMA TakesInit ==
    ASSUME HandshakeInv, NEW s \in Side, Takes(s, KEXINIT)
    PROVE  /\ tr[s].active /\ tr[s].stage = "loop" /\ wire[s] # <<>> /\ app[s] # "idle"
           /\ Read(s).type = KEXINIT
           /\ <<Phase(s), Phase(Peer(s))>> \in {<<0, 1>>, <<1, 1>>, <<1, 2>>}
           /\ Read(s).val = tr[Peer(s)].local_kex_init
           /\ tr[Peer(s)].local_kex_init # NoInit
           /\ (Phase(s) = 0) = (tr[s].local_kex_init = NoInit)
  <1>1. /\ tr[s].active /\ tr[s].stage = "loop" /\ wire[s] # <<>> /\ app[s] # "idle"
        /\ Read(s) = wire[s][1] /\ 1 \in DOMAIN wire[s] /\ wire[s][1].type = KEXINIT
        /\ tr[s].expected = {} \/ KEXINIT \in tr[s].expected
    BY TakesFacts
  <1>2. InitWire(s)
    BY Parts
  <1>3. /\ wire[s][1].val = tr[Peer(s)].local_kex_init /\ Phase(s) \in {0, 1, 3}
        /\ Phase(Peer(s)) = 1 \/ (Phase(Peer(s)) = 2 /\ Phase(s) = 1)
    BY <1>1, <1>2 DEF InitWire
  <1>4. Phase(s) # 3
    <2>1. Phase(s) = 3 => tr[s].expected = {NEWKEYS}
      BY ExpectedFacts
    <2>2. KEXINIT \notin {NEWKEYS} /\ {NEWKEYS} # {}
      BY Types
    <2> QED BY <1>1, <2>1, <2>2
  <1>5. <<Phase(s), Phase(Peer(s))>> \in {<<0, 1>>, <<1, 1>>, <<1, 2>>}
    BY <1>3, <1>4
  <1>6. tr[Peer(s)].local_kex_init # NoInit /\ ((Phase(s) = 0) = (tr[s].local_kex_init = NoInit))
    BY <1>3 DEF Phase
  <1> QED BY <1>1, <1>3, <1>5, <1>6

\* s with its own KEXINIT made.
OwnMade(s, own) ==
    /\ DOMAIN own = Fields /\ own.preferred_kex \in Seq(STRING) /\ own.made \in Nat
    /\ \A f \in Fields \ {"preferred_kex", "gss_kex_used", "made", "local_kex_init"} :
         own[f] = tr[s][f]
    /\ s = "client" => own.preferred_kex = setup.preferred["client"]["kex"]
    /\ InitLists(s, own.local_kex_init, own.made, own.preferred_kex)
    /\ Phase(s) = 0 => own.made = tr[s].made + 1 /\ own.gss_kex_used = FALSE
    /\ Phase(s) = 1 => own = tr[s]

LEMMA OwnInit ==
    ASSUME HandshakeInv, NEW s \in Side, Phase(s) \in {0, 1}, NEW own,
           own = IF tr[s].local_kex_init = NoInit THEN SendKexInit(s, tr[s]) ELSE tr[s]
    PROVE  OwnMade(s, own)
  <1>1. /\ setup \in Setups /\ DOMAIN tr[s] = Fields /\ tr[s].made \in Nat
        /\ tr[s].preferred_kex \in Seq(STRING)
    BY Parts DEF Shape
  <1>2. s = "client" => tr[s].preferred_kex = setup.preferred["client"]["kex"]
    BY Parts DEF AgreedOK
  <1>3. CASE tr[s].local_kex_init = NoInit
    <2>1. Phase(s) = 0
      BY <1>3 DEF Phase
    <2>2. own = SendKexInit(s, tr[s])
      BY <1>3
    <2>3. /\ DOMAIN own = Fields /\ own.made = tr[s].made + 1 /\ own.gss_kex_used = FALSE
          /\ \A f \in Fields \ {"preferred_kex", "gss_kex_used", "made", "local_kex_init"} :
               own[f] = tr[s][f]
          /\ own.preferred_kex \in Seq(STRING)
          /\ s = "client" => own.preferred_kex = tr[s].preferred_kex
          /\ InitLists(s, own.local_kex_init, own.made, own.preferred_kex)
      <3> DEFINE R == SendKexInit(s, tr[s])
      <3>1. /\ DOMAIN R = Fields /\ R.made = tr[s].made + 1 /\ R.gss_kex_used = FALSE
            /\ \A f \in Fields \ {"preferred_kex", "gss_kex_used", "made", "local_kex_init"} :
                 R[f] = tr[s][f]
            /\ R.preferred_kex \in Seq(STRING)
            /\ s = "client" => R.preferred_kex = tr[s].preferred_kex
            /\ InitLists(s, R.local_kex_init, R.made, R.preferred_kex)
        BY <1>1, SendKexInitFacts
      <3> HIDE DEF R
      <3> QED BY <2>2, <3>1 DEF R
    <2> QED BY <1>1, <1>2, <2>1, <2>3 DEF OwnMade
  <1>4. CASE tr[s].local_kex_init # NoInit
    <2>1. Phase(s) = 1 /\ own = tr[s]
      BY <1>4 DEF Phase
    <2>2. InitLists(s, tr[s].local_kex_init, tr[s].made,
                    IF s = "client" THEN setup.preferred["client"]["kex"]
                    ELSE tr["server"].preferred_kex)
      BY <1>4, LocalLists, Parts
    <2>3. InitLists(s, tr[s].local_kex_init, tr[s].made, tr[s].preferred_kex)
      BY <1>2, <2>2, Ends
    <2> QED BY <1>1, <1>2, <2>1, <2>3 DEF OwnMade
  <1> QED BY <1>3, <1>4

\* The messages: a reply, then what the engine sends.
LEMMA FirstMessagesFacts ==
    ASSUME NEW s \in Side, NEW T, NEW k, Starting(s, T, k), NEW local, NEW reply,
           \/ reply = <<>>
           \/ Phase(s) = 0 /\ reply = <<Msg(KEXINIT, local)>>
    PROVE  FirstMessages(s, T.agreed.kex, local, reply \o k.msgs)
  <1> DEFINE sent == k.msgs
             q == reply \o sent
             kex == T.agreed.kex
  <1>1. /\ IsSeq(reply) /\ Len(reply) \in {0, 1} /\ DOMAIN reply = 1 .. Len(reply)
        /\ \A i \in DOMAIN reply :
             /\ i = 1 /\ Phase(s) = 0 /\ reply[i].type = KEXINIT /\ reply[i].val = local
    <2>1. CASE reply = <<>>
      <3>1. IsSeq(reply) /\ Len(reply) = 0
        BY <2>1, ShortSeqs
      <3>2. DOMAIN reply = 1 .. Len(reply)
        BY <3>1, SeqFacts
      <3> QED BY <3>1, <3>2
    <2>2. CASE Phase(s) = 0 /\ reply = <<Msg(KEXINIT, local)>>
      <3>1. IsSeq(reply) /\ Len(reply) = 1 /\ reply[1] = Msg(KEXINIT, local)
        BY <2>2, ShortSeqs
      <3>2. DOMAIN reply = 1 .. Len(reply)
        BY <3>1, SeqFacts
      <3>3. reply[1].type = KEXINIT /\ reply[1].val = local
        BY <3>1 DEF Msg
      <3>4. \A i \in DOMAIN reply : i = 1
        BY <3>1, <3>2
      <3> QED BY <2>2, <3>1, <3>2, <3>3, <3>4
    <2> QED BY <2>1, <2>2
  <1>2. /\ IsSeq(sent) /\ Len(sent) \in {0, 1} /\ DOMAIN sent = 1 .. Len(sent)
        /\ \A i \in DOMAIN sent :
             /\ i = 1 /\ s = "client" /\ sent[i].type \in EngineTypes /\ sent[i].type \in ClientSends(kex)
             /\ kex = "gex" => \/ sent[i].type = GEX_REQUEST
                               \/ sent[i].type = GEX_REQUEST_OLD /\ ~Ephemeral(sent[i].val)
    <2>1. CASE s = "server"
      <3>1. sent = <<>>
        BY <2>1 DEF Starting
      <3>2. IsSeq(sent) /\ Len(sent) = 0
        BY <3>1, ShortSeqs
      <3> HIDE DEF sent
      <3>3. DOMAIN sent = 1 .. Len(sent)
        BY <3>2, SeqFacts
      <3> QED BY <3>2, <3>3
    <2>2. CASE s = "client"
      <3>1. PICK m : /\ sent = <<m>> /\ m.type \in ClientSends(kex) /\ m.type \in EngineTypes
                     /\ kex = "gex" =>
                          m.type = GEX_REQUEST \/ (m.type = GEX_REQUEST_OLD /\ ~Ephemeral(m.val))
        BY <2>2 DEF Starting
      <3>2. IsSeq(sent) /\ Len(sent) = 1 /\ sent[1] = m
        <4>1. IsSeq(<<m>>) /\ Len(<<m>>) = 1 /\ <<m>>[1] = m
          BY ONLY ShortSeqs
        <4> HIDE DEF sent
        <4> QED BY <3>1, <4>1
      <3> HIDE DEF sent
      <3>3. DOMAIN sent = 1 .. Len(sent)
        BY <3>2, SeqFacts
      <3>4. \A i \in DOMAIN sent : i = 1
        BY <3>2, <3>3
      <3> QED BY <2>2, <3>1, <3>2, <3>3, <3>4
    <2> QED BY <2>1, <2>2, Ends
  <1> HIDE DEF sent, kex
  <1>3. /\ IsSeq(q)
        /\ \A i \in DOMAIN q : \/ i \in DOMAIN reply /\ q[i] = reply[i]
                               \/ \E j \in DOMAIN sent : i = Len(reply) + j /\ q[i] = sent[j]
    <2>1. DOMAIN q = 1 .. (Len(reply) + Len(sent)) /\ IsSeq(q)
      BY <1>1, <1>2, ConcatFacts
    <2>2. \A i \in 1 .. Len(reply) : q[i] = reply[i]
      BY <1>1, <1>2, ConcatFacts
    <2>3. \A j \in 1 .. Len(sent) : q[Len(reply) + j] = sent[j]
      BY <1>1, <1>2, ConcatFacts
    <2> HIDE DEF q
    <2>4. ASSUME NEW i \in DOMAIN q, i \notin DOMAIN reply
          PROVE  \E j \in DOMAIN sent : i = Len(reply) + j /\ q[i] = sent[j]
      <3>1. i - Len(reply) \in 1 .. Len(sent) /\ i = Len(reply) + (i - Len(reply))
        BY <1>1, <1>2, <2>1, <2>4
      <3> QED BY <1>2, <2>3, <3>1
    <2> QED BY <1>1, <2>1, <2>2, <2>4
  <1> HIDE DEF q
  <1>4. \A i \in DOMAIN q :
          \/ /\ i = 1 /\ Phase(s) = 0 /\ q[i].type = KEXINIT /\ q[i].val = local
             /\ q[i].type \notin EngineTypes
          \/ /\ i = Len(reply) + 1 /\ s = "client" /\ q[i].type \in EngineTypes
             /\ q[i].type \in ClientSends(kex) /\ q[i].type # KEXINIT
             /\ kex = "gex" => \/ q[i].type = GEX_REQUEST
                               \/ q[i].type = GEX_REQUEST_OLD /\ ~Ephemeral(q[i].val)
    BY <1>1, <1>2, <1>3, Types
  <1>5. FirstMessages(s, kex, local, q)
    BY <1>3, <1>4 DEF FirstMessages, IsEngine
  <1> QED BY <1>5 DEF q, sent, kex

\* Packets are the messages they carry, with the keys and numbers of the sender.
LEMMA PacketsPlain ==
    ASSUME Shape, NEW s \in Side, NEW T, T.seqno_out = tr[s].seqno_out, T.out_key = tr[s].out_key,
           NEW msgs, IsSeq(msgs),
           \A i \in DOMAIN msgs : msgs[i].type = KEXINIT \/ msgs[i].type \in EngineTypes
    PROVE  PlainPackets(s, Packets(T, msgs))
  <1> DEFINE pk == Packets(T, msgs)
  <1>1. /\ Len(pk) = Len(msgs) /\ DOMAIN msgs = 1 .. Len(msgs)
        /\ \A k \in 1 .. Len(msgs) : /\ pk[k].type = msgs[k].type
                                     /\ pk[k].seq = T.seqno_out + k - 1 /\ pk[k].key = T.out_key
    BY PacketsFacts
  <1> HIDE DEF pk
  <1>2. \A k \in 1 .. Len(pk) : pk[k].type \notin {CLOSED, VERSION, LINE, NEWKEYS}
    <2>1. /\ KEXINIT \notin {CLOSED, VERSION, LINE, NEWKEYS}
          /\ \A type \in EngineTypes : type \notin {CLOSED, VERSION, LINE, NEWKEYS}
      BY Types
    <2>2. \A k \in 1 .. Len(msgs) : pk[k].type = KEXINIT \/ pk[k].type \in EngineTypes
      BY <1>1
    <2> QED BY <1>1, <2>1, <2>2
  <1>3. PlainPackets(s, pk)
    BY <1>1, <1>2 DEF PlainPackets
  <1> QED BY <1>3 DEF pk

LEMMA PacketsFirst ==
    ASSUME NEW s, NEW T, NEW kex, NEW local, NEW msgs, FirstMessages(s, kex, local, msgs)
    PROVE  FirstMessages(s, kex, local, Packets(T, msgs))
  <1> DEFINE pk == Packets(T, msgs)
  <1>1. IsSeq(msgs)
    BY DEF FirstMessages
  <1>2. /\ IsSeq(pk) /\ DOMAIN pk = DOMAIN msgs
        /\ \A i \in DOMAIN msgs : pk[i].type = msgs[i].type /\ pk[i].val = msgs[i].val
    BY <1>1, PacketsFacts
  <1> HIDE DEF pk
  <1>3. FirstMessages(s, kex, local, pk)
    BY <1>2 DEF FirstMessages, IsEngine
  <1> QED BY <1>3 DEF pk

LEMMA NegotiateFacts ==
    ASSUME HandshakeInv, NEW s \in Side, NegotiateKeys(s)
    PROVE  tr[s].active /\ (Raises(s, "incompatible") \/ \E packets : Negotiates(s, packets))
  <1> DEFINE p == Peer(s)
             m == Read(s).val
             own == IF tr[s].local_kex_init = NoInit THEN SendKexInit(s, tr[s]) ELSE tr[s]
             found == Candidates(s, own, m)
             reply == IF tr[s].local_kex_init = NoInit
                      THEN <<Msg(KEXINIT, own.local_kex_init)>> ELSE <<>>
             K == ParseKexInit(s, own, found, m)
             k == StartKex(s, K)
             R == [k.T EXCEPT !.timer = FALSE]
             msgs == reply \o k.msgs
  <1>1. /\ Takes(s, KEXINIT)
        /\ \/ Raises(s, "incompatible")
           \/ AllFound(found) /\ Continue(s, R, msgs, k.types)
    BY DEF NegotiateKeys
  <1>2. /\ tr[s].active /\ tr[s].stage = "loop" /\ wire[s] # <<>> /\ app[s] # "idle"
        /\ Read(s).type = KEXINIT
        /\ <<Phase(s), Phase(p)>> \in {<<0, 1>>, <<1, 1>>, <<1, 2>>}
        /\ m = tr[p].local_kex_init /\ tr[p].local_kex_init # NoInit
        /\ (Phase(s) = 0) = (tr[s].local_kex_init = NoInit)
    BY <1>1, TakesInit
  <1> SUFFICES ASSUME AllFound(found), Continue(s, R, msgs, k.types)
               PROVE  \E packets : Negotiates(s, packets)
    BY <1>1, <1>2, SMTT(60)
  <1>3. Shape /\ p \in Side /\ Peer(p) = s /\ setup \in Setups /\ Phase(s) \in {0, 1}
    BY <1>2, Parts, Ends DEF Shape
  <1>4. /\ DOMAIN own = Fields /\ own.preferred_kex \in Seq(STRING) /\ own.made \in Nat
        /\ \A f \in Fields \ {"preferred_kex", "gss_kex_used", "made", "local_kex_init"} :
             own[f] = tr[s][f]
        /\ s = "client" => own.preferred_kex = setup.preferred["client"]["kex"]
        /\ InitLists(s, own.local_kex_init, own.made, own.preferred_kex)
        /\ Phase(s) = 0 => own.made = tr[s].made + 1 /\ own.gss_kex_used = FALSE
        /\ Phase(s) = 1 => own = tr[s]
    <2>1. own = IF tr[s].local_kex_init = NoInit THEN SendKexInit(s, tr[s]) ELSE tr[s]
      OBVIOUS
    <2> HIDE DEF p, m, own, found, reply, K, k, R, msgs
    <2>2. HandshakeInv /\ s \in Side /\ Phase(s) \in {0, 1}
      BY <1>3
    <2>3. OwnMade(s, own)
      BY <2>1, <2>2, OwnInit
    <2> QED BY <2>3 DEF OwnMade
  <1>5. reply = <<>> \/ (Phase(s) = 0 /\ reply = <<Msg(KEXINIT, own.local_kex_init)>>)
    BY <1>2
  <1> HIDE DEF own, reply
  <1>6. InitLists(p, m, tr[p].made, IF p = "client" THEN setup.preferred["client"]["kex"]
                                    ELSE tr["server"].preferred_kex)
    BY <1>2, <1>3, LocalLists, Parts
  <1>7. /\ [c \in Directional |-> found.local[c][1]] = Algs
        /\ [c \in Directional |-> found.remote[c][1]] = Algs
        /\ found.keys[1] = KeyAlg /\ KeyAlg \in Range(AvailableKeys("server"))
        /\ found.kex # <<>> /\ found.kex[1] \in Kex
        /\ s = "client" => found.kex = Keep(ClientKex, Range(m.kex))
        /\ s = "server" => found.kex =
             Keep(ClientKex, Range(FilterAlgorithm("server", "kex", own.preferred_kex)))
    <2> DEFINE q == IF p = "client" THEN setup.preferred["client"]["kex"]
                    ELSE tr["server"].preferred_kex
    <2>1. s = "server" => q = setup.preferred["client"]["kex"]
      BY DEF Peer
    <2>2. InitLists(Peer(s), m, tr[p].made, q)
      BY <1>6
    <2> HIDE DEF q, m, p
    <2> QED BY <1>3, <1>4, <2>1, <2>2, CandidatesFacts DEF found
  <1>8. m.strict = setup.strict[p]
    BY <1>6 DEF InitLists
  <1>9. (IF m.strict THEN setup.strict[s] ELSE own.strict) = Strict
    <2>1. own.strict = tr[s].strict /\ tr[s].strict \in BOOLEAN
      BY <1>3, <1>4 DEF Fields, Shape
    <2>2. tr[s].strict => Strict
      BY Parts DEF AgreedOK
    <2>3. setup.strict["client"] \in BOOLEAN /\ setup.strict["server"] \in BOOLEAN
      BY <1>3, SetupFacts, Ends
    <2>4. CASE s = "client"
      BY <1>8, <2>1, <2>2, <2>3, <2>4 DEF Strict, Peer
    <2>5. CASE s = "server"
      BY <1>8, <2>1, <2>2, <2>3, <2>5, SMTT(60) DEF Strict, Peer
    <2> QED BY <2>4, <2>5, Ends
  <1> HIDE DEF found
  <1>10. /\ DOMAIN K = Fields
         /\ \A f \in Fields \ {"agreed", "remote_ext_info", "strict", "remote_kex_init"} : K[f] = own[f]
         /\ K.agreed = [kex |-> found.kex[1], keys |-> found.keys[1],
                        local |-> [c \in Directional |-> found.local[c][1]],
                        remote |-> [c \in Directional |-> found.remote[c][1]]]
         /\ K.strict = (IF m.strict THEN setup.strict[s] ELSE own.strict)
         /\ K.remote_kex_init = m
    BY <1>4 DEF ParseKexInit, Fields
  <1> HIDE DEF K
  <1>11. /\ K.agreed.kex = found.kex[1] /\ K.agreed.keys = KeyAlg /\ K.agreed.local = Algs
         /\ K.agreed.remote = Algs /\ K.strict = Strict /\ K.remote_kex_init = tr[p].local_kex_init
    BY <1>2, <1>7, <1>9, <1>10
  <1>12. Starting(s, K, k)
    BY <1>7, <1>10, <1>11, StartKexFacts
  <1> HIDE DEF k
  <1>13. /\ DOMAIN R = Fields /\ \A f \in Fields \ (EngineFields \cup {"timer"}) : R[f] = K[f]
         /\ k.types = FirstTypes(s, K.agreed.kex)
    <2>1. /\ DOMAIN k.T = Fields /\ \A f \in Fields \ EngineFields : k.T[f] = K[f]
          /\ k.types = FirstTypes(s, K.agreed.kex)
      BY <1>12 DEF Starting
    <2> QED BY <2>1 DEF Fields, EngineFields
  <1> HIDE DEF R
  <1>14. FirstMessages(s, K.agreed.kex, own.local_kex_init, msgs)
    BY <1>5, <1>12, FirstMessagesFacts
  <1> HIDE DEF msgs
  <1>15. /\ Others(s) /\ Wires(s, Packets(R, msgs)) /\ app' = app
         /\ \A f \in Fields \ {"expected", "seqno_in", "seqno_out"} : tr'[s][f] = R[f]
         /\ tr'[s].expected = k.types /\ tr'[s].seqno_in = R.seqno_in + 1
         /\ tr'[s].seqno_out = R.seqno_out + Len(msgs)
    BY <1>2, <1>3, <1>13, ContinueFacts
  <1>16. /\ R.seqno_in = tr[s].seqno_in /\ R.seqno_out = tr[s].seqno_out
         /\ R.out_key = tr[s].out_key
    BY <1>4, <1>10, <1>13 DEF Fields, EngineFields
  <1>17. /\ \A f \in {"stage", "active", "in_key", "out_key", "H", "session_id", "host_key"} :
              tr'[s][f] = tr[s][f]
         /\ \A f \in {"made", "gss_kex_used", "local_kex_init", "preferred_kex"} : tr'[s][f] = own[f]
         /\ \A f \in {"agreed", "strict", "remote_kex_init"} : tr'[s][f] = K[f]
    <2>1. \A f \in Fields \ (EngineFields \cup {"timer", "expected", "seqno_in", "seqno_out"}) :
            tr'[s][f] = K[f]
      BY <1>13, <1>15
    <2>2. \A f \in {"agreed", "strict", "remote_kex_init"} : tr'[s][f] = K[f]
      BY <2>1 DEF Fields, EngineFields
    <2>3. \A f \in {"stage", "active", "in_key", "out_key", "H", "session_id", "host_key", "made",
                    "gss_kex_used", "local_kex_init", "preferred_kex"} : tr'[s][f] = own[f]
      BY <1>10, <2>1 DEF Fields, EngineFields
    <2>4. \A f \in {"stage", "active", "in_key", "out_key", "H", "session_id", "host_key"} :
            own[f] = tr[s][f]
      BY <1>4 DEF Fields
    <2> QED BY <2>2, <2>3, <2>4
  <1> DEFINE pk == Packets(R, msgs)
  <1>18. FirstMessages(s, tr'[s].agreed.kex, tr'[s].local_kex_init, pk)
    BY <1>14, <1>17, PacketsFirst
  <1>19. /\ IsSeq(msgs) /\ IsSeq(pk) /\ Len(pk) = Len(msgs)
         /\ \A i \in DOMAIN msgs : msgs[i].type = KEXINIT \/ msgs[i].type \in EngineTypes
    <2>1. IsSeq(msgs)
      BY <1>14 DEF FirstMessages
    <2> QED BY <1>14, <2>1, PacketsFacts DEF FirstMessages
  <1>20. Answers(s, pk)
    <2>1. PlainPackets(s, pk)
      BY <1>3, <1>16, <1>19, PacketsPlain
    <2>2. tr'[s].made \in Nat /\ tr'[s].strict \in BOOLEAN /\ tr'[s].preferred_kex \in Seq(STRING)
      <3>1. Strict \in BOOLEAN
        BY <1>3, SetupFacts, Ends DEF Strict
      <3> QED BY <1>4, <1>11, <1>17, <3>1
    <2>3. Read(s).type # NEWKEYS
      BY <1>2, Types
    <2> HIDE DEF pk
    <2>4. /\ Others(s) /\ Wires(s, pk) /\ app' = app /\ IsSeq(pk)
          /\ tr'[s].seqno_in = tr[s].seqno_in + 1 /\ tr'[s].seqno_out = tr[s].seqno_out + Len(pk)
      BY <1>15, <1>16, <1>19 DEF pk
    <2> QED BY <1>2, <1>17, <2>1, <2>2, <2>3, <2>4 DEF Answers
  <1> HIDE DEF pk
  <1>21. InitLists(s, tr'[s].local_kex_init, tr'[s].made, tr'[s].preferred_kex)
    BY <1>4, <1>17
  <1>22. s = "client" => tr'[s].preferred_kex = tr[s].preferred_kex
    BY <1>4, <1>17, Parts DEF AgreedOK
  <1>23. /\ Phase(s) = 0 => tr'[s].made = tr[s].made + 1 /\ tr'[s].gss_kex_used = FALSE
         /\ Phase(s) = 1 => \A f \in {"made", "gss_kex_used", "local_kex_init", "preferred_kex"} :
                               tr'[s][f] = tr[s][f]
    BY <1>4, <1>17
  <1>24. /\ tr'[s].strict = Strict /\ tr'[s].agreed.local = Algs /\ tr'[s].agreed.remote = Algs
         /\ tr'[s].agreed.keys = KeyAlg /\ KeyAlg \in Range(AvailableKeys("server"))
         /\ tr'[s].agreed.kex \in Kex /\ tr'[s].expected = FirstTypes(s, tr'[s].agreed.kex)
         /\ tr'[s].remote_kex_init = tr[p].local_kex_init /\ tr'[s].agreed.kex = found.kex[1]
    BY <1>7, <1>11, <1>13, <1>15, <1>17
  <1>25. s = "client" => LET q == Keep(ClientKex, Range(tr["server"].local_kex_init.kex))
                         IN  q # <<>> /\ tr'[s].agreed.kex = q[1]
    BY <1>2, <1>7, <1>24, Ends
  <1>26. s = "server" =>
           LET q == Keep(ClientKex, Range(FilterAlgorithm("server", "kex", tr'[s].preferred_kex)))
           IN  q # <<>> /\ tr'[s].agreed.kex = q[1]
    BY <1>7, <1>17, <1>24
  <1>27. \A f \in {"H", "session_id", "host_key"} : tr'[s][f] = tr[s][f]
    BY <1>17
  <1> HIDE DEF found
  <1> QED BY <1>2, <1>18, <1>20, <1>21, <1>22, <1>23, <1>24, <1>25, <1>26, <1>27 DEF Negotiates

\* s reads the only message of an engine there is, if any, and sends another at most.
LEMMA NewEngine ==
    ASSUME Shape, NEW s \in Side, NEW packets, IsSeq(packets), Wires(s, packets),
           \A t \in Side : \A i \in DOMAIN wire[t] : IsEngine(wire[t][i]) => t = s /\ i = 1,
           \A k, l \in DOMAIN packets : IsEngine(packets[k]) /\ IsEngine(packets[l]) => k = l
    PROVE  /\ OneEngine'
           /\ \A i \in DOMAIN wire'[s] : ~IsEngine(wire'[s][i])
           /\ \A i \in DOMAIN wire'[Peer(s)] :
                IsEngine(wire'[Peer(s)][i]) => \E k \in DOMAIN packets : wire'[Peer(s)][i] = packets[k]
  <1> DEFINE p == Peer(s)
  <1>1. p \in Side /\ p # s /\ \A t \in Side : t = s \/ t = p
    BY Ends
  <1>2. Old(s, 1) /\ Sends(s, packets)
    BY ReadOld DEF Wires, Sends
  <1>3. \A i \in DOMAIN wire'[s] : ~IsEngine(wire'[s][i])
    <2> SUFFICES ASSUME NEW i \in DOMAIN wire'[s], IsEngine(wire'[s][i]) PROVE FALSE
      OBVIOUS
    <2>1. i \in Int /\ i + 1 \in DOMAIN wire[s] /\ wire'[s][i] = wire[s][i + 1]
      BY <1>2 DEF Old
    <2>2. i + 1 = 1
      BY <2>1
    <2>3. 0 \in DOMAIN wire'[s]
      BY <2>1, <2>2
    <2>4. DOMAIN wire'[s] = 1 .. (Len(wire[s]) - 1)
      BY ReadFacts DEF Wires
    <2> QED BY <2>3, <2>4
  <1>4. \A i \in DOMAIN wire'[p] : IsEngine(wire'[p][i]) =>
          \E k \in DOMAIN packets : i = Len(wire[p]) + k /\ wire'[p][i] = packets[k]
    <2>1. \A i \in DOMAIN wire'[p] :
            \/ i \in DOMAIN wire[p] /\ wire'[p][i] = wire[p][i]
            \/ \E k \in DOMAIN packets : i = Len(wire[p]) + k /\ wire'[p][i] = packets[k]
      BY <1>2, SendFacts
    <2> QED BY <1>1, <2>1
  <1>5. ASSUME NEW i \in DOMAIN wire'[p], NEW j \in DOMAIN wire'[p],
               IsEngine(wire'[p][i]), IsEngine(wire'[p][j])
        PROVE  i = j
    BY <1>4, <1>5
  <1>6. OneEngine'
    BY <1>1, <1>3, <1>5 DEF OneEngine, IsEngine
  <1> QED BY <1>3, <1>4, <1>6

\* No message of an engine is sent.
LEMMA KeptEngines ==
    ASSUME Shape, OneEngine, NEW s \in Side, NEW packets, IsSeq(packets), Wires(s, packets),
           \A k \in DOMAIN packets : ~IsEngine(packets[k])
    PROVE  /\ OneEngine'
           /\ \A t \in Side : \A i \in DOMAIN wire'[t] : IsEngine(wire'[t][i]) =>
                \E k \in DOMAIN wire[t] : wire'[t][i] = wire[t][k]
  <1> DEFINE p == Peer(s)
             off == [t \in Side |-> IF t = s THEN 1 ELSE 0]
  <1>1. p \in Side /\ p # s /\ \A t \in Side : t = s \/ t = p
    BY Ends
  <1>2. Old(s, 1) /\ Sends(s, packets) /\ IsSeq(wire[p])
    BY <1>1, ReadOld DEF Wires, Sends, Shape
  <1>3. \A i \in DOMAIN wire'[p] : IsEngine(wire'[p][i]) =>
          i \in DOMAIN wire[p] /\ i \in Int /\ wire'[p][i] = wire[p][i]
    <2>1. \A i \in DOMAIN wire'[p] :
            \/ i \in DOMAIN wire[p] /\ wire'[p][i] = wire[p][i]
            \/ \E k \in DOMAIN packets : wire'[p][i] = packets[k]
      BY <1>2, Sent
    <2>2. \A i \in DOMAIN wire[p] : i \in Int
      BY <1>2, SeqFacts
    <2> QED BY <2>1, <2>2
  <1>4. ASSUME NEW t \in Side, NEW i \in DOMAIN wire'[t], IsEngine(wire'[t][i])
        PROVE  /\ i \in Int /\ off[t] \in Nat /\ i + off[t] \in DOMAIN wire[t]
               /\ wire'[t][i] = wire[t][i + off[t]]
    <2>1. CASE t = s
      BY <1>2, <2>1 DEF Old
    <2>2. CASE t = p
      BY <1>1, <1>3, <1>4, <2>2
    <2> QED BY <1>1, <2>1, <2>2
  <1> HIDE DEF off
  <1>5. OneEngine'
    BY <1>4 DEF OneEngine, IsEngine
  <1> QED BY <1>4, <1>5

\* With the same lists the two ends run the same engine, or the client group exchange.
LEMMA NegotiateKex ==
    ASSUME HandshakeInv, NEW s \in Side, NEW packets, Negotiates(s, packets)
    PROVE  KexOK'
  <1>1. /\ setup' = setup /\ tr'[Peer(s)] = tr[Peer(s)]
        /\ tr'[s].expected = FirstTypes(s, tr'[s].agreed.kex)
        /\ Phase(s) = 1 => \A f \in {"made", "gss_kex_used", "local_kex_init", "preferred_kex"} :
                              tr'[s][f] = tr[s][f]
        /\ <<Phase(s), Phase(Peer(s))>> \in {<<0, 1>>, <<1, 1>>, <<1, 2>>}
    BY DEF Negotiates, Answers, Others
  <1>2. Phase(Peer(s))' = Phase(Peer(s))
    BY <1>1 DEF Phase
  <1>3. setup \in Setups
    BY Parts DEF Shape
  <1>4. ClientKex \in Seq(STRING) /\ ClientKex' = ClientKex
    BY <1>1, <1>3, ClientKexFacts, SetupKept
  <1> SUFFICES ASSUME Phase("client")' = 2, Phase("server")' \in {2, 3},
                      tr'["client"].agreed.kex # tr'["server"].agreed.kex
               PROVE  /\ tr'["client"].agreed.kex = "gex" /\ Phase("server")' = 2
                      /\ tr'["server"].expected = FirstTypes("server", tr'["server"].agreed.kex)
    BY DEF KexOK, C, V, FirstTypes
  <1> DEFINE A == Range(tr["server"].local_kex_init.kex)
             B == Range(FilterAlgorithm("server", "kex", tr["server"].preferred_kex))
  <1>5. Phase(s) = 1 /\ Phase(Peer(s)) = 2
    BY <1>1, <1>2, Ends
  <1>6. A \ {"gex"} = B \ {"gex"} /\ B \subseteq A
    <2>1. Phase("server") # 0
      BY <1>5, Ends
    <2>2. tr["server"].local_kex_init # NoInit
      BY <2>1 DEF Phase
    <2>3. LocalOK("server")
      BY Parts, Ends
    <2> QED BY <2>2, <2>3 DEF LocalOK, ServerKex, V
  <1> HIDE DEF A, B
  <1>7. CASE s = "client"
    <2>1. Keep(ClientKex, A) # <<>> /\ tr'["client"].agreed.kex = Keep(ClientKex, A)[1]
      BY <1>7 DEF Negotiates, A
    <2>2. tr["server"].agreed.kex = Keep(ClientKex, B)[1]
      <3>1. AgreedOK("server") /\ Phase("server") = 2
        BY <1>5, <1>7, Parts, Ends
      <3> QED BY <3>1 DEF AgreedOK, ServerKex, V, B
    <2>3. tr["server"].expected = FirstTypes("server", tr["server"].agreed.kex)
      <3>1. ExpectedOK("server") /\ Phase("server") = 2 /\ Phase("client") = 1
        BY <1>5, <1>7, Parts, Ends
      <3> QED BY <3>1 DEF ExpectedOK, V
    <2>4. tr'["server"] = tr["server"] /\ Phase("server")' = 2
      BY <1>1, <1>2, <1>5, <1>7, Ends
    <2>5. tr'["client"].agreed.kex = "gex"
      BY <1>4, <1>6, <2>1, <2>2, <2>4, AnyKexChoice
    <2> QED BY <2>3, <2>4, <2>5
  <1>8. CASE s = "server"
    <2>1. tr'["server"].preferred_kex = tr["server"].preferred_kex
      BY <1>1, <1>5, <1>8
    <2>2. Keep(ClientKex, B) # <<>> /\ tr'["server"].agreed.kex = Keep(ClientKex, B)[1]
      BY <1>8, <2>1 DEF Negotiates, B
    <2>3. tr["client"].agreed.kex = Keep(ClientKex, A)[1]
      <3>1. AgreedOK("client") /\ Phase("client") = 2
        BY <1>5, <1>8, Parts, Ends
      <3> QED BY <3>1 DEF AgreedOK, V, A
    <2>4. tr'["client"] = tr["client"]
      BY <1>1, <1>8, Ends
    <2>5. tr'["client"].agreed.kex = "gex"
      BY <1>4, <1>6, <2>2, <2>3, <2>4, AnyKexChoice
    <2>6. Phase("server")' = 2
      <3>1. NEWKEYS \notin tr'["server"].expected
        <4>1. tr'["server"].agreed.kex \in Kex
          BY <1>8 DEF Negotiates
        <4>2. tr'["server"].expected = FirstTypes("server", tr'["server"].agreed.kex)
          BY <1>1, <1>8
        <4>3. tr'["server"].expected \subseteq EngineTypes
          BY <4>1, <4>2, EngineExpects, Ends
        <4> QED BY <4>3, Types
      <3> QED BY <3>1 DEF Phase
    <2> QED BY <1>1, <1>8, <2>5, <2>6
  <1> QED BY <1>7, <1>8, Ends

LEMMA NegotiateCore ==
    ASSUME HandshakeInv, NEW s \in Side, NEW packets, Negotiates(s, packets)
    PROVE  Core'
  <1> DEFINE p == Peer(s)
  <1>1. Shape /\ p \in Side /\ Peer(p) = s /\ \A t \in Side : t = s \/ t = p
    BY Parts, Ends
  <1>2. /\ tr'[p] = tr[p] /\ setup' = setup /\ Wires(s, packets) /\ IsSeq(packets)
        /\ tr'[s].in_key = tr[s].in_key /\ tr'[s].out_key = tr[s].out_key
        /\ tr'[s].H = tr[s].H /\ tr'[s].session_id = tr[s].session_id
        /\ tr'[s].host_key = tr[s].host_key
        /\ <<Phase(s), Phase(p)>> \in {<<0, 1>>, <<1, 1>>, <<1, 2>>}
        /\ tr'[s].remote_kex_init = tr[p].local_kex_init
        /\ s = "client" => tr'[s].preferred_kex = tr[s].preferred_kex
        /\ Phase(s) = 0 => tr'[s].made = tr[s].made + 1 /\ tr'[s].gss_kex_used = FALSE
        /\ Phase(s) = 1 => /\ tr'[s].made = tr[s].made /\ tr'[s].gss_kex_used = tr[s].gss_kex_used
                           /\ tr'[s].local_kex_init = tr[s].local_kex_init
                           /\ tr'[s].preferred_kex = tr[s].preferred_kex
    BY DEF Negotiates, Answers, Others
  <1>3. /\ InitLists(s, tr'[s].local_kex_init, tr'[s].made, tr'[s].preferred_kex)
        /\ tr'[s].strict = Strict /\ tr'[s].agreed.local = Algs /\ tr'[s].agreed.remote = Algs
        /\ tr'[s].agreed.keys = KeyAlg /\ KeyAlg \in Range(AvailableKeys("server"))
        /\ tr'[s].agreed.kex \in Kex
        /\ tr'[s].expected = FirstTypes(s, tr'[s].agreed.kex)
    BY DEF Negotiates
  <1>4. tr'[s].expected # {} /\ tr'[s].expected \subseteq EngineTypes
    BY <1>3, EngineExpects
  <1>5. tr[p].local_kex_init # NoInit
    BY <1>2 DEF Phase
  <1>6. tr'[s].local_kex_init # NoInit /\ tr'[s].made # 0
    BY <1>3 DEF InitLists
  <1>7. Phase(s)' = 2 /\ Phase(p)' = Phase(p)
    <2>1. NEWKEYS \notin tr'[s].expected
      BY <1>4, Types
    <2> QED BY <1>2, <1>5, <1>6, <2>1 DEF Phase
  <1>8. /\ Strict' = Strict /\ Algs' = Algs /\ KeyAlg' = KeyAlg /\ ClientKex' = ClientKex
        /\ \A t : AvailableKeys(t)' = AvailableKeys(t)
        /\ \A t, c : Preferred(t, c)' = Preferred(t, c)
        /\ \A t, c, q : FilterAlgorithm(t, c, q)' = FilterAlgorithm(t, c, q)
    BY <1>2, SetupKept
  <1>9. tr[s].made \in Nat /\ tr[p].made \in Nat /\ tr'[s].made = tr[p].made
    <2>1. tr[s].made \in Nat /\ tr[p].made \in Nat
      BY <1>1 DEF Shape
    <2>2. Phase(s) = 0 => tr[p].made = tr[s].made + 1
      BY <1>2, PhasePairs
    <2>3. Phase(s) = 1 => tr[p].made = tr[s].made
      BY <1>2, PhasePairs
    <2> QED BY <1>2, <2>1, <2>2, <2>3
  <1>10. /\ Old(s, 1) /\ Sends(s, packets) /\ \A i \in DOMAIN wire'[s] : wire'[s][i].type # KEXINIT
    <2>1. wire'[s] = Tail(wire[s]) /\ wire[s] # <<>> /\ Sends(s, packets)
      BY <1>2 DEF Wires, Sends
    <2>2. Read(s).type = KEXINIT /\ Once(s, KEXINIT)
      BY Parts DEF Negotiates, InitWire
    <2>3. wire[s][1].type = KEXINIT
      BY <1>1, <2>1, <2>2, ReadFacts
    <2> QED BY <1>1, <2>1, <2>2, <2>3, ReadOld
  <1>11. /\ \A i \in DOMAIN wire'[p] :
              \/ i \in DOMAIN wire[p] /\ wire'[p][i] = wire[p][i]
              \/ \E k \in DOMAIN packets : wire'[p][i] = packets[k]
    BY <1>1, <1>2, <1>10, Sent
  <1>12. /\ \A k \in DOMAIN packets :
              \/ /\ Phase(s) = 0 /\ packets[k].type = KEXINIT
                 /\ packets[k].val = tr'[s].local_kex_init /\ ~IsEngine(packets[k])
              \/ /\ s = "client" /\ IsEngine(packets[k]) /\ packets[k].type # KEXINIT
                 /\ packets[k].type \in ClientSends(tr'[s].agreed.kex)
                 /\ tr'[s].agreed.kex = "gex" =>
                      \/ packets[k].type = GEX_REQUEST
                      \/ packets[k].type = GEX_REQUEST_OLD /\ ~Ephemeral(packets[k].val)
         /\ \A k, l \in DOMAIN packets :
              \/ packets[k].type = KEXINIT /\ packets[l].type = KEXINIT
              \/ IsEngine(packets[k]) /\ IsEngine(packets[l])
              => k = l
         /\ \A k \in DOMAIN packets : packets[k].type # NEWKEYS
    <2>1. FirstMessages(s, tr'[s].agreed.kex, tr'[s].local_kex_init, packets)
      BY DEF Negotiates
    <2>2. \A k, l \in DOMAIN packets :
              \/ packets[k].type = KEXINIT /\ packets[l].type = KEXINIT
              \/ IsEngine(packets[k]) /\ IsEngine(packets[l])
              => k = l
      BY <2>1 DEF FirstMessages
    <2> QED BY <2>1, <2>2, Types DEF FirstMessages, IsEngine
  <1>13. PhasesOK'
    <2>1. tr'[s].made = tr'[p].made
      BY <1>2, <1>9
    <2>2. Phase(p) \in {1, 2} /\ \A b \in {1, 2} : <<2, b>> \in SamePairs /\ <<b, 2>> \in SamePairs
      BY <1>2 DEF SamePairs
    <2> QED BY <1>7, <2>1, <2>2, NewPhases
  <1>14. KexOK'
    BY NegotiateKex
  <1>15. OneEngine' /\ EngineToServer' /\ EngineToClient'
    <2>1. CASE s = "client"
      <3>1. \A t \in Side : \A i \in DOMAIN wire[t] : ~IsEngine(wire[t][i])
        BY <1>2, <2>1, NoEngine DEF IsEngine
      <3>2. /\ OneEngine'
            /\ \A i \in DOMAIN wire'[s] : ~IsEngine(wire'[s][i])
            /\ \A i \in DOMAIN wire'[p] :
                 IsEngine(wire'[p][i]) => \E k \in DOMAIN packets : wire'[p][i] = packets[k]
        BY <1>1, <1>2, <1>12, <3>1, NewEngine
      <3>3. EngineToClient'
        BY <2>1, <3>2 DEF EngineToClient, IsEngine
      <3>4. EngineToServer'
        <4> SUFFICES ASSUME NEW i \in DOMAIN wire'["server"], IsEngine(wire'["server"][i])
                     PROVE  LET m == wire'["server"][i]
                            IN  /\ Phase("client")' = 2 /\ Phase("server")' \in {1, 2}
                                /\ m.type \in ClientSends(tr'["client"].agreed.kex)
                                /\ tr'["client"].agreed.kex = "gex" =>
                                     \/ m.type = GEX_REQUEST
                                     \/ m.type = GEX_REQUEST_OLD /\ ~Ephemeral(m.val)
          BY DEF EngineToServer, IsEngine, C
        <4>1. p = "server"
          BY <2>1 DEF Peer
        <4>2. PICK k \in DOMAIN packets : wire'["server"][i] = packets[k]
          BY <3>2, <4>1
        <4>3. /\ packets[k].type \in ClientSends(tr'["client"].agreed.kex)
              /\ tr'["client"].agreed.kex = "gex" =>
                   \/ packets[k].type = GEX_REQUEST
                   \/ packets[k].type = GEX_REQUEST_OLD /\ ~Ephemeral(packets[k].val)
          BY <1>12, <2>1, <4>2
        <4>4. Phase("client")' = 2 /\ Phase("server")' \in {1, 2}
          BY <1>2, <1>7, <2>1, <4>1
        <4> QED BY <4>2, <4>3, <4>4
      <3> QED BY <3>2, <3>3, <3>4
    <2>2. CASE s = "server"
      <3>0. p = "client" /\ OneEngine /\ EngineToServer /\ EngineToClient
        BY <2>2, Parts DEF Peer
      <3>1. /\ OneEngine'
            /\ \A t \in Side : \A i \in DOMAIN wire'[t] : IsEngine(wire'[t][i]) =>
                 \E k \in DOMAIN wire[t] : wire'[t][i] = wire[t][k]
        BY <1>1, <1>2, <1>12, <2>2, <3>0, KeptEngines
      <3>2. EngineToClient'
        <4>1. \A i \in DOMAIN wire["client"] : ~IsEngine(wire["client"][i])
          BY <1>2, <2>2, <3>0 DEF EngineToClient
        <4>2. \A i \in DOMAIN wire'["client"] : ~IsEngine(wire'["client"][i])
          BY <3>1, <4>1, Ends
        <4> QED BY <4>2 DEF EngineToClient, IsEngine
      <3>3. EngineToServer'
        <4> SUFFICES ASSUME NEW i \in DOMAIN wire'["server"], IsEngine(wire'["server"][i])
                     PROVE  LET m == wire'["server"][i]
                            IN  /\ Phase("client")' = 2 /\ Phase("server")' \in {1, 2}
                                /\ m.type \in ClientSends(tr'["client"].agreed.kex)
                                /\ tr'["client"].agreed.kex = "gex" =>
                                     \/ m.type = GEX_REQUEST
                                     \/ m.type = GEX_REQUEST_OLD /\ ~Ephemeral(m.val)
          BY DEF EngineToServer, IsEngine, C
        <4>1. PICK k \in DOMAIN wire["server"] : wire'["server"][i] = wire["server"][k]
          BY <3>1, Ends
        <4>2. IsEngine(wire["server"][k]) /\ Phase("server") # 2
          BY <1>2, <2>2, <4>1
        <4>3. LET m == wire["server"][k]
              IN  /\ Phase("client") = 2
                  /\ m.type \in ClientSends(tr["client"].agreed.kex)
                  /\ tr["client"].agreed.kex = "gex" =>
                       \/ m.type = GEX_REQUEST
                       \/ m.type = GEX_REQUEST_OLD /\ ~Ephemeral(m.val)
          BY <3>0, <4>2 DEF EngineToServer, C
        <4>4. Phase("client")' = 2 /\ Phase("server")' = 2 /\ tr'["client"] = tr["client"]
          BY <1>2, <1>7, <2>2, <3>0, <4>3
        <4> QED BY <4>1, <4>3, <4>4
      <3> QED BY <3>1, <3>2, <3>3
    <2> QED BY <2>1, <2>2, Ends
  <1>16. HashOK'
    <2>1. Phase("client")' # 3 /\ Phase("server")' # 3
      BY <1>2, <1>7, Ends
    <2> QED BY <2>1 DEF HashOK
  <1>17. OutOK'
    <2>1. OutOK
      BY Parts
    <2> QED BY <1>2, <1>8, <2>1, Ends DEF OutOK, C
  <1>18. HostOK'
    <2>1. HostOK
      BY Parts
    <2>2. CASE s = "client"
      BY <1>2, <1>7, <1>9, <2>1, <2>2 DEF HostOK, C
    <2>3. CASE s = "server"
      BY <1>2, <1>7, <2>1, <2>3, Ends DEF HostOK, C
    <2> QED BY <2>2, <2>3, Ends
  <1>19. FirstOK'
    <2>1. FirstOK
      BY Parts
    <2>2. CASE s = "client"
      BY <1>2, <1>7, <1>9, <2>1, <2>2, Ends DEF FirstOK, C, V
    <2>3. CASE s = "server"
      <3>1. Phase("server") = 1 => KEXGSS_CONTINUE \notin tr["server"].expected
        <4>1. Phase("server") = 1 => tr["server"].expected \subseteq {KEXINIT}
          BY Parts, Ends DEF ExpectedOK
        <4> QED BY <4>1 DEF KEXGSS_CONTINUE, KEXINIT
      <3> QED BY <1>2, <1>6, <1>7, <1>9, <2>1, <2>3, <3>1, Ends DEF FirstOK, C, V
    <2> QED BY <2>2, <2>3, Ends
  <1>20. ExpectedOK(s)' /\ LocalOK(s)' /\ AgreedOK(s)'
    <2>1. ExpectedOK(s)'
      BY <1>3, <1>7, Ends DEF ExpectedOK, V
    <2>2. s = "client" => tr[s].preferred_kex = setup.preferred["client"]["kex"]
      BY Parts DEF AgreedOK
    <2>3. LocalOK(s)'
      BY <1>2, <1>3, <2>2, LocalListsNext, Ends
    <2>4. s = "client" => tr'[s].agreed.kex = Keep(ClientKex, Range(tr["server"].local_kex_init.kex))[1]
      BY DEF Negotiates
    <2>5. s = "server" => tr'[s].agreed.kex =
            Keep(ClientKex, Range(FilterAlgorithm("server", "kex", tr'[s].preferred_kex)))[1]
      BY DEF Negotiates
    <2>6. AgreedOK(s)'
      <3>1. CASE s = "client"
        BY <1>2, <1>3, <1>7, <1>8, <2>2, <2>4, <3>1, Ends DEF AgreedOK, V
      <3>2. CASE s = "server"
        BY <1>2, <1>3, <1>7, <1>8, <2>5, <3>2, Ends DEF AgreedOK, V, ServerKex
      <3> QED BY <3>1, <3>2, Ends
    <2> QED BY <2>1, <2>3, <2>6
  <1>21. ExpectedOK(p)' /\ LocalOK(p)' /\ AgreedOK(p)'
    <2>1. ExpectedOK(p)'
      BY <1>1, <1>2, <1>3, <1>7, Parts, Ends DEF ExpectedOK, V
    <2>2. LocalOK(p)'
      BY <1>1, <1>2, <1>8, Parts, Ends DEF LocalOK, V, ServerKex
    <2>3. AgreedOK(p)'
      BY <1>1, <1>2, <1>7, <1>8, Parts, Ends DEF AgreedOK, V, ServerKex
    <2> QED BY <2>1, <2>2, <2>3
  <1>22. InitWire(s)' /\ InitWire(p)'
    <2>1. InitWire(p)
      BY <1>1, Parts
    <2>2. InitWire(s)'
      BY <1>10 DEF InitWire, Once
    <2>3. CASE Phase(s) = 0
      <3>1. \A i \in DOMAIN wire[p] : wire[p][i].type # KEXINIT
        BY <1>1, <2>1, <2>3 DEF InitWire
      <3>2. Once(p, KEXINIT)'
        BY <1>1, <1>2, <1>10, <1>12, <3>1, Sent
      <3>3. \A i \in DOMAIN wire'[p] : wire'[p][i].type = KEXINIT =>
              wire'[p][i].val = tr'[s].local_kex_init
        BY <1>11, <1>12, <3>1
      <3>4. Phase(p)' = 1
        BY <1>2, <1>7, <2>3
      <3> QED BY <1>1, <1>7, <2>2, <3>2, <3>3, <3>4 DEF InitWire
    <2>4. CASE Phase(s) = 1
      <3>1. \A k \in DOMAIN packets : packets[k].type # KEXINIT
        BY <1>12, <2>4
      <3>2. Once(p, KEXINIT)'
        BY <1>1, <1>2, <1>10, <2>1, <3>1, Sent DEF InitWire
      <3>3. \A i \in DOMAIN wire'[p] : wire'[p][i].type = KEXINIT =>
              wire'[p][i].val = tr'[s].local_kex_init /\ Phase(p) = 1
        BY <1>1, <1>2, <1>11, <2>1, <2>4, <3>1 DEF InitWire
      <3> QED BY <1>1, <1>7, <2>2, <3>2, <3>3 DEF InitWire
    <2> QED BY <1>2, <2>3, <2>4
  <1>23. NewkeysWire(s)' /\ NewkeysWire(p)'
    <2>1. NewkeysWire(s) /\ NewkeysWire(p) /\ ~Behind(s) /\ ~Behind(p)
      BY <1>1, <1>2, Parts DEF Behind
    <2>2. \A i \in DOMAIN wire'[s] : wire'[s][i].type # NEWKEYS
      BY <1>10, <2>1 DEF NewkeysWire, Old
    <2>3. \A i \in DOMAIN wire'[p] : wire'[p][i].type # NEWKEYS
      BY <1>11, <1>12, <2>1 DEF NewkeysWire
    <2> QED BY <2>2, <2>3 DEF NewkeysWire, Once
  <1>24. KeyOK(s)' /\ KeyOK(p)'
    <2>1. ~Behind(s) /\ ~Behind(p)
      BY <1>1, <1>2 DEF Behind
    <2> QED BY <1>1, <1>2, <2>1, Parts DEF KeyOK
  <1>25. \A t \in Side : /\ ExpectedOK(t)' /\ LocalOK(t)' /\ AgreedOK(t)'
                         /\ InitWire(t)' /\ NewkeysWire(t)' /\ KeyOK(t)'
    BY <1>1, <1>20, <1>21, <1>22, <1>23, <1>24
  <1> QED BY <1>13, <1>14, <1>15, <1>16, <1>17, <1>18, <1>19, <1>25 DEF Core

\* _negotiate_keys.
LEMMA NegotiateStep ==
    ASSUME HandshakeInv, NEW s \in Side, NegotiateKeys(s)
    PROVE  HandshakeInv'
  <1>1. tr[s].active /\ (Raises(s, "incompatible") \/ \E packets : Negotiates(s, packets))
    BY NegotiateFacts
  <1>2. CASE Raises(s, "incompatible")
    BY <1>1, <1>2, RaisesStep
  <1>3. CASE \E packets : Negotiates(s, packets)
    <2>1. PICK packets : Negotiates(s, packets)
      BY <1>3
    <2>2. Answers(s, packets)
      BY <2>1 DEF Negotiates
    <2>3. Shape' /\ Rest(s)' /\ Rest(Peer(s))' /\ Core'
      BY <2>1, <2>2, AnswersRest, NegotiateCore
    <2> QED BY <2>3, Whole
  <1> QED BY <1>1, <1>2, <1>3
-----------------------------------------------------------------------------
(* The engines at work *)

\* s reads a message of its engine: there is no other on the wires.
LEMMA EngineRead ==
    ASSUME HandshakeInv, NEW s \in Side, NEW type \in EngineTypes, NEW engines,
           TakesKex(s, type, engines)
    PROVE  /\ tr[s].active /\ tr[s].stage = "loop" /\ wire[s] # <<>> /\ app[s] # "idle"
           /\ Read(s) = wire[s][1] /\ Read(s).type = type /\ IsEngine(Read(s))
           /\ type \in tr[s].expected /\ tr[s].agreed.kex \in engines /\ tr[s].agreed.kex \in Kex
           /\ \A t \in Side : \A i \in DOMAIN wire[t] : IsEngine(wire[t][i]) => t = s /\ i = 1
           /\ Phase(s) = 2 /\ Phase("client") = 2 /\ tr["client"].made = tr["server"].made
           /\ tr["client"].made \in Nat /\ tr["client"].made # 0
           /\ s = "client" => /\ Phase("server") \in {2, 3} /\ C.agreed.kex = V.agreed.kex
                              /\ AnswerOK(Read(s), C.agreed.kex)
  <1>1. /\ Takes(s, type) /\ type \in tr[s].expected /\ tr[s].agreed.kex \in engines
    BY DEF TakesKex
  <1>2. /\ tr[s].active /\ tr[s].stage = "loop" /\ wire[s] # <<>> /\ app[s] # "idle"
        /\ Read(s) = wire[s][1] /\ 1 \in DOMAIN wire[s] /\ wire[s][1].type = type
    BY <1>1, TakesFacts
  <1>3. IsEngine(wire[s][1]) /\ IsEngine(Read(s))
    BY <1>2 DEF IsEngine
  <1>4. \A t \in Side : \A i \in DOMAIN wire[t] : IsEngine(wire[t][i]) => t = s /\ i = 1
    <2>1. OneEngine
      BY Parts
    <2> QED BY <1>2, <1>3, <2>1 DEF OneEngine
  <1>5. s = "client" => /\ Phase("client") = 2 /\ Phase("server") \in {2, 3}
                        /\ C.agreed.kex = V.agreed.kex /\ AnswerOK(Read(s), C.agreed.kex)
    BY <1>2, <1>3, Parts DEF EngineToClient
  <1>6. s = "server" => Phase("client") = 2 /\ Phase("server") = 2
    <2>1. s = "server" => Phase("client") = 2 /\ Phase("server") \in {1, 2}
      BY <1>2, <1>3, Parts DEF EngineToServer
    <2>2. Phase(s) # 1
      BY <1>1, ExpectedFacts, Types
    <2> QED BY <2>1, <2>2
  <1>7. Phase(s) = 2 /\ Phase("client") = 2
    BY <1>5, <1>6, Ends
  <1>8. tr[s].agreed.kex \in Kex
    BY <1>7, Parts DEF AgreedOK
  <1>9. tr["client"].made = tr["server"].made /\ tr["client"].made \in Nat /\ tr["client"].made # 0
    <2>1. tr["client"].made = tr["server"].made
      BY <1>7, PhasePairs, Ends
    <2>2. tr["client"].local_kex_init # NoInit
      BY <1>7 DEF Phase
    <2>3. LocalOK("client") /\ Shape
      BY Parts, Ends
    <2> QED BY <2>1, <2>2, <2>3, Ends DEF LocalOK, Shape
  <1> QED BY <1>1, <1>2, <1>3, <1>4, <1>5, <1>7, <1>8, <1>9

\* A server's engine that takes a message runs with the client's engine: what the
\* client's group exchange sends to another engine is refused by that one.
LEMMA SameKex ==
    ASSUME HandshakeInv, NEW type \in EngineTypes, NEW engines, TakesKex("server", type, engines)
    PROVE  \/ C.agreed.kex = V.agreed.kex
           \/ V.agreed.kex \in {"group", "ecdh", "gss"} /\ ~Ephemeral(Read("server").val)
  <1> DEFINE m == Read("server")
  <1>1. /\ m = wire["server"][1] /\ m.type = type /\ IsEngine(m) /\ type \in V.expected
        /\ Phase("server") = 2 /\ Phase("client") = 2 /\ V.agreed.kex \in Kex
        /\ wire["server"] # <<>>
    BY EngineRead, Ends DEF V
  <1>2. 1 \in DOMAIN wire["server"]
    BY TakesFacts, Ends DEF TakesKex
  <1> SUFFICES ASSUME C.agreed.kex # V.agreed.kex
               PROVE  V.agreed.kex \in {"group", "ecdh", "gss"} /\ ~Ephemeral(m.val)
    OBVIOUS
  <1>3. /\ C.agreed.kex = "gex" /\ V.expected = FirstTypes("server", V.agreed.kex)
    BY <1>1, Parts DEF KexOK
  <1>4. \/ m.type = GEX_REQUEST
        \/ m.type = GEX_REQUEST_OLD /\ ~Ephemeral(m.val)
    BY <1>1, <1>2, <1>3, Parts DEF EngineToServer
  <1>5. m.type = 34 \/ (m.type = 30 /\ ~Ephemeral(m.val))
    BY <1>4 DEF GEX_REQUEST, GEX_REQUEST_OLD
  <1>6. V.agreed.kex \in {"group", "ecdh", "gss", "gss_gex"}
    BY <1>1, <1>3 DEF Kex
  <1>7. /\ V.agreed.kex \in {"group", "ecdh", "gss"} => V.expected = {30}
        /\ V.agreed.kex = "gss_gex" => V.expected = {40}
    BY <1>3 DEF FirstTypes, KEXDH_INIT, KEXGSS_INIT, KEXGSS_GROUPREQ
  <1> HIDE DEF m
  <1> QED BY <1>1, <1>5, <1>6, <1>7

EngineKept == {"made", "local_kex_init", "remote_kex_init", "agreed", "strict", "preferred_kex"}

\* s answers a message of its engine with another, and waits.
Goes(s, packets, m) ==
    /\ Answers(s, packets) /\ packets = <<m>> /\ IsEngine(m) /\ m.type \in EngineTypes
    /\ Phase(s) = 2 /\ Phase(Peer(s)) = 2 /\ C.agreed.kex = V.agreed.kex
    /\ \A t \in Side : \A i \in DOMAIN wire[t] : IsEngine(wire[t][i]) => t = s /\ i = 1
    /\ \A f \in EngineKept : tr'[s][f] = tr[s][f]
    /\ tr'[s].expected \in LaterTypes(s, tr[s].agreed.kex)
    /\ s = "client" =>
         /\ m.type \in ClientSends(tr[s].agreed.kex)
         /\ tr[s].agreed.kex = "gex" => m.type = GEX_INIT
         /\ \A f \in {"H", "session_id", "host_key", "gss_kex_used"} : tr'[s][f] = tr[s][f]
    /\ s = "server" =>
         /\ \/ tr[s].agreed.kex = "gex" /\ m.type = GEX_GROUP
            \/ tr[s].agreed.kex = "gss_gex" /\ m.type = KEXGSS_GROUP
            \/ tr[s].agreed.kex \in {"gss", "gss_gex"} /\ m.type = KEXGSS_CONTINUE
         /\ tr[s].session_id # NoHash => tr'[s].session_id = tr[s].session_id
         /\ tr'[s].session_id # NoHash => tr'[s].session_id[1].n = 1
         /\ KEXGSS_CONTINUE \notin tr'[s].expected =>
              tr'[s].session_id = tr[s].session_id /\ KEXGSS_CONTINUE \notin tr[s].expected

LEMMA GoesCore ==
    ASSUME HandshakeInv, NEW s \in Side, NEW packets, NEW m, Goes(s, packets, m)
    PROVE  Core'
  <1> DEFINE p == Peer(s)
  <1>1. Shape /\ p \in Side /\ Peer(p) = s /\ \A t \in Side : t = s \/ t = p
    BY Parts, Ends
  <1>2. /\ tr'[p] = tr[p] /\ setup' = setup /\ Wires(s, packets) /\ IsSeq(packets)
        /\ tr'[s].in_key = tr[s].in_key /\ tr'[s].out_key = tr[s].out_key
        /\ Phase(s) = 2 /\ Phase(p) = 2
    BY DEF Goes, Answers, Others
  <1>3. /\ tr'[s].made = tr[s].made /\ tr'[s].local_kex_init = tr[s].local_kex_init
        /\ tr'[s].remote_kex_init = tr[s].remote_kex_init /\ tr'[s].agreed = tr[s].agreed
        /\ tr'[s].strict = tr[s].strict /\ tr'[s].preferred_kex = tr[s].preferred_kex
        /\ tr'[s].expected \in LaterTypes(s, tr[s].agreed.kex)
        /\ s = "client" => /\ tr'[s].H = tr[s].H /\ tr'[s].session_id = tr[s].session_id
                           /\ tr'[s].host_key = tr[s].host_key
                           /\ tr'[s].gss_kex_used = tr[s].gss_kex_used
    BY DEF Goes, EngineKept
  <1>4. AgreedOK(s) /\ AgreedOK(p) /\ LocalOK(s) /\ LocalOK(p) /\ ExpectedOK(p)
    BY <1>1, Parts
  <1>5. Phase(s)' = 2 /\ Phase(p)' = 2
    <2>1. tr[s].agreed.kex \in Kex
      BY <1>2, <1>4 DEF AgreedOK
    <2>2. tr'[s].expected \subseteq EngineTypes
      BY <1>3, <2>1, EngineExpects
    <2>3. NEWKEYS \notin tr'[s].expected
      BY <2>2, Types
    <2>4. Phase(s)' = 2
      BY <1>2, <1>3, <2>3 DEF Phase
    <2> QED BY <1>2, <2>4 DEF Phase
  <1>6. /\ Strict' = Strict /\ Algs' = Algs /\ KeyAlg' = KeyAlg /\ ClientKex' = ClientKex
        /\ \A t : AvailableKeys(t)' = AvailableKeys(t)
        /\ \A t, c : Preferred(t, c)' = Preferred(t, c)
        /\ \A t, c, q : FilterAlgorithm(t, c, q)' = FilterAlgorithm(t, c, q)
    BY <1>2, SetupKept
  <1>7. /\ Phase("client") = 2 /\ Phase("client")' = 2 /\ Phase("server") = 2 /\ Phase("server")' = 2
    BY <1>2, <1>5, Ends
  <1>8. /\ DOMAIN packets = {1} /\ packets[1] = m /\ IsEngine(m)
    <2>1. packets = <<m>> /\ IsEngine(m)
      BY DEF Goes
    <2>2. Len(<<m>>) = 1 /\ <<m>>[1] = m
      BY ShortSeqs
    <2>3. Len(packets) = 1 /\ packets[1] = m
      BY <2>1, <2>2
    <2>4. DOMAIN packets = 1 .. 1
      BY <1>2, <2>3, SeqFacts
    <2> QED BY <2>1, <2>3, <2>4
  <1>9. /\ OneEngine'
        /\ \A i \in DOMAIN wire'[s] : ~IsEngine(wire'[s][i])
        /\ \A i \in DOMAIN wire'[p] : IsEngine(wire'[p][i]) => wire'[p][i] = m
    <2>1. \A t \in Side : \A i \in DOMAIN wire[t] : IsEngine(wire[t][i]) => t = s /\ i = 1
      BY DEF Goes
    <2>2. \A k, l \in DOMAIN packets : IsEngine(packets[k]) /\ IsEngine(packets[l]) => k = l
      BY <1>8
    <2>3. /\ OneEngine'
          /\ \A i \in DOMAIN wire'[s] : ~IsEngine(wire'[s][i])
          /\ \A i \in DOMAIN wire'[p] :
               IsEngine(wire'[p][i]) => \E k \in DOMAIN packets : wire'[p][i] = packets[k]
      BY <1>1, <1>2, <2>1, <2>2, NewEngine
    <2> QED BY <1>8, <2>3
  <1>10. /\ \A i \in DOMAIN wire'[s] : wire'[s][i].type \notin {KEXINIT, NEWKEYS}
         /\ \A i \in DOMAIN wire'[p] : wire'[p][i].type \notin {KEXINIT, NEWKEYS}
    <2>1. Old(s, 1) /\ Sends(s, packets)
      BY <1>1, <1>2, ReadOld DEF Wires, Sends
    <2>2. InitWire(s) /\ InitWire(p) /\ NewkeysWire(s) /\ NewkeysWire(p)
      BY <1>1, Parts
    <2>3. /\ \A i \in DOMAIN wire[s] : wire[s][i].type \notin {KEXINIT, NEWKEYS}
          /\ \A i \in DOMAIN wire[p] : wire[p][i].type \notin {KEXINIT, NEWKEYS}
      BY <1>1, <1>2, <2>2 DEF InitWire, NewkeysWire, Behind
    <2>4. \A i \in DOMAIN wire'[p] : \/ i \in DOMAIN wire[p] /\ wire'[p][i] = wire[p][i]
                                     \/ \E k \in DOMAIN packets : wire'[p][i] = packets[k]
      BY <1>1, <1>2, <2>1, Sent
    <2>5. m.type \notin {KEXINIT, NEWKEYS}
      BY <1>8, Types DEF IsEngine
    <2> QED BY <1>8, <2>1, <2>3, <2>4, <2>5 DEF Old
  <1>11. tr'["client"].agreed = tr["client"].agreed /\ tr'["server"].agreed = tr["server"].agreed
         /\ C.agreed.kex = V.agreed.kex
    <2>1. tr'[s].agreed = tr[s].agreed /\ tr'[p].agreed = tr[p].agreed
      BY <1>2, <1>3
    <2> QED BY <2>1, Ends DEF Goes
  <1>12. PhasesOK' /\ KexOK'
    <2>1. PhasesOK'
      <3>1. tr'[s].made = tr'[p].made
        BY <1>2, <1>3, PhasePairs
      <3>2. <<2, 2>> \in SamePairs
        BY DEF SamePairs
      <3> QED BY <1>5, <3>1, <3>2, NewPhases
    <2> QED BY <1>11, <2>1 DEF KexOK, C, V
  <1>13. EngineToServer' /\ EngineToClient'
    <2>1. CASE s = "client"
      <3>1. EngineToClient'
        BY <1>9, <2>1 DEF EngineToClient, IsEngine
      <3>2. EngineToServer'
        <4>1. /\ m.type \in ClientSends(C.agreed.kex)
              /\ C.agreed.kex = "gex" => m.type = GEX_INIT /\ V.agreed.kex = "gex"
          BY <1>11, <2>1 DEF Goes, C
        <4>2. \A i \in DOMAIN wire'["server"] : IsEngine(wire'["server"][i]) => wire'["server"][i] = m
          BY <1>9, <2>1, Ends
        <4> QED BY <1>7, <1>11, <4>1, <4>2 DEF EngineToServer, IsEngine, C, V
      <3> QED BY <3>1, <3>2
    <2>2. CASE s = "server"
      <3>1. EngineToServer'
        BY <1>9, <2>2 DEF EngineToServer, IsEngine
      <3>2. EngineToClient'
        <4>1. \/ V.agreed.kex = "gex" /\ m.type = GEX_GROUP
              \/ V.agreed.kex = "gss_gex" /\ m.type = KEXGSS_GROUP
              \/ V.agreed.kex \in {"gss", "gss_gex"} /\ m.type = KEXGSS_CONTINUE
          BY <2>2 DEF Goes, V
        <4>2. \A i \in DOMAIN wire'["client"] : IsEngine(wire'["client"][i]) => wire'["client"][i] = m
          BY <1>9, <2>2, Ends
        <4> SUFFICES ASSUME NEW i \in DOMAIN wire'["client"], IsEngine(wire'["client"][i])
                     PROVE  /\ Phase("client")' = 2 /\ Phase("server")' \in {2, 3}
                            /\ C'.agreed.kex = V'.agreed.kex
                            /\ AnswerOK(m, C.agreed.kex)'
          BY <1>11, <4>2 DEF EngineToClient, IsEngine, C, V
        <4>3. C'.agreed.kex = V.agreed.kex /\ V'.agreed.kex = V.agreed.kex
          BY <1>11 DEF C, V
        <4>4. AnswerOK(m, C.agreed.kex)'
          BY <1>7, <4>1, <4>3 DEF AnswerOK
        <4> QED BY <1>7, <4>3, <4>4
      <3> QED BY <3>1, <3>2
    <2> QED BY <2>1, <2>2, Ends
  <1>14. HashOK'
    BY <1>7 DEF HashOK
  <1>15. OutOK' /\ HostOK'
    <2>1. OutOK /\ HostOK
      BY Parts
    <2>2. /\ tr'["client"].H = tr["client"].H /\ tr'["client"].out_key = tr["client"].out_key
          /\ tr'["client"].host_key = tr["client"].host_key /\ tr'["client"].made = tr["client"].made
          /\ tr'["client"].gss_kex_used = tr["client"].gss_kex_used
      BY <1>2, <1>3, Ends
    <2>3. OutOK'
      BY <1>6, <2>1, <2>2 DEF OutOK, C
    <2>4. HostOK'
      BY <1>2, <1>7, <2>1, <2>2 DEF HostOK, C
    <2> QED BY <2>3, <2>4
  <1>16. FirstOK'
    <2>1. FirstOK
      BY Parts
    <2>2. CASE s = "client"
      BY <1>2, <1>3, <1>7, <2>1, <2>2, Ends DEF FirstOK, C, V
    <2>3. CASE s = "server"
      <3>1. /\ tr["server"].session_id # NoHash => tr'["server"].session_id = tr["server"].session_id
            /\ tr'["server"].session_id # NoHash => tr'["server"].session_id[1].n = 1
            /\ KEXGSS_CONTINUE \notin tr'["server"].expected =>
                 /\ tr'["server"].session_id = tr["server"].session_id
                 /\ KEXGSS_CONTINUE \notin tr["server"].expected
        BY <2>3 DEF Goes
      <3>2. tr'["server"].made # 0
        <4>1. tr["server"].local_kex_init # NoInit
          BY <1>7 DEF Phase
        <4> QED BY <1>3, <1>4, <2>3, <4>1 DEF LocalOK
      <3>3. tr'["client"] = tr["client"] /\ tr'["server"].made = tr["server"].made
        BY <1>2, <1>3, <2>3, Ends
      <3> QED BY <1>7, <2>1, <3>1, <3>2, <3>3 DEF FirstOK, C, V
    <2> QED BY <2>2, <2>3, Ends
  <1>17. ExpectedOK(s)' /\ LocalOK(s)' /\ AgreedOK(s)'
    <2>1. ExpectedOK(s)'
      BY <1>3, <1>5, <1>7, Ends DEF ExpectedOK
    <2>2. LocalOK(s)'
      BY <1>2, <1>3, <1>4, <1>6, Ends DEF LocalOK, V, ServerKex
    <2>3. AgreedOK(s)'
      BY <1>1, <1>2, <1>3, <1>4, <1>5, <1>6, Ends DEF AgreedOK, V, ServerKex
    <2> QED BY <2>1, <2>2, <2>3
  <1>18. ExpectedOK(p)' /\ LocalOK(p)' /\ AgreedOK(p)'
    <2>1. ExpectedOK(p)'
      BY <1>1, <1>2, <1>4, <1>5, <1>7, Ends DEF ExpectedOK
    <2>2. LocalOK(p)'
      BY <1>1, <1>2, <1>3, <1>4, <1>6, Ends DEF LocalOK, V, ServerKex
    <2>3. AgreedOK(p)'
      BY <1>1, <1>2, <1>3, <1>4, <1>5, <1>6, Ends DEF AgreedOK, V, ServerKex
    <2> QED BY <2>1, <2>2, <2>3
  <1>19. InitWire(s)' /\ InitWire(p)' /\ NewkeysWire(s)' /\ NewkeysWire(p)'
    BY <1>10 DEF InitWire, NewkeysWire, Once
  <1>20. KeyOK(s)' /\ KeyOK(p)'
    <2>1. ~Behind(s) /\ ~Behind(p)
      BY <1>1, <1>2 DEF Behind
    <2> QED BY <1>1, <1>2, <2>1, Parts DEF KeyOK
  <1>21. \A t \in Side : /\ ExpectedOK(t)' /\ LocalOK(t)' /\ AgreedOK(t)'
                         /\ InitWire(t)' /\ NewkeysWire(t)' /\ KeyOK(t)'
    BY <1>1, <1>17, <1>18, <1>19, <1>20
  <1> QED BY <1>9, <1>12, <1>13, <1>14, <1>15, <1>16, <1>21 DEF Core

LEMMA GoesStep ==
    ASSUME HandshakeInv, NEW s \in Side, NEW packets, NEW m, Goes(s, packets, m)
    PROVE  HandshakeInv'
  <1>1. Answers(s, packets)
    BY DEF Goes
  <1>2. Shape' /\ Rest(s)' /\ Rest(Peer(s))' /\ Core'
    BY <1>1, AnswersRest, GoesCore
  <1> QED BY <1>2, Whole

\* s ends its part of an exchange: NEWKEYS is sent and the new keys are in place.
Finishes(s, packets, msgs) ==
    /\ Others(s) /\ app' = app /\ tr[s].active /\ tr[s].stage = "loop"
    /\ wire[s] # <<>> /\ Read(s).type \in EngineTypes /\ app[s] # "idle"
    /\ Wires(s, packets) /\ IsSeq(msgs) /\ LastPackets(s, packets, msgs)
    /\ \A f \in EngineKept \cup {"stage", "active", "in_key"} : tr'[s][f] = tr[s][f]
    /\ tr'[s].expected = {NEWKEYS} /\ tr'[s].seqno_in = tr[s].seqno_in + 1
    /\ tr'[s].out_key = <<tr'[s].H, Algs>>
    /\ Phase(s) = 2 /\ C.agreed.kex = V.agreed.kex
    /\ \A t \in Side : \A i \in DOMAIN wire[t] : IsEngine(wire[t][i]) => t = s /\ i = 1
    /\ s = "client" =>
         /\ msgs = <<>> /\ Phase("server") = 3 /\ tr'[s].H = V.H
         /\ tr'[s].host_key \in setup.server_keys \cup {NullHostKey}
         /\ tr'[s].gss_kex_used => tr'[s].host_key = NullHostKey
    /\ s = "server" =>
         /\ Phase("client") = 2
         /\ tr'[s].session_id # NoHash /\ tr'[s].session_id[1].n = 1
         /\ tr[s].made = 1 => tr'[s].session_id = tr'[s].H
         /\ \E m : /\ msgs = <<m>> /\ IsEngine(m)
                   /\ \/ /\ \/ V.agreed.kex \in {"group", "ecdh"} /\ m.type = KEXDH_REPLY
                            \/ V.agreed.kex = "gex" /\ m.type = GEX_REPLY
                         /\ m.val.sig.over = tr'[s].H /\ m.val.key \in setup.server_keys
                      \/ /\ V.agreed.kex \in {"gss", "gss_gex"} /\ m.type = KEXGSS_COMPLETE
                         /\ m.val.mic = tr'[s].session_id

LEMMA LastFacts ==
    ASSUME NEW s, NEW packets, NEW msgs, LastPackets(s, packets, msgs)
    PROVE  /\ IsSeq(packets) /\ Len(packets) \in {Len(msgs) + 1, Len(msgs) + 1 + 1}
           /\ DOMAIN packets = 1 .. Len(packets)
           /\ \A k \in 1 .. Len(msgs) :
                packets[k].type = msgs[k].type /\ packets[k].val = msgs[k].val
           /\ packets[Len(msgs) + 1].type = NEWKEYS
           /\ Len(packets) = Len(msgs) + 1 + 1 => packets[Len(msgs) + 1 + 1].type = EXT_INFO
  <1> DEFINE n == Len(msgs) + 1
             seq == IF tr[s].strict THEN 0 ELSE tr[s].seqno_out + n
  <1>1. /\ IsSeq(packets) /\ Len(packets) \in {n, n + 1} /\ DOMAIN packets = 1 .. Len(packets)
        /\ \A k \in 1 .. Len(msgs) :
             packets[k].type = msgs[k].type /\ packets[k].val = msgs[k].val
        /\ packets[n].type = NEWKEYS
        /\ Len(packets) = n + 1 =>
             /\ packets[n + 1].type = EXT_INFO /\ packets[n + 1].key = tr'[s].out_key
             /\ packets[n + 1].seq = seq
    BY ZenonT(60) DEF LastPackets
  <1> QED BY <1>1, Zenon

\* The packets: perhaps an answer of the server's engine, NEWKEYS, perhaps EXT_INFO.
LEMMA LastTypes ==
    ASSUME NEW s \in Side, NEW packets, NEW msgs, Finishes(s, packets, msgs)
    PROVE  /\ IsSeq(packets) /\ Len(msgs) \in {0, 1} /\ DOMAIN packets = 1 .. Len(packets)
           /\ Len(packets) \in {Len(msgs) + 1, Len(msgs) + 2}
           /\ packets[Len(msgs) + 1].type = NEWKEYS
           /\ Len(packets) = Len(msgs) + 2 => packets[Len(msgs) + 2].type = EXT_INFO
           /\ s = "client" => Len(msgs) = 0
           /\ Len(msgs) = 1 => IsEngine(packets[1]) /\ s = "server"
           /\ \A k \in DOMAIN packets :
                \/ k = 1 /\ Len(msgs) = 1 /\ IsEngine(packets[k])
                \/ k = Len(msgs) + 1 /\ packets[k].type = NEWKEYS
                \/ k = Len(msgs) + 2 /\ packets[k].type = EXT_INFO
  <1> DEFINE n == Len(msgs)
  <1>1. /\ IsSeq(msgs) /\ n \in {0, 1} /\ (s = "client" => n = 0)
        /\ n = 1 => IsEngine(msgs[1]) /\ s = "server"
    <2>1. CASE s = "client"
      <3>1. msgs = <<>> /\ IsSeq(msgs)
        BY <2>1 DEF Finishes
      <3>2. Len(<<>>) = 0
        BY ShortSeqs
      <3> QED BY <2>1, <3>1, <3>2
    <2>2. CASE s = "server"
      <3>1. PICK m : msgs = <<m>> /\ IsEngine(m)
        BY <2>2 DEF Finishes
      <3>2. Len(<<m>>) = 1 /\ <<m>>[1] = m
        BY ShortSeqs
      <3>3. IsSeq(msgs)
        BY DEF Finishes
      <3> QED BY <2>2, <3>1, <3>2, <3>3
    <2> QED BY <2>1, <2>2, Ends
  <1>2. LastPackets(s, packets, msgs)
    BY DEF Finishes
  <1> HIDE DEF n
  <1>3. /\ IsSeq(packets) /\ Len(packets) \in {n + 1, n + 1 + 1} /\ DOMAIN packets = 1 .. Len(packets)
        /\ \A k \in 1 .. n : packets[k].type = msgs[k].type
        /\ packets[n + 1].type = NEWKEYS
        /\ Len(packets) = n + 1 + 1 => packets[n + 1 + 1].type = EXT_INFO
    BY <1>2, LastFacts DEF n
  <1>4. n + 1 + 1 = n + 2 /\ n \in Nat
    BY <1>1
  <1>5. n = 1 => IsEngine(packets[1])
    BY <1>1, <1>3 DEF IsEngine
  <1>6. \A k \in DOMAIN packets :
          \/ k = 1 /\ n = 1 /\ IsEngine(packets[k])
          \/ k = n + 1 /\ packets[k].type = NEWKEYS
          \/ k = n + 2 /\ packets[k].type = EXT_INFO
    <2> TAKE k \in DOMAIN packets
    <2> DEFINE l == Len(packets)
    <2>a. k \in 1 .. l
      BY <1>3, Zenon
    <2>0. k \in 1 .. l /\ l \in {n + 1, n + 1 + 1} /\ n \in {0, 1}
      BY <1>1, <1>3, <2>a, Zenon
    <2> HIDE DEF l
    <2>1. \/ n = 0 /\ k = 1
          \/ n = 1 /\ k = 1
          \/ n = 1 /\ k = 2
          \/ k = n + 1 + 1 /\ l = n + 1 + 1
      BY <2>0
    <2>2. k = n + 1 + 1 /\ l = n + 1 + 1 => k = n + 2 /\ packets[k].type = EXT_INFO
      BY <1>3, <1>4 DEF l
    <2>3. n = 0 /\ k = 1 => k = n + 1 /\ packets[k].type = NEWKEYS
      BY <1>3
    <2>4. n = 1 /\ k = 2 => k = n + 1 /\ packets[k].type = NEWKEYS
      BY <1>3
    <2>5. n = 1 /\ k = 1 => IsEngine(packets[k])
      BY <1>5
    <2> QED BY <2>1, <2>2, <2>3, <2>4, <2>5
  <1> QED BY <1>1, <1>3, <1>4, <1>5, <1>6, Zenon DEF n

LEMMA FinishesCore ==
    ASSUME HandshakeInv, NEW s \in Side, NEW packets, NEW msgs, Finishes(s, packets, msgs)
    PROVE  Core'
  <1> DEFINE p == Peer(s)
             n == Len(msgs)
  <1>1. Shape /\ p \in Side /\ Peer(p) = s /\ \A t \in Side : t = s \/ t = p
    BY Parts, Ends
  <1>2. /\ tr'[p] = tr[p] /\ setup' = setup /\ Wires(s, packets)
        /\ tr'[s].in_key = tr[s].in_key /\ tr'[s].out_key = <<tr'[s].H, Algs>>
        /\ tr'[s].expected = {NEWKEYS}
    BY DEF Finishes, Others
  <1>3. /\ tr'[s].made = tr[s].made /\ tr'[s].local_kex_init = tr[s].local_kex_init
        /\ tr'[s].remote_kex_init = tr[s].remote_kex_init /\ tr'[s].agreed = tr[s].agreed
        /\ tr'[s].strict = tr[s].strict /\ tr'[s].preferred_kex = tr[s].preferred_kex
    BY DEF Finishes, EngineKept
  <1>4. AgreedOK(s) /\ AgreedOK(p) /\ LocalOK(s) /\ LocalOK(p) /\ ExpectedOK(p)
    BY <1>1, Parts
  <1>5. Phase(s) = 2 /\ Phase(s)' = 3 /\ Phase(p)' = Phase(p) /\ Phase(p) = IF s = "client" THEN 3 ELSE 2
    <2>1. Phase(s) = 2 /\ (s = "client" => Phase("server") = 3) /\ (s = "server" => Phase("client") = 2)
      BY DEF Finishes
    <2>2. NEWKEYS \in tr'[s].expected
      BY <1>2
    <2>3. Phase(s)' = 3
      BY <1>3, <2>1, <2>2 DEF Phase
    <2>4. Phase(p)' = Phase(p)
      BY <1>2 DEF Phase
    <2> QED BY <2>1, <2>3, <2>4, Ends
  <1>6. /\ Strict' = Strict /\ Algs' = Algs /\ KeyAlg' = KeyAlg /\ ClientKex' = ClientKex
        /\ \A t : AvailableKeys(t)' = AvailableKeys(t)
        /\ \A t, c : Preferred(t, c)' = Preferred(t, c)
        /\ \A t, c, q : FilterAlgorithm(t, c, q)' = FilterAlgorithm(t, c, q)
    BY <1>2, SetupKept
  <1>7. tr[s].made = tr[p].made /\ tr[s].made # 0 /\ tr[s].made \in Nat
    <2>1. tr[s].local_kex_init # NoInit
      BY <1>5 DEF Phase
    <2> QED BY <1>1, <1>4, <1>5, <2>1, PhasePairs DEF LocalOK, Shape
  <1>8. /\ IsSeq(packets) /\ n \in {0, 1}
        /\ s = "client" => n = 0
        /\ n = 1 => IsEngine(packets[1]) /\ s = "server"
        /\ \A k \in DOMAIN packets :
             \/ k = 1 /\ n = 1 /\ IsEngine(packets[k])
             \/ k = n + 1 /\ packets[k].type = NEWKEYS
             \/ k = n + 2 /\ packets[k].type = EXT_INFO
    BY LastTypes
  <1>9. /\ \A k \in DOMAIN packets : packets[k].type # KEXINIT
        /\ \A k, l \in DOMAIN packets : packets[k].type = NEWKEYS /\ packets[l].type = NEWKEYS => k = l
        /\ \A k \in DOMAIN packets : IsEngine(packets[k]) => k = 1 /\ n = 1
    <2> HIDE DEF n
    <2> QED BY <1>8, Types DEF IsEngine
  <1>10. /\ OneEngine'
         /\ \A i \in DOMAIN wire'[s] : ~IsEngine(wire'[s][i])
         /\ \A i \in DOMAIN wire'[p] : IsEngine(wire'[p][i]) => n = 1 /\ wire'[p][i] = packets[1]
    <2>1. \A t \in Side : \A i \in DOMAIN wire[t] : IsEngine(wire[t][i]) => t = s /\ i = 1
      BY DEF Finishes
    <2>2. \A k, l \in DOMAIN packets : IsEngine(packets[k]) /\ IsEngine(packets[l]) => k = l
      BY <1>9
    <2>3. /\ OneEngine'
          /\ \A i \in DOMAIN wire'[s] : ~IsEngine(wire'[s][i])
          /\ \A i \in DOMAIN wire'[p] :
               IsEngine(wire'[p][i]) => \E k \in DOMAIN packets : wire'[p][i] = packets[k]
      BY <1>1, <1>2, <1>8, <2>1, <2>2, NewEngine
    <2> QED BY <1>9, <2>3
  <1>11. /\ Old(s, 1) /\ Sends(s, packets)
         /\ \A i \in DOMAIN wire'[p] : \/ i \in DOMAIN wire[p] /\ wire'[p][i] = wire[p][i]
                                       \/ \E k \in DOMAIN packets : wire'[p][i] = packets[k]
    <2>1. Old(s, 1) /\ Sends(s, packets)
      BY <1>1, <1>2, ReadOld DEF Wires, Sends
    <2> QED BY <1>1, <1>8, <2>1, Sent
  <1>12. C.agreed.kex = V.agreed.kex /\ C'.agreed = C.agreed /\ V'.agreed = V.agreed
    <2>1. tr'[s].agreed = tr[s].agreed /\ tr'[p].agreed = tr[p].agreed
      BY <1>2, <1>3
    <2> QED BY <2>1, Ends DEF Finishes, C, V
  <1>13. PhasesOK' /\ KexOK'
    <2>1. PhasesOK'
      <3>1. tr'[s].made = tr'[p].made
        BY <1>2, <1>3, <1>7
      <3>2. <<3, 3>> \in SamePairs /\ <<2, 3>> \in SamePairs
        BY DEF SamePairs
      <3> QED BY <1>5, <3>1, <3>2, NewPhases, Ends
    <2> QED BY <1>12, <2>1 DEF KexOK
  <1>14. EngineToServer' /\ EngineToClient'
    <2>1. CASE s = "client"
      <3>1. \A i \in DOMAIN wire'[p] : ~IsEngine(wire'[p][i])
        BY <1>8, <1>10, <2>1
      <3> QED BY <1>10, <2>1, <3>1, Ends DEF EngineToClient, EngineToServer, IsEngine
    <2>2. CASE s = "server"
      <3>1. EngineToServer'
        BY <1>10, <2>2 DEF EngineToServer, IsEngine
      <3>2. PICK m : /\ msgs = <<m>> /\ IsEngine(m)
                     /\ \/ /\ \/ V.agreed.kex \in {"group", "ecdh"} /\ m.type = KEXDH_REPLY
                              \/ V.agreed.kex = "gex" /\ m.type = GEX_REPLY
                           /\ m.val.sig.over = tr'[s].H /\ m.val.key \in setup.server_keys
                        \/ /\ V.agreed.kex \in {"gss", "gss_gex"} /\ m.type = KEXGSS_COMPLETE
                           /\ m.val.mic = tr'[s].session_id
        BY <2>2 DEF Finishes
      <3>3. packets[1].type = m.type /\ packets[1].val = m.val
        <4>1. Len(<<m>>) = 1 /\ <<m>>[1] = m
          BY ShortSeqs
        <4>2. n = 1 /\ msgs[1] = m
          BY <3>2, <4>1
        <4>3. \A k \in 1 .. n : packets[k].type = msgs[k].type /\ packets[k].val = msgs[k].val
          BY LastFacts DEF Finishes
        <4> HIDE DEF n
        <4> QED BY <4>2, <4>3
      <3>4. V'.made = 1 => V'.session_id = V'.H
        BY <1>3, <2>2 DEF Finishes, V
      <3>5. Phase("client")' = 2 /\ Phase("server")' = 3 /\ C'.agreed.kex = V.agreed.kex
            /\ V'.agreed.kex = V.agreed.kex /\ V' = tr'[s]
        BY <1>5, <1>12, <2>2, Ends DEF V
      <3> DEFINE x == packets[1]
      <3>6. AnswerOK(x, C.agreed.kex)'
        BY <1>2, <3>2, <3>3, <3>4, <3>5 DEF AnswerOK, Signed, Miced
      <3>7. \A i \in DOMAIN wire'["client"] : IsEngine(wire'["client"][i]) => wire'["client"][i] = x
        BY <1>10, <2>2, Ends
      <3> HIDE DEF x
      <3> QED BY <3>1, <3>5, <3>6, <3>7 DEF EngineToClient, IsEngine
    <2> QED BY <2>1, <2>2, Ends
  <1>15. HashOK' /\ OutOK' /\ HostOK'
    <2>1. OutOK /\ HostOK
      BY Parts
    <2>2. CASE s = "client"
      <3>1. /\ tr'["client"].H = V.H /\ tr'["client"].host_key \in setup.server_keys \cup {NullHostKey}
            /\ tr'["client"].gss_kex_used => tr'["client"].host_key = NullHostKey
            /\ V' = V /\ Phase("client")' = 3 /\ tr'["client"].made # 0
        BY <1>2, <1>3, <1>5, <1>7, <2>2, Ends DEF Finishes, V
      <3>2. HashOK' /\ OutOK'
        BY <1>2, <1>6, <2>2, <3>1 DEF HashOK, OutOK, C
      <3>3. HostOK'
        BY <1>2, <3>1 DEF HostOK, C
      <3> QED BY <3>2, <3>3
    <2>3. CASE s = "server"
      <3>1. C' = C /\ Phase("client") = 2 /\ Phase("client")' = 2
        BY <1>2, <1>5, <2>3, Ends DEF C
      <3>2. HashOK' /\ OutOK'
        BY <1>6, <2>1, <3>1 DEF HashOK, OutOK
      <3>3. HostOK'
        BY <1>2, <2>1, <3>1 DEF HostOK
      <3> QED BY <3>2, <3>3
    <2> QED BY <2>2, <2>3, Ends
  <1>16. FirstOK'
    <2>1. FirstOK
      BY Parts
    <2>2. CASE s = "client"
      <3>1. V' = V /\ Phase("server")' = 3 /\ Phase("server") = 3
        BY <1>2, <1>5, <2>2, Ends DEF V
      <3> QED BY <2>1, <3>1 DEF FirstOK
    <2>3. CASE s = "server"
      <3>1. V'.session_id # NoHash /\ V'.session_id[1].n = 1 /\ V'.made # 0 /\ Phase("server")' = 3
        BY <1>3, <1>5, <1>7, <2>3 DEF Finishes, V
      <3> QED BY <3>1 DEF FirstOK
    <2> QED BY <2>2, <2>3, Ends
  <1>17. ExpectedOK(s)' /\ LocalOK(s)' /\ AgreedOK(s)'
    <2>1. ExpectedOK(s)'
      BY <1>2, <1>5, Ends DEF ExpectedOK
    <2>2. LocalOK(s)'
      BY <1>2, <1>3, <1>4, <1>6, Ends DEF LocalOK, V, ServerKex
    <2>3. AgreedOK(s)'
      BY <1>1, <1>2, <1>3, <1>4, <1>5, <1>6, Ends DEF AgreedOK, V, ServerKex
    <2> QED BY <2>1, <2>2, <2>3
  <1>18. ExpectedOK(p)' /\ LocalOK(p)' /\ AgreedOK(p)'
    <2>1. ExpectedOK(p)'
      BY <1>1, <1>2, <1>4, <1>5, Ends DEF ExpectedOK
    <2>2. LocalOK(p)'
      BY <1>1, <1>2, <1>3, <1>4, <1>6, Ends DEF LocalOK, V, ServerKex
    <2>3. AgreedOK(p)'
      BY <1>1, <1>2, <1>3, <1>4, <1>5, <1>6, Ends DEF AgreedOK, V, ServerKex
    <2> QED BY <2>1, <2>2, <2>3
  <1>19. InitWire(s)' /\ InitWire(p)'
    <2>1. InitWire(s) /\ InitWire(p)
      BY <1>1, Parts
    <2>2. /\ \A i \in DOMAIN wire[s] : wire[s][i].type # KEXINIT
          /\ \A i \in DOMAIN wire[p] : wire[p][i].type # KEXINIT
      BY <1>1, <1>5, <2>1 DEF InitWire
    <2>3. /\ \A i \in DOMAIN wire'[s] : wire'[s][i].type # KEXINIT
          /\ \A i \in DOMAIN wire'[p] : wire'[p][i].type # KEXINIT
      BY <1>9, <1>11, <2>2 DEF Old
    <2> QED BY <2>3 DEF InitWire, Once
  <1>20. NewkeysWire(s)' /\ NewkeysWire(p)'
    <2>1. NewkeysWire(s) /\ NewkeysWire(p)
      BY <1>1, Parts
    <2>2. NewkeysWire(s)'
      <3>1. Once(s, NEWKEYS)'
        BY <1>11, <2>1, OldOnce DEF NewkeysWire
      <3>2. \A i \in DOMAIN wire'[s] : wire'[s][i].type = NEWKEYS =>
              Behind(s) /\ tr[p].strict = Strict /\ tr[p].out_key = <<tr[p].H, Algs>>
        BY <1>11, <2>1 DEF NewkeysWire, Old
      <3>3. Behind(s) => Behind(s)' /\ Phase(s)' = 3
        BY <1>1, <1>5 DEF Behind
      <3> QED BY <1>1, <1>2, <1>6, <3>1, <3>2, <3>3 DEF NewkeysWire
    <2>3. NewkeysWire(p)'
      <3>1. \A i \in DOMAIN wire[p] : wire[p][i].type # NEWKEYS
        BY <1>1, <1>5, <2>1 DEF NewkeysWire, Behind
      <3>2. Once(p, NEWKEYS)'
        BY <1>1, <1>8, <1>9, <1>11, <3>1, Sent
      <3>3. Behind(p)' /\ (p = "server" => Phase(p)' = 3)
        BY <1>1, <1>5, Ends DEF Behind
      <3>4. tr'[s].strict = Strict
        BY <1>3, <1>4, <1>5 DEF AgreedOK
      <3> QED BY <1>1, <1>2, <1>6, <3>2, <3>3, <3>4 DEF NewkeysWire
    <2> QED BY <2>2, <2>3
  <1>21. KeyOK(s)' /\ KeyOK(p)'
    <2>1. Behind(p)'
      BY <1>1, <1>5, Ends DEF Behind
    <2>2. ~Behind(s)' => ~Behind(s)
      BY <1>1, <1>5 DEF Behind
    <2> QED BY <1>1, <1>2, <2>1, <2>2, Parts DEF KeyOK
  <1>22. \A t \in Side : /\ ExpectedOK(t)' /\ LocalOK(t)' /\ AgreedOK(t)'
                         /\ InitWire(t)' /\ NewkeysWire(t)' /\ KeyOK(t)'
    BY <1>1, <1>17, <1>18, <1>19, <1>20, <1>21
  <1> QED BY <1>10, <1>13, <1>14, <1>15, <1>16, <1>22 DEF Core

\* The keys and numbers of those packets.
LEMMA LastNumbers ==
    ASSUME NEW s, NEW packets, NEW msgs, LastPackets(s, packets, msgs)
    PROVE  LET n == Len(msgs) + 1
               seq == IF tr[s].strict THEN 0 ELSE tr[s].seqno_out + n
           IN  /\ \A k \in 1 .. n : /\ packets[k].key = tr[s].out_key
                                    /\ packets[k].seq = tr[s].seqno_out + k - 1
               /\ Len(packets) = n + 1 =>
                    packets[n + 1].key = tr'[s].out_key /\ packets[n + 1].seq = seq
               /\ tr'[s].seqno_out = seq + (Len(packets) - n)
  BY Zenon DEF LastPackets

LEMMA FinishesSwitch ==
    ASSUME HandshakeInv, NEW s \in Side, NEW packets, NEW msgs, Finishes(s, packets, msgs)
    PROVE  \E n, l, x, after :
             /\ Switch(wire[Peer(s)], n, wire'[Peer(s)], l, x, tr[s].out_key, tr[s].seqno_out,
                       tr'[s].out_key, after)
             /\ after \in Nat /\ (Strict => after = 0)
             /\ ~Strict => after = tr[s].seqno_out + (l - n)
             /\ tr'[s].seqno_out = after + x
  <1> DEFINE p == Peer(s)
             q == wire[p]
             r == wire'[p]
             n == Len(q)
             d == Len(msgs) + 1
             l == n + d
             x == Len(packets) - d
             nout == tr[s].seqno_out
             after == IF tr[s].strict THEN 0 ELSE nout + d
             out == tr[s].out_key
             new == tr'[s].out_key
  <1>1. Shape /\ p \in Side /\ Peer(p) = s /\ nout \in Nat
    BY Parts, Ends DEF Shape
  <1>2. /\ LastPackets(s, packets, msgs) /\ Sends(s, packets) /\ Phase(s) = 2 /\ tr[s].active
        /\ s = "client" => Phase("server") = 3
        /\ s = "server" => Phase("client") = 2
    BY DEF Finishes, Sends, Wires
  <1>3. /\ IsSeq(packets) /\ Len(msgs) \in {0, 1} /\ DOMAIN packets = 1 .. Len(packets)
        /\ Len(packets) \in {Len(msgs) + 1, Len(msgs) + 2}
        /\ packets[Len(msgs) + 1].type = NEWKEYS
        /\ Len(packets) = Len(msgs) + 2 => packets[Len(msgs) + 2].type = EXT_INFO
        /\ Len(msgs) = 1 => IsEngine(packets[1])
    BY LastTypes
  <1>4. /\ \A k \in 1 .. d : packets[k].key = out /\ packets[k].seq = nout + k - 1
        /\ Len(packets) = d + 1 => packets[d + 1].key = new /\ packets[d + 1].seq = after
        /\ tr'[s].seqno_out = after + x
    BY <1>2, LastNumbers
  <1>5. /\ n \in Nat /\ DOMAIN q = 1 .. n /\ Len(r) = n + Len(packets) /\ DOMAIN r = 1 .. Len(r)
        /\ \A i \in 1 .. n : r[i] = q[i]
        /\ \A k \in 1 .. Len(packets) : r[n + k] = packets[k]
    <2>1. Shape /\ IsSeq(packets) /\ Sends(s, packets)
      BY <1>1, <1>2, <1>3, Zenon
    <2>2. n \in Nat /\ DOMAIN q = 1 .. n /\ Len(r) = n + Len(packets) /\ DOMAIN r = 1 .. Len(r)
      BY <2>1, SendFacts
    <2>3. \A i \in 1 .. n : r[i] = q[i]
      BY <2>1, SendFacts
    <2>4. \A k \in 1 .. Len(packets) : r[n + k] = packets[k]
      BY <2>1, SendFacts
    <2> QED BY <2>2, <2>3, <2>4
  <1>6. \A i \in 1 .. n : q[i].type # NEWKEYS
    <2>1. ~Behind(p)
      BY <1>1, <1>2, Ends DEF Behind
    <2>2. NewkeysWire(p)
      BY <1>1, Parts
    <2> QED BY <1>5, <2>1, <2>2 DEF NewkeysWire
  <1>7. tr[s].strict = Strict /\ Strict \in BOOLEAN
    BY <1>1, <1>2, Parts, SetupFacts, Ends DEF AgreedOK, Strict, Shape
  <1>8. /\ d \in {1, 2} /\ x \in {0, 1} /\ Len(packets) = d + x /\ l \in Nat /\ l > n
        /\ Len(r) = l + x /\ after \in Nat
    <2> DEFINE j == Len(msgs)
               y == Len(packets)
    <2>1. j \in {0, 1} /\ y \in {j + 1, j + 2} /\ n \in Nat /\ nout \in Nat
      BY <1>1, <1>3, <1>5, Zenon
    <2> HIDE DEF j, y, n, nout
    <2>2. j + 1 \in {1, 2} /\ y - (j + 1) \in {0, 1} /\ y = (j + 1) + (y - (j + 1))
      BY <2>1
    <2>3. n + (j + 1) \in Nat /\ n + (j + 1) > n /\ n + y = (n + (j + 1)) + (y - (j + 1))
      BY <2>1
    <2>4. (IF tr[s].strict THEN 0 ELSE nout + (j + 1)) \in Nat
      BY <2>1
    <2> QED BY <1>5, <2>2, <2>3, <2>4 DEF j, y, n, nout
  <1>9. /\ \A k \in 1 .. d : packets[k].type \notin {CLOSED, VERSION, LINE}
        /\ \A k \in 1 .. (d - 1) : packets[k].type # NEWKEYS
        /\ packets[d].type = NEWKEYS
        /\ x = 1 => packets[d + 1].type = EXT_INFO
    <2> DEFINE j == Len(msgs)
    <2>1. /\ j \in {0, 1} /\ packets[j + 1].type = NEWKEYS
          /\ j = 1 => packets[1].type \notin {CLOSED, VERSION, LINE, NEWKEYS}
      <3>1. IsEngine(packets[1]) => packets[1].type \notin {CLOSED, VERSION, LINE, NEWKEYS}
        BY Types DEF IsEngine
      <3> QED BY <1>3, <3>1, Zenon
    <2>2. NEWKEYS \notin {CLOSED, VERSION, LINE}
      BY Types
    <2>3. x = 1 => packets[(j + 1) + 1].type = EXT_INFO
      <3>1. x = 1 => Len(packets) = j + 2
        BY <1>8, <2>1
      <3>2. (j + 1) + 1 = j + 2
        BY <2>1
      <3>3. Len(packets) = j + 2 => packets[j + 2].type = EXT_INFO
        BY <1>3, Zenon
      <3> HIDE DEF j, x
      <3> QED BY <3>1, <3>2, <3>3
    <2> HIDE DEF j
    <2>4. \A k \in 1 .. (j + 1) : k = j + 1 \/ (k = 1 /\ j = 1)
      BY <2>1
    <2>5. \A k \in 1 .. ((j + 1) - 1) : k = 1 /\ j = 1
      BY <2>1
    <2> QED BY <2>1, <2>2, <2>3, <2>4, <2>5 DEF j
  <1>10. ~Strict => after = nout + (l - n)
    <2>1. l - n = d
      BY <1>5, <1>8
    <2> QED BY <1>7, <2>1
  <1>11. Strict => after = 0
    BY <1>7
  <1> HIDE DEF p, q, r, n, d, x, nout, after, out, new
  <1>12. Switch(q, n, r, l, x, out, nout, new, after)
    <2>1. /\ n \in Nat /\ l \in Nat /\ l > n /\ x \in {0, 1} /\ Len(q) = n /\ DOMAIN q = 1 .. n
          /\ Len(r) = l + x /\ DOMAIN r = 1 .. (l + x) /\ \A i \in 1 .. n : r[i] = q[i]
      BY <1>5, <1>8 DEF n
    <2>2. ASSUME NEW i \in (n + 1) .. l
          PROVE  /\ r[i].key = out /\ r[i].seq = nout + (i - n) - 1
                 /\ r[i].type \notin {CLOSED, VERSION, LINE}
      <3>1. i - n \in 1 .. d /\ i - n \in 1 .. Len(packets) /\ i = n + (i - n)
        BY <1>5, <1>8
      <3>2. r[i] = packets[i - n]
        BY <1>5, <3>1
      <3> QED BY <1>4, <1>9, <3>1, <3>2
    <2>3. ASSUME NEW i \in 1 .. (l - 1)
          PROVE  r[i].type # NEWKEYS
      <3>1. CASE i \in 1 .. n
        BY <1>5, <1>6, <3>1
      <3>2. CASE i \notin 1 .. n
        <4>1. i - n \in 1 .. (d - 1) /\ i - n \in 1 .. Len(packets) /\ i = n + (i - n)
          BY <1>5, <1>8, <3>2
        <4>2. r[i] = packets[i - n]
          BY <1>5, <4>1
        <4> QED BY <1>9, <4>1, <4>2
      <3> QED BY <3>1, <3>2
    <2>4. r[l].type = NEWKEYS
      <3>1. d \in 1 .. Len(packets)
        BY <1>8
      <3> QED BY <1>5, <1>9, <3>1
    <2>5. x = 1 => /\ r[l + 1].key = new /\ r[l + 1].seq = after
                   /\ r[l + 1].type \notin {CLOSED, VERSION, LINE, NEWKEYS}
      <3> SUFFICES ASSUME x = 1
                   PROVE  /\ r[l + 1].key = new /\ r[l + 1].seq = after
                          /\ r[l + 1].type \notin {CLOSED, VERSION, LINE, NEWKEYS}
        OBVIOUS
      <3>1. d + 1 \in 1 .. Len(packets) /\ l + 1 = n + (d + 1) /\ Len(packets) = d + 1
        BY <1>5, <1>8
      <3>2. r[l + 1] = packets[d + 1]
        BY <1>5, <3>1
      <3> QED BY <1>4, <1>9, <3>1, <3>2, Types
    <2> HIDE DEF l
    <2> QED BY <2>1, <2>2, <2>3, <2>4, <2>5 DEF Switch
  <1>13. /\ after \in Nat /\ (Strict => after = 0)
         /\ ~Strict => after = nout + (l - n)
         /\ tr'[s].seqno_out = after + x
    BY <1>4, <1>8, <1>10, <1>11
  <1> HIDE DEF l
  <1> QED BY <1>12, <1>13 DEF p, q, r, nout, out, new

LEMMA FinishesRest ==
    ASSUME HandshakeInv, NEW s \in Side, NEW packets, NEW msgs, Finishes(s, packets, msgs)
    PROVE  Shape' /\ Rest(s)' /\ Rest(Peer(s))'
  <1> DEFINE p == Peer(s)
             q == wire[p]
             r == wire'[p]
             out == tr[s].out_key
             new == tr'[s].out_key
             nout == tr[s].seqno_out
             nin == tr[p].seqno_in
             in == tr[p].in_key
             open == tr'[s].active
  <1>1. Shape /\ p \in Side /\ Peer(p) = s /\ nout \in Nat /\ nin \in Nat
    BY Parts, Ends DEF Shape
  <1>2. /\ Others(s) /\ app' = app /\ tr[s].active /\ tr[s].stage = "loop"
        /\ wire[s] # <<>> /\ Read(s).type \in EngineTypes /\ app[s] # "idle"
        /\ Wires(s, packets) /\ tr'[s].stage = "loop" /\ tr'[s].active = tr[s].active
        /\ tr'[s].in_key = tr[s].in_key
        /\ tr'[s].seqno_in = tr[s].seqno_in + 1 /\ tr'[s].made = tr[s].made
        /\ tr'[s].strict = tr[s].strict /\ tr'[s].preferred_kex = tr[s].preferred_kex
        /\ Phase(s) = 2 /\ Phase(p) # 0
    <2>1. \A f \in {"stage", "active", "in_key", "made", "strict", "preferred_kex"} :
            tr'[s][f] = tr[s][f]
      BY DEF Finishes, EngineKept
    <2>2. /\ Others(s) /\ app' = app /\ tr[s].active /\ tr[s].stage = "loop"
          /\ wire[s] # <<>> /\ Read(s).type \in EngineTypes /\ app[s] # "idle"
          /\ Wires(s, packets) /\ tr'[s].seqno_in = tr[s].seqno_in + 1 /\ Phase(s) = 2
      BY DEF Finishes
    <2>3. Phase(p) # 0
      <3>1. /\ s = "client" => Phase("server") = 3
            /\ s = "server" => Phase("client") = 2
        BY DEF Finishes
      <3> QED BY <3>1, Ends
    <2> QED BY <2>1, <2>2, <2>3
  <1>3. wire'[s] = Tail(wire[s]) /\ Sends(s, packets) /\ IsSeq(packets) /\ tr'[p] = tr[p]
    BY <1>2, LastTypes DEF Wires, Sends, Others
  <1>4. PICK n, l, x, after :
          /\ Switch(q, n, r, l, x, out, nout, new, after)
          /\ after \in Nat /\ (Strict => after = 0)
          /\ ~Strict => after = nout + (l - n)
          /\ tr'[s].seqno_out = after + x
    BY FinishesSwitch
  <1>5. Strict \in BOOLEAN /\ Strict' = Strict
    BY <1>1, <1>2, SetupKept, SetupFacts, Ends DEF Strict, Shape, Others
  <1>6. Shape'
    <2>1. IsSeq(wire'[s]) /\ IsSeq(wire'[p])
      BY <1>1, <1>2, <1>3, ReadFacts, Sent
    <2>2. tr'[s].seqno_in \in Nat /\ tr'[s].seqno_out \in Nat
      BY <1>1, <1>2, <1>4, SMTT(60) DEF Shape, Switch
    <2> QED BY <1>1, <1>2, <2>1, <2>2, StepShape DEF Shape
  <1>7. Rest(s)'
    <2>1. StageOK(s)'
      BY <1>2 DEF StageOK
    <2>2. Read(s).type # NEWKEYS
      BY <1>2, Types
    <2>3. StreamOK(s)' /\ BannerOK(s)' /\ ClosedWire(s)'
      BY <1>2, <1>3, <2>2, ReadOK
    <2> QED BY <2>1, <2>3 DEF Rest
  <1>8. Rest(p)'
    <2>1. StageOK(p)'
      BY <1>2, OtherStage
    <2>2. StreamOK(p)'
      <3> SUFFICES ASSUME tr[p].stage = "loop"
                   PROVE  Stream(r, in, nin, new, after + x, Strict, open)
        BY <1>1, <1>2, <1>3, <1>4, <1>5 DEF StreamOK
      <3>1. Stream(q, in, nin, out, nout, Strict, TRUE)
        BY <1>1, <1>2, Parts DEF StreamOK
      <3> HIDE DEF p, q, r, out, new, nout, nin, in, open
      <3>2. /\ nin \in Nat /\ nout \in Nat /\ Strict \in BOOLEAN /\ after \in Nat
            /\ Strict => after = 0
            /\ ~Strict => after = nout + (l - n)
            /\ Switch(q, n, r, l, x, out, nout, new, after)
        BY <1>1, <1>4, <1>5
      <3>3. SwitchOf(q, in, nin, out, nout, Strict, r, new, l, n, x, after)
        BY <3>1, <3>2 DEF SwitchOf
      <3> QED BY <3>3, OutboundStream
    <2>3. BannerOK(p)'
      <3>1. tr[p].stage \notin {"new", "banner"}
        BY <1>1, <1>2, BannerKeys
      <3> QED BY <1>1, <1>2, <1>3, <3>1 DEF BannerOK
    <2>4. ClosedWire(p)'
      <3>1. \A i \in DOMAIN r : \/ i \in DOMAIN q /\ r[i] = q[i]
                                \/ \E k \in DOMAIN packets : r[i] = packets[k]
        BY <1>1, <1>3, Sent
      <3>2. \A i \in DOMAIN q : q[i].type # CLOSED
        BY <1>2, ActiveFacts
      <3>3. \A k \in DOMAIN packets : packets[k].type # CLOSED
        <4>1. \A k \in DOMAIN packets : IsEngine(packets[k]) \/ packets[k].type \in {NEWKEYS, EXT_INFO}
          BY LastTypes
        <4> QED BY <4>1, Types DEF IsEngine
      <3>4. \A i \in DOMAIN r : r[i].type # CLOSED
        BY <3>1, <3>2, <3>3
      <3> QED BY <3>4 DEF ClosedWire
    <2> QED BY <2>1, <2>2, <2>3, <2>4 DEF Rest
  <1> QED BY <1>6, <1>7, <1>8

LEMMA FinishesStep ==
    ASSUME HandshakeInv, NEW s \in Side, NEW packets, NEW msgs, Finishes(s, packets, msgs)
    PROVE  HandshakeInv'
  <1>1. Shape' /\ Rest(s)' /\ Rest(Peer(s))' /\ Core'
    BY FinishesRest, FinishesCore
  <1> QED BY <1>1, Whole

-----------------------------------------------------------------------------
(* The handlers of the engines *)

\* What the client's engine takes, and how far the server is then.
LEMMA ClientTakes ==
    ASSUME HandshakeInv, NEW type \in EngineTypes, NEW engines, TakesKex("client", type, engines)
    PROVE  LET kex == C.agreed.kex
               m == Read("client")
           IN  /\ kex \in engines /\ kex \in Kex /\ kex = V.agreed.kex
               /\ kex \in {"group", "ecdh"} => type = 31 /\ Phase("server") = 3 /\ Signed(m)
               /\ kex = "gex" => \/ type = 31 /\ Phase("server") = 2
                                 \/ type = 33 /\ Phase("server") = 3 /\ Signed(m)
               /\ kex = "gss" => type \in {31, 32}
               /\ kex = "gss_gex" => \/ type = 31
                                     \/ type = 41 /\ Phase("server") = 2
                                     \/ type = 32 /\ Phase("server") = 3 /\ Miced(m)
  <1> DEFINE kex == C.agreed.kex
             m == Read("client")
  <1>1. /\ kex \in engines /\ kex \in Kex /\ kex = V.agreed.kex /\ AnswerOK(m, kex) /\ m.type = type
    BY EngineRead, Ends DEF C
  <1> HIDE DEF kex, m
  <1>2. \/ kex \in {"group", "ecdh"} /\ m.type = 31 /\ Phase("server") = 3 /\ Signed(m)
        \/ kex = "gex" /\ m.type = 31 /\ Phase("server") = 2
        \/ kex = "gex" /\ m.type = 33 /\ Phase("server") = 3 /\ Signed(m)
        \/ kex \in {"gss", "gss_gex"} /\ m.type = 31
        \/ kex = "gss_gex" /\ m.type = 41 /\ Phase("server") = 2
        \/ kex \in {"gss", "gss_gex"} /\ m.type = 32 /\ Phase("server") = 3 /\ Miced(m)
    BY <1>1 DEF AnswerOK, KEXDH_REPLY, GEX_GROUP, GEX_REPLY, KEXGSS_CONTINUE, KEXGSS_GROUP,
                KEXGSS_COMPLETE
  <1> QED BY <1>1, <1>2 DEF kex, m

\* What the server's engine takes.
LEMMA ServerTakes ==
    ASSUME HandshakeInv, NEW type \in EngineTypes, NEW engines, TakesKex("server", type, engines)
    PROVE  LET kex == V.agreed.kex
           IN  /\ kex \in engines /\ kex \in Kex /\ Phase("client") = 2
               /\ \/ kex \in {"group", "ecdh", "gss"} /\ ~Ephemeral(Read("server").val)
                  \/ /\ kex = C.agreed.kex
                     /\ type \in {30, 32, 34, 40} /\ KEXGSS_CONTINUE \notin V.expected
                     /\ kex = "gss_gex" => type \in {30, 40}
  <1> DEFINE kex == V.agreed.kex
             m == Read("server")
  <1>1. /\ kex \in engines /\ kex \in Kex /\ Phase("client") = 2 /\ Phase("server") = 2
        /\ IsEngine(m) /\ m = wire["server"][1] /\ m.type = type /\ type \in V.expected
    BY EngineRead, Ends DEF V
  <1>2. 1 \in DOMAIN wire["server"]
    BY TakesFacts, Ends DEF TakesKex
  <1>3. \/ C.agreed.kex = kex
        \/ kex \in {"group", "ecdh", "gss"} /\ ~Ephemeral(m.val)
    BY SameKex
  <1> SUFFICES ASSUME C.agreed.kex = kex
               PROVE  /\ type \in {30, 32, 34, 40} /\ KEXGSS_CONTINUE \notin V.expected
                      /\ kex = "gss_gex" => type \in {30, 40}
    BY <1>1, <1>3
  <1>4. type \in ClientSends(kex)
    BY <1>1, <1>2, Parts DEF EngineToServer
  <1>5. V.expected = FirstTypes("server", kex) \/ V.expected \in LaterTypes("server", kex)
    BY <1>1, Parts, Ends DEF ExpectedOK, V
  <1> HIDE DEF kex, m
  <1>6. /\ kex \in {"group", "ecdh"} => V.expected = {30}
        /\ kex = "gex" => V.expected = {30, 34} \/ V.expected = {32}
        /\ kex = "gss" => V.expected = {30} \/ V.expected = {31, 32, 34}
        /\ kex = "gss_gex" => V.expected = {40} \/ V.expected = {30} \/ V.expected = {31, 32, 34}
    BY <1>1, <1>5, EngineExpects, Ends
  <1>7. /\ kex \in {"group", "ecdh", "gss"} => type = 30
        /\ kex = "gex" => type \in {30, 32, 34}
        /\ kex = "gss_gex" => type \in {30, 40}
    BY <1>4 DEF ClientSends
  <1>8. kex \in {"group", "ecdh", "gex", "gss", "gss_gex"}
    BY <1>1 DEF Kex
  <1> QED BY <1>1, <1>6, <1>7, <1>8 DEF KEXGSS_CONTINUE

\* What the handlers of the engines write.
Work == {"bits", "p", "old_style", "e", "f", "H", "session_id", "host_key"}

\* A handler that sends a message of its engine and waits for the next.
LEMMA ContinueStep ==
    ASSUME HandshakeInv, NEW s \in Side, NEW type \in EngineTypes, NEW engines,
           TakesKex(s, type, engines), NEW T, DOMAIN T = Fields,
           \A f \in Fields \ Work : T[f] = tr[s][f],
           NEW sent \in EngineTypes, NEW val, NEW types, types \in LaterTypes(s, tr[s].agreed.kex),
           C.agreed.kex = V.agreed.kex, Phase(Peer(s)) = 2,
           Continue(s, T, <<Msg(sent, val)>>, types),
           s = "client" =>
             /\ sent \in ClientSends(tr[s].agreed.kex)
             /\ tr[s].agreed.kex = "gex" => sent = GEX_INIT
             /\ \A f \in {"H", "session_id", "host_key"} : T[f] = tr[s][f],
           s = "server" =>
             /\ \/ tr[s].agreed.kex = "gex" /\ sent = GEX_GROUP
                \/ tr[s].agreed.kex = "gss_gex" /\ sent = KEXGSS_GROUP
                \/ tr[s].agreed.kex \in {"gss", "gss_gex"} /\ sent = KEXGSS_CONTINUE
             /\ tr[s].session_id # NoHash => T.session_id = tr[s].session_id
             /\ T.session_id # NoHash => T.session_id[1].n = 1
             /\ KEXGSS_CONTINUE \notin types =>
                  T.session_id = tr[s].session_id /\ KEXGSS_CONTINUE \notin tr[s].expected
    PROVE  HandshakeInv'
  <1> DEFINE msgs == <<Msg(sent, val)>>
             pk == Packets(T, msgs)
  <1>1. /\ tr[s].active /\ tr[s].stage = "loop" /\ wire[s] # <<>> /\ app[s] # "idle"
        /\ Read(s).type = type /\ Phase(s) = 2
        /\ \A t \in Side : \A i \in DOMAIN wire[t] : IsEngine(wire[t][i]) => t = s /\ i = 1
    BY EngineRead
  <1>2. Shape
    BY Parts
  <1>3. /\ Others(s) /\ Wires(s, pk) /\ app' = app
        /\ \A f \in Fields \ {"expected", "seqno_in", "seqno_out"} : tr'[s][f] = T[f]
        /\ tr'[s].expected = types /\ tr'[s].seqno_in = T.seqno_in + 1
        /\ tr'[s].seqno_out = T.seqno_out + Len(msgs)
    <2>1. Continue(s, T, msgs, types)
      OBVIOUS
    <2> HIDE DEF msgs
    <2> QED BY <1>1, <1>2, <2>1, ContinueFacts
  <1>4. /\ T.seqno_in = tr[s].seqno_in /\ T.seqno_out = tr[s].seqno_out
        /\ T.out_key = tr[s].out_key
    BY DEF Fields, Work
  <1>5. /\ \A f \in EngineKept : tr'[s][f] = tr[s][f]
        /\ \A f \in {"stage", "active", "in_key", "out_key", "gss_kex_used"} : tr'[s][f] = tr[s][f]
        /\ \A f \in {"H", "session_id", "host_key"} : tr'[s][f] = T[f]
    <2>1. \A f \in EngineKept : tr'[s][f] = tr[s][f]
      BY <1>3 DEF Fields, Work, EngineKept
    <2>2. \A f \in {"stage", "active", "in_key", "out_key", "gss_kex_used"} : tr'[s][f] = tr[s][f]
      BY <1>3 DEF Fields, Work
    <2>3. \A f \in {"H", "session_id", "host_key"} : tr'[s][f] = T[f]
      BY <1>3 DEF Fields
    <2> QED BY <2>1, <2>2, <2>3
  <1>6. tr[s].seqno_out \in Nat /\ tr[s].made \in Nat /\ tr[s].strict \in BOOLEAN
        /\ tr[s].preferred_kex \in Seq(STRING)
    BY <1>2 DEF Shape
  <1>7. PICK m : pk = <<m>> /\ m.type = sent /\ m.val = val
    BY <1>4, <1>6, OnePacket
  <1>8. IsSeq(msgs) /\ Len(msgs) = 1 /\ msgs[1].type = sent /\ DOMAIN msgs = {1}
    <2> DEFINE a == Msg(sent, val)
    <2>1. a.type = sent
      BY DEF Msg
    <2> HIDE DEF a
    <2>2. IsSeq(<<a>>) /\ Len(<<a>>) = 1 /\ <<a>>[1] = a
      BY ShortSeqs
    <2>3. DOMAIN <<a>> = 1 .. 1
      BY <2>2, SeqFacts
    <2> QED BY <2>1, <2>2, <2>3 DEF a
  <1> HIDE DEF msgs
  <1>9. IsSeq(pk) /\ Len(pk) = 1
    BY <1>8, PacketsFacts
  <1>10. PlainPackets(s, pk)
    BY <1>2, <1>4, <1>8, PacketsPlain
  <1> HIDE DEF pk
  <1>11. Answers(s, pk)
    <2>1. Read(s).type # NEWKEYS
      BY <1>1, Types
    <2>2. tr'[s].made \in Nat /\ tr'[s].strict \in BOOLEAN /\ tr'[s].preferred_kex \in Seq(STRING)
      BY <1>5, <1>6 DEF EngineKept
    <2>3. tr'[s].seqno_in = tr[s].seqno_in + 1 /\ tr'[s].seqno_out = tr[s].seqno_out + Len(pk)
      BY <1>3, <1>4, <1>8, <1>9
    <2> QED BY <1>1, <1>3, <1>5, <1>9, <1>10, <2>1, <2>2, <2>3 DEF Answers
  <1>12. Goes(s, pk, m)
    <2>1. IsEngine(m) /\ m.type \in EngineTypes
      BY <1>7 DEF IsEngine
    <2>2. tr'[s].expected \in LaterTypes(s, tr[s].agreed.kex)
      BY <1>3
    <2>3. s = "client" =>
            /\ m.type \in ClientSends(tr[s].agreed.kex)
            /\ tr[s].agreed.kex = "gex" => m.type = GEX_INIT
            /\ \A f \in {"H", "session_id", "host_key", "gss_kex_used"} : tr'[s][f] = tr[s][f]
      BY <1>5, <1>7
    <2>4. s = "server" =>
            /\ \/ tr[s].agreed.kex = "gex" /\ m.type = GEX_GROUP
               \/ tr[s].agreed.kex = "gss_gex" /\ m.type = KEXGSS_GROUP
               \/ tr[s].agreed.kex \in {"gss", "gss_gex"} /\ m.type = KEXGSS_CONTINUE
            /\ tr[s].session_id # NoHash => tr'[s].session_id = tr[s].session_id
            /\ tr'[s].session_id # NoHash => tr'[s].session_id[1].n = 1
            /\ KEXGSS_CONTINUE \notin tr'[s].expected =>
                 tr'[s].session_id = tr[s].session_id /\ KEXGSS_CONTINUE \notin tr[s].expected
      BY <1>3, <1>5, <1>7
    <2> QED BY <1>1, <1>5, <1>7, <1>11, <2>1, <2>2, <2>3, <2>4 DEF Goes
  <1> QED BY <1>12, GoesStep

\* A handler that ends its end's part of the exchange.
LEMMA OutboundStep ==
    ASSUME HandshakeInv, NEW s \in Side, NEW type \in EngineTypes, NEW engines,
           TakesKex(s, type, engines), NEW T, DOMAIN T = Fields,
           \A f \in Fields \ (Work \cup {"gss_kex_used"}) : T[f] = tr[s][f],
           NEW msgs, IsSeq(msgs), C.agreed.kex = V.agreed.kex, Outbound(s, T, msgs),
           s = "client" =>
             /\ msgs = <<>> /\ Phase("server") = 3 /\ T.H = V.H
             /\ T.host_key \in setup.server_keys \cup {NullHostKey}
             /\ T.gss_kex_used => T.host_key = NullHostKey,
           s = "server" =>
             /\ T.session_id # NoHash /\ T.session_id[1].n = 1
             /\ tr[s].made = 1 => T.session_id = T.H
             /\ \E m : /\ msgs = <<m>> /\ IsEngine(m)
                       /\ \/ /\ \/ V.agreed.kex \in {"group", "ecdh"} /\ m.type = KEXDH_REPLY
                                \/ V.agreed.kex = "gex" /\ m.type = GEX_REPLY
                             /\ m.val.sig.over = T.H /\ m.val.key \in setup.server_keys
                          \/ /\ V.agreed.kex \in {"gss", "gss_gex"} /\ m.type = KEXGSS_COMPLETE
                             /\ m.val.mic = T.session_id
    PROVE  HandshakeInv'
  <1>1. /\ tr[s].active /\ tr[s].stage = "loop" /\ wire[s] # <<>> /\ app[s] # "idle"
        /\ Read(s).type \in EngineTypes /\ Phase(s) = 2 /\ Phase("client") = 2
        /\ \A t \in Side : \A i \in DOMAIN wire[t] : IsEngine(wire[t][i]) => t = s /\ i = 1
    BY EngineRead
  <1>2. Shape
    BY Parts
  <1>3. /\ T.seqno_in = tr[s].seqno_in /\ T.seqno_out = tr[s].seqno_out
        /\ T.out_key = tr[s].out_key /\ T.strict = tr[s].strict /\ T.agreed = tr[s].agreed
    BY DEF Fields, Work
  <1>4. /\ Others(s) /\ app' = app
        /\ \A f \in Fields \ {"expected", "seqno_in", "seqno_out", "out_key"} : tr'[s][f] = T[f]
        /\ tr'[s].expected = {NEWKEYS} /\ tr'[s].seqno_in = tr[s].seqno_in + 1
        /\ tr'[s].out_key = <<T.H, T.agreed.local>>
        /\ \E packets : Wires(s, packets) /\ LastPackets(s, packets, msgs)
    BY <1>1, <1>2, <1>3, OutboundFacts
  <1>5. PICK packets : Wires(s, packets) /\ LastPackets(s, packets, msgs)
    BY <1>4
  <1>6. /\ \A f \in EngineKept \cup {"stage", "active", "in_key"} : tr'[s][f] = tr[s][f]
        /\ \A f \in {"H", "session_id", "host_key", "gss_kex_used"} : tr'[s][f] = T[f]
    <2>1. \A f \in EngineKept \cup {"stage", "active", "in_key"} : tr'[s][f] = tr[s][f]
      BY <1>4 DEF Fields, Work, EngineKept
    <2>2. \A f \in {"H", "session_id", "host_key", "gss_kex_used"} : tr'[s][f] = T[f]
      BY <1>4 DEF Fields
    <2> QED BY <2>1, <2>2
  <1>7. tr'[s].out_key = <<tr'[s].H, Algs>>
    <2>1. tr[s].agreed.local = Algs
      BY <1>1, Parts DEF AgreedOK
    <2> QED BY <1>3, <1>4, <1>6, <2>1
  <1>8. Finishes(s, packets, msgs)
    <2>1. s = "client" =>
            /\ msgs = <<>> /\ Phase("server") = 3 /\ tr'[s].H = V.H
            /\ tr'[s].host_key \in setup.server_keys \cup {NullHostKey}
            /\ tr'[s].gss_kex_used => tr'[s].host_key = NullHostKey
      BY <1>6
    <2>2. s = "server" =>
            /\ Phase("client") = 2
            /\ tr'[s].session_id # NoHash /\ tr'[s].session_id[1].n = 1
            /\ tr[s].made = 1 => tr'[s].session_id = tr'[s].H
            /\ \E m : /\ msgs = <<m>> /\ IsEngine(m)
                      /\ \/ /\ \/ V.agreed.kex \in {"group", "ecdh"} /\ m.type = KEXDH_REPLY
                               \/ V.agreed.kex = "gex" /\ m.type = GEX_REPLY
                            /\ m.val.sig.over = tr'[s].H /\ m.val.key \in setup.server_keys
                         \/ /\ V.agreed.kex \in {"gss", "gss_gex"} /\ m.type = KEXGSS_COMPLETE
                            /\ m.val.mic = tr'[s].session_id
      BY <1>1, <1>6
    <2> QED BY <1>1, <1>4, <1>5, <1>6, <1>7, <2>1, <2>2 DEF Finishes
  <1> QED BY <1>8, FinishesStep

\* What is put behind a list does not change its beginning.
LEMMA BeginningKept ==
    ASSUME NEW q, NEW r, NEW first, IsSeq(r), IsSeq(q) /\ Len(q) >= 1 /\ q[1] = first
    PROVE  /\ IsSeq(q \o r) /\ Len(q \o r) >= 1 /\ (q \o r)[1] = first
           /\ q \o r # NoHash
  <1>1. /\ IsSeq(q \o r) /\ Len(q \o r) = Len(q) + Len(r) /\ Len(q) \in Nat /\ Len(r) \in Nat
        /\ \A i \in 1 .. Len(q) : (q \o r)[i] = q[i]
    BY ConcatFacts
  <1>2. Len(q \o r) >= 1 /\ (q \o r)[1] = first
    BY <1>1
  <1>3. q \o r # NoHash
    BY <1>2, ShortSeqs DEF NoHash
  <1> QED BY <1>1, <1>2, <1>3

\* The exchange hash begins with the client's KEXINIT.
LEMMA HashBegins ==
    ASSUME NEW s \in Side, NEW T, NEW key, NEW e, NEW f
    PROVE  LET first == IF s = "client" THEN T.local_kex_init ELSE T.remote_kex_init
           IN  \A h \in {GroupHash(s, T, key, e, f), EcdhHash(s, T, key, e, f),
                         GexHash(s, T, key, e, f)} : h # NoHash /\ h[1] = first
  <1> DEFINE first == IF s = "client" THEN T.local_kex_init ELSE T.remote_kex_init
             second == IF s = "client" THEN T.remote_kex_init ELSE T.local_kex_init
             c == <<first, second, key>>
             sizes == IF T.old_style THEN <<T.bits.prefer>>
                      ELSE <<T.bits.min, T.bits.prefer, T.bits.max>>
  <1>1. \A x, y, z : IsSeq(<<x, y, z>>) /\ Len(<<x, y, z>>) = 3 /\ <<x, y, z>>[1] = x
    BY DEF IsSeq, Range
  <1>2. Common(s, T, key) = c
    BY DEF Common
  <1>3. IsSeq(c) /\ Len(c) >= 1 /\ c[1] = first
    <2>1. IsSeq(c) /\ Len(c) = 3 /\ c[1] = first
      BY <1>1
    <2> QED BY <2>1
  <1>4. IsSeq(sizes)
    BY <1>1, ShortSeqs
  <1> HIDE DEF first, c, sizes
  <1>7. GroupHash(s, T, key, e, f) # NoHash /\ GroupHash(s, T, key, e, f)[1] = first
    <2> DEFINE r == <<"group", e, f>>
    <2>1. GroupHash(s, T, key, e, f) = c \o r
      BY <1>2 DEF GroupHash
    <2>2. IsSeq(r)
      BY <1>1
    <2> HIDE DEF r
    <2>3. c \o r # NoHash /\ (c \o r)[1] = first
      BY <1>3, <2>2, BeginningKept, ZenonT(90)
    <2> QED BY <2>1, <2>3
  <1>8. EcdhHash(s, T, key, e, f) # NoHash /\ EcdhHash(s, T, key, e, f)[1] = first
    <2> DEFINE r == <<"ecdh", e, f>>
    <2>1. EcdhHash(s, T, key, e, f) = c \o r
      BY <1>2 DEF EcdhHash
    <2>2. IsSeq(r)
      BY <1>1
    <2> HIDE DEF r
    <2>3. c \o r # NoHash /\ (c \o r)[1] = first
      BY <1>3, <2>2, BeginningKept
    <2> QED BY <2>1, <2>3
  <1>9. GexHash(s, T, key, e, f) # NoHash /\ GexHash(s, T, key, e, f)[1] = first
    <2> DEFINE r == <<T.p, e, f>>
    <2>1. GexHash(s, T, key, e, f) = (c \o sizes) \o r
      BY <1>2 DEF GexHash, sizes
    <2>2. IsSeq(r)
      BY <1>1
    <2> HIDE DEF r
    <2>3. IsSeq(c \o sizes) /\ Len(c \o sizes) >= 1 /\ (c \o sizes)[1] = first
      BY <1>3, <1>4, BeginningKept
    <2> DEFINE q == c \o sizes
    <2> HIDE DEF q
    <2>4. q \o r # NoHash /\ (q \o r)[1] = first
      <3>1. IsSeq(q) /\ Len(q) >= 1 /\ q[1] = first
        BY <2>3 DEF q
      <3> QED BY <2>2, <3>1, BeginningKept, ZenonT(90)
    <2> QED BY <2>1, <2>4 DEF q
  <1> QED BY <1>7, <1>8, <1>9 DEF first

\* The session id that a server's _set_K_H leaves.
LEMMA SessionId ==
    ASSUME HandshakeInv, NEW type \in EngineTypes, NEW engines, TakesKex("server", type, engines),
           NEW h, h # NoHash, h[1] = V.remote_kex_init
    PROVE  LET id == IF V.session_id = NoHash THEN h ELSE V.session_id
           IN  /\ id # NoHash /\ id[1].n = 1
               /\ V.session_id # NoHash => id = V.session_id
               /\ V.made = 1 /\ KEXGSS_CONTINUE \notin V.expected => id = h
  <1>1. Phase("server") = 2 /\ Phase("client") = 2 /\ C.made = V.made /\ C.made \in Nat /\ C.made # 0
    BY EngineRead, Ends DEF C, V
  <1>2. V.remote_kex_init = C.local_kex_init
    BY <1>1, Parts, Ends DEF AgreedOK, C, V
  <1>3. C.local_kex_init.n = C.made
    <2>1. C.local_kex_init # NoInit
      BY <1>1 DEF Phase, C
    <2> QED BY <2>1, Parts, Ends DEF LocalOK, C
  <1>4. FirstOK
    BY Parts
  <1>5. V.session_id = NoHash => C.made = 1
    <2>1. C.made >= 2 => V.session_id # NoHash
      BY <1>4 DEF FirstOK
    <2> QED BY <1>1, <2>1
  <1>6. /\ V.session_id # NoHash => V.session_id[1].n = 1
        /\ V.made = 1 /\ KEXGSS_CONTINUE \notin V.expected => V.session_id = NoHash
    BY <1>1, <1>4 DEF FirstOK
  <1>7. CASE V.session_id = NoHash
    BY <1>2, <1>3, <1>5, <1>7
  <1>8. CASE V.session_id # NoHash
    BY <1>6, <1>8
  <1> QED BY <1>7, <1>8

\* The message numbers of the engines.
LEMMA Numbers ==
    /\ KEXDH_INIT = 30 /\ KEXDH_REPLY = 31 /\ GEX_REQUEST_OLD = 30 /\ GEX_GROUP = 31
    /\ GEX_INIT = 32 /\ GEX_REPLY = 33 /\ GEX_REQUEST = 34 /\ KEXGSS_INIT = 30
    /\ KEXGSS_CONTINUE = 31 /\ KEXGSS_COMPLETE = 32 /\ KEXGSS_HOSTKEY = 33 /\ KEXGSS_ERROR = 34
    /\ KEXGSS_GROUPREQ = 40 /\ KEXGSS_GROUP = 41
    /\ {30, 31, 32, 33, 34, 40, 41} \subseteq EngineTypes
  BY DEF KEXDH_INIT, KEXDH_REPLY, GEX_REQUEST_OLD, GEX_GROUP, GEX_INIT, GEX_REPLY, GEX_REQUEST,
         KEXGSS_INIT, KEXGSS_CONTINUE, KEXGSS_COMPLETE, KEXGSS_HOSTKEY, KEXGSS_ERROR,
         KEXGSS_GROUPREQ, KEXGSS_GROUP, EngineTypes

LEMMA SetKHFacts ==
    ASSUME NEW T, DOMAIN T = Fields, NEW h
    PROVE  LET R == SetKH(T, h)
           IN  /\ DOMAIN R = Fields /\ \A f \in Fields \ {"H", "session_id"} : R[f] = T[f]
               /\ R.H = h /\ R.session_id = IF T.session_id = NoHash THEN h ELSE T.session_id
  BY DEF SetKH, Fields

\* What a server's handler has after _set_K_H.
ServerHashed(h, R) ==
    /\ DOMAIN R = Fields /\ \A f \in Fields \ Work : R[f] = tr["server"][f]
    /\ R.H = h /\ R.session_id # NoHash /\ R.session_id[1].n = 1
    /\ tr["server"].session_id # NoHash => R.session_id = tr["server"].session_id
    /\ tr["server"].made = 1 /\ KEXGSS_CONTINUE \notin tr["server"].expected => R.session_id = h

LEMMA ServerHash ==
    ASSUME HandshakeInv, NEW type \in EngineTypes, NEW engines, TakesKex("server", type, engines),
           NEW T, DOMAIN T = Fields,
           \A f \in Fields \ {"e", "f", "host_key"} : T[f] = tr["server"][f],
           NEW h, h # NoHash, h[1] = tr["server"].remote_kex_init
    PROVE  ServerHashed(h, SetKH(T, h))
  <1> DEFINE R == SetKH(T, h)
  <1>1. /\ DOMAIN R = Fields /\ \A f \in Fields \ {"H", "session_id"} : R[f] = T[f]
        /\ R.H = h /\ R.session_id = IF T.session_id = NoHash THEN h ELSE T.session_id
    BY SetKHFacts
  <1>2. LET id == IF V.session_id = NoHash THEN h ELSE V.session_id
        IN  /\ id # NoHash /\ id[1].n = 1
            /\ V.session_id # NoHash => id = V.session_id
            /\ V.made = 1 /\ KEXGSS_CONTINUE \notin V.expected => id = h
    BY SessionId DEF V
  <1> HIDE DEF R
  <1>3. \A f \in Fields \ Work : R[f] = tr["server"][f]
    BY <1>1 DEF Fields, Work
  <1>4. T.session_id = tr["server"].session_id
    BY DEF Fields
  <1> QED BY <1>1, <1>2, <1>3, <1>4 DEF ServerHashed, V, R

\* A server's handler that signs the hash.
LEMMA ServerReply ==
    ASSUME HandshakeInv, NEW type \in EngineTypes, NEW engines, TakesKex("server", type, engines),
           C.agreed.kex = V.agreed.kex, KEXGSS_CONTINUE \notin tr["server"].expected,
           NEW h, NEW R, ServerHashed(h, R), NEW reply, NEW g,
           \/ V.agreed.kex \in {"group", "ecdh"} /\ reply = KEXDH_REPLY
           \/ V.agreed.kex = "gex" /\ reply = GEX_REPLY,
           Outbound("server", R, <<Msg(reply, [key |-> GetServerKey(tr["server"]), f |-> g,
                                               sig |-> SignData(tr["server"], h)])>>)
    PROVE  HandshakeInv'
  <1> DEFINE key == GetServerKey(tr["server"])
             val == [key |-> key, f |-> g, sig |-> SignData(tr["server"], h)]
             m == Msg(reply, val)
  <1>1. key \in setup.server_keys
    <2>1. Phase("server") = 2
      BY EngineRead, Ends
    <2>2. tr["server"].agreed.keys \in Range(AvailableKeys("server"))
      BY <2>1, Parts, Ends DEF AgreedOK
    <2> QED BY <2>2, KeyFacts, Parts DEF Shape
  <1>2. m.type = reply /\ m.val.sig.over = h /\ m.val.key = key
    BY DEF Msg, SignData
  <1>3. IsEngine(m)
    BY <1>2, Numbers DEF IsEngine
  <1>4. Outbound("server", R, <<m>>)
    OBVIOUS
  <1> HIDE DEF key, val, m
  <1>5. IsSeq(<<m>>)
    BY ShortSeqs
  <1>6. /\ DOMAIN R = Fields /\ \A f \in Fields \ (Work \cup {"gss_kex_used"}) : R[f] = tr["server"][f]
        /\ R.H = h /\ R.session_id # NoHash /\ R.session_id[1].n = 1
        /\ tr["server"].made = 1 => R.session_id = R.H
    BY DEF ServerHashed
  <1>7. \E x : /\ <<m>> = <<x>> /\ IsEngine(x)
               /\ \/ /\ \/ V.agreed.kex \in {"group", "ecdh"} /\ x.type = KEXDH_REPLY
                        \/ V.agreed.kex = "gex" /\ x.type = GEX_REPLY
                     /\ x.val.sig.over = R.H /\ x.val.key \in setup.server_keys
                  \/ /\ V.agreed.kex \in {"gss", "gss_gex"} /\ x.type = KEXGSS_COMPLETE
                     /\ x.val.mic = R.session_id
    BY <1>1, <1>2, <1>3, <1>6
  <1> DEFINE msgs == <<m>>
  <1> HIDE DEF msgs
  <1>8. /\ Outbound("server", R, msgs) /\ IsSeq(msgs)
        /\ \E x : /\ msgs = <<x>> /\ IsEngine(x)
                  /\ \/ /\ \/ V.agreed.kex \in {"group", "ecdh"} /\ x.type = KEXDH_REPLY
                           \/ V.agreed.kex = "gex" /\ x.type = GEX_REPLY
                        /\ x.val.sig.over = R.H /\ x.val.key \in setup.server_keys
                     \/ /\ V.agreed.kex \in {"gss", "gss_gex"} /\ x.type = KEXGSS_COMPLETE
                        /\ x.val.mic = R.session_id
    BY <1>4, <1>5, <1>7 DEF msgs
  <1> QED BY <1>6, <1>8, OutboundStep, Ends

\* A server's handler that answers a token: with a MIC, or for a further round.
LEMMA ServerGss ==
    ASSUME HandshakeInv, NEW type \in EngineTypes, NEW engines, TakesKex("server", type, engines),
           C.agreed.kex = V.agreed.kex, KEXGSS_CONTINUE \notin tr["server"].expected,
           V.agreed.kex \in {"gss", "gss_gex"},
           NEW h, NEW R, ServerHashed(h, R), GssAnswer("server", R)
    PROVE  HandshakeInv'
  <1>1. /\ DOMAIN R = Fields /\ \A f \in Fields \ Work : R[f] = tr["server"][f]
        /\ R.H = h /\ R.session_id # NoHash /\ R.session_id[1].n = 1
        /\ tr["server"].session_id # NoHash => R.session_id = tr["server"].session_id
        /\ tr["server"].made = 1 => R.session_id = R.H
    BY DEF ServerHashed
  <1> DEFINE Q == [R EXCEPT !.gss_kex_used = TRUE]
             val == [f |-> R.f, mic |-> GetMic(R.session_id)]
             m == Msg(KEXGSS_COMPLETE, val)
             msgs == <<m>>
  <1>2. CASE Outbound("server", Q, msgs)
    <2>1. /\ DOMAIN Q = Fields
          /\ \A f \in Fields \ (Work \cup {"gss_kex_used"}) : Q[f] = tr["server"][f]
          /\ Q.session_id = R.session_id /\ Q.H = R.H
      BY <1>1 DEF Fields, Work
    <2>2. m.type = KEXGSS_COMPLETE /\ m.val.mic = R.session_id
      BY DEF Msg, GetMic
    <2>3. IsEngine(m)
      BY <2>2, Numbers DEF IsEngine
    <2> HIDE DEF Q, val, m
    <2>4. /\ IsSeq(msgs)
          /\ \E x : /\ msgs = <<x>> /\ IsEngine(x)
                    /\ \/ /\ \/ V.agreed.kex \in {"group", "ecdh"} /\ x.type = KEXDH_REPLY
                             \/ V.agreed.kex = "gex" /\ x.type = GEX_REPLY
                          /\ x.val.sig.over = Q.H /\ x.val.key \in setup.server_keys
                       \/ /\ V.agreed.kex \in {"gss", "gss_gex"} /\ x.type = KEXGSS_COMPLETE
                          /\ x.val.mic = Q.session_id
      BY <2>1, <2>2, <2>3, ShortSeqs
    <2>5. Q.session_id # NoHash /\ Q.session_id[1].n = 1
      BY <1>1, <2>1
    <2>6. tr["server"].made = 1 => Q.session_id = Q.H
      BY <1>1, <2>1
    <2> HIDE DEF msgs
    <2> QED BY <1>2, <2>1, <2>4, <2>5, <2>6, OutboundStep, Ends
  <1>3. CASE Continue("server", R, <<Msg(KEXGSS_CONTINUE, 0)>>, Further)
    <2>1. Further \in LaterTypes("server", tr["server"].agreed.kex)
      BY DEF LaterTypes, V
    <2>2. KEXGSS_CONTINUE \in Further /\ KEXGSS_CONTINUE \in EngineTypes
      BY Numbers DEF Further
    <2>3. Phase(Peer("server")) = 2
      BY EngineRead, Ends
    <2>4. tr["server"].agreed.kex \in {"gss", "gss_gex"}
      BY DEF V
    <2> QED BY <1>1, <1>3, <2>1, <2>2, <2>3, <2>4, ContinueStep, Ends
  <1> QED BY <1>2, <1>3 DEF GssAnswer, Further

\* A client's handler that has verified the signature of the server.
LEMMA ClientReply ==
    ASSUME HandshakeInv, NEW type \in EngineTypes, NEW engines, TakesKex("client", type, engines),
           C.agreed.kex = V.agreed.kex, Phase("server") = 3, NEW m, Signed(m), NEW g, NEW h,
           LET T == SetKH([tr["client"] EXCEPT !.f = g], h)
           IN  /\ VerifyKey(T, m.val.key, m.val.sig)
               /\ Outbound("client", [T EXCEPT !.host_key = m.val.key], <<>>)
    PROVE  HandshakeInv'
  <1> DEFINE T0 == [tr["client"] EXCEPT !.f = g]
             T == SetKH(T0, h)
             R == [T EXCEPT !.host_key = m.val.key]
  <1>1. VerifyKey(T, m.val.key, m.val.sig) /\ Outbound("client", R, <<>>)
    OBVIOUS
  <1>2. DOMAIN tr["client"] = Fields
    BY Parts, Ends DEF Shape
  <1>3. DOMAIN T0 = Fields /\ \A f \in Fields \ {"f"} : T0[f] = tr["client"][f]
    BY <1>2 DEF Fields
  <1> HIDE DEF T0
  <1>4. /\ DOMAIN T = Fields /\ \A f \in Fields \ {"H", "session_id"} : T[f] = T0[f]
        /\ T.H = h
    BY <1>3, SetKHFacts
  <1> HIDE DEF T
  <1>5. /\ DOMAIN R = Fields
        /\ \A f \in Fields \ (Work \cup {"gss_kex_used"}) : R[f] = tr["client"][f]
        /\ R.H = h /\ R.gss_kex_used = C.gss_kex_used /\ R.host_key = m.val.key
    <2>1. DOMAIN R = Fields /\ \A f \in Fields \ {"host_key"} : R[f] = T[f]
      BY <1>4 DEF Fields
    <2>2. R.host_key = m.val.key
      BY <1>4 DEF Fields
    <2> HIDE DEF R
    <2>3. \A f \in Fields \ (Work \cup {"gss_kex_used"}) : R[f] = tr["client"][f]
      BY <1>3, <1>4, <2>1 DEF Work
    <2>4. R.H = h
      BY <1>4, <2>1 DEF Fields
    <2>5. R.gss_kex_used = C.gss_kex_used
      BY <1>3, <1>4, <2>1 DEF Fields, C
    <2> QED BY <2>1, <2>2, <2>3, <2>4, <2>5
  <1> HIDE DEF R
  <1>6. R.H = V.H /\ R.host_key \in setup.server_keys
    BY <1>1, <1>4, <1>5 DEF VerifyKey, Signed
  <1>7. ~C.gss_kex_used
    <2>1. Phase("client") = 2
      BY EngineRead, Ends
    <2> QED BY <2>1, Parts DEF HostOK
  <1> QED BY <1>1, <1>5, <1>6, <1>7, OutboundStep, EmptyIsSeq, Ends

LEMMA KexdhInitStep ==
    ASSUME HandshakeInv, NEW s \in Side, ParseKexdhInit(s)
    PROVE  HandshakeInv'
  <1> DEFINE T == tr["server"]
             R == [T EXCEPT !.e = Read("server").val]
             h == GroupHash("server", T, GetServerKey(T), Read("server").val, T.f)
  <1>1. /\ TakesKex("server", KEXDH_INIT, {"group"})
        /\ \/ Raises("server", "range")
           \/ /\ Ephemeral(Read("server").val)
              /\ Outbound("server", SetKH(R, h),
                    <<Msg(KEXDH_REPLY, [key |-> GetServerKey(T), f |-> T.f, sig |-> SignData(T, h)])>>)
    BY DEF ParseKexdhInit
  <1>2. KEXDH_INIT \in EngineTypes
    BY Numbers
  <1>3. T.active /\ Shape
    BY <1>1, <1>2, EngineRead, Parts, Ends
  <1>4. CASE Raises("server", "range")
    BY <1>3, <1>4, RaisesStep, Ends
  <1>5. CASE Ephemeral(Read("server").val) /\ ~Raises("server", "range")
    <2>1. C.agreed.kex = V.agreed.kex /\ KEXGSS_CONTINUE \notin T.expected /\ V.agreed.kex = "group"
      BY <1>1, <1>2, <1>5, ServerTakes DEF V
    <2>2. DOMAIN R = Fields /\ \A f \in Fields \ {"e", "f", "host_key"} : R[f] = T[f]
      BY <1>3, Ends DEF Shape, Fields
    <2>3. h # NoHash /\ h[1] = T.remote_kex_init
      BY HashBegins, Ends
    <2> HIDE DEF R, h
    <2>4. ServerHashed(h, SetKH(R, h))
      BY <1>1, <1>2, <2>2, <2>3, ServerHash
    <2> QED BY <1>1, <1>2, <1>5, <2>1, <2>4, ServerReply
  <1> QED BY <1>1, <1>4, <1>5

LEMMA KexecdhInitStep ==
    ASSUME HandshakeInv, NEW s \in Side, ParseKexecdhInit(s)
    PROVE  HandshakeInv'
  <1> DEFINE T == tr["server"]
             R == [T EXCEPT !.e = Read("server").val]
             h == EcdhHash("server", T, GetServerKey(T), Read("server").val, T.f)
  <1>1. /\ TakesKex("server", KEXDH_INIT, {"ecdh"})
        /\ \/ Raises("server", "range")
           \/ /\ Ephemeral(Read("server").val)
              /\ Outbound("server", SetKH(R, h),
                    <<Msg(KEXDH_REPLY, [key |-> GetServerKey(T), f |-> T.f, sig |-> SignData(T, h)])>>)
    BY DEF ParseKexecdhInit
  <1>2. KEXDH_INIT \in EngineTypes
    BY Numbers
  <1>3. T.active /\ Shape
    BY <1>1, <1>2, EngineRead, Parts, Ends
  <1>4. CASE Raises("server", "range")
    BY <1>3, <1>4, RaisesStep, Ends
  <1>5. CASE Ephemeral(Read("server").val) /\ ~Raises("server", "range")
    <2>1. C.agreed.kex = V.agreed.kex /\ KEXGSS_CONTINUE \notin T.expected /\ V.agreed.kex = "ecdh"
      BY <1>1, <1>2, <1>5, ServerTakes DEF V
    <2>2. DOMAIN R = Fields /\ \A f \in Fields \ {"e", "f", "host_key"} : R[f] = T[f]
      BY <1>3, Ends DEF Shape, Fields
    <2>3. h # NoHash /\ h[1] = T.remote_kex_init
      BY HashBegins, Ends
    <2> HIDE DEF R, h
    <2>4. ServerHashed(h, SetKH(R, h))
      BY <1>1, <1>2, <2>2, <2>3, ServerHash
    <2> QED BY <1>1, <1>2, <1>5, <2>1, <2>4, ServerReply
  <1> QED BY <1>1, <1>4, <1>5

LEMMA GexInitStep ==
    ASSUME HandshakeInv, NEW s \in Side, ParseGexInit(s)
    PROVE  HandshakeInv'
  <1>1. TakesKex(s, GEX_INIT, {"gex"}) /\ GEX_INIT \in EngineTypes
    BY Numbers DEF ParseGexInit
  <1>2. s = "server"
    <2> SUFFICES ASSUME s = "client" PROVE FALSE
      BY Ends
    <2> QED BY <1>1, ClientTakes, Numbers
  <1> DEFINE T == tr["server"]
             g == Fresh("server", T)
             R == [T EXCEPT !.e = Read("server").val, !.f = g]
             h == GexHash("server", T, GetServerKey(T), Read("server").val, g)
  <1>3. Outbound("server", SetKH(R, h),
                 <<Msg(GEX_REPLY, [key |-> GetServerKey(T), f |-> g, sig |-> SignData(T, h)])>>)
    BY <1>2 DEF ParseGexInit
  <1>4. C.agreed.kex = V.agreed.kex /\ KEXGSS_CONTINUE \notin T.expected /\ V.agreed.kex = "gex"
    BY <1>1, <1>2, ServerTakes DEF V
  <1>5. DOMAIN R = Fields /\ \A f \in Fields \ {"e", "f", "host_key"} : R[f] = T[f]
    BY Parts, Ends DEF Shape, Fields
  <1>6. h # NoHash /\ h[1] = T.remote_kex_init
    BY HashBegins, Ends
  <1> HIDE DEF R, h, g
  <1>7. ServerHashed(h, SetKH(R, h))
    BY <1>1, <1>2, <1>5, <1>6, ServerHash
  <1> QED BY <1>1, <1>2, <1>3, <1>4, <1>7, ServerReply

LEMMA KexdhReplyStep ==
    ASSUME HandshakeInv, NEW s \in Side, ParseKexdhReply(s) \/ ParseKexecdhReply(s)
    PROVE  HandshakeInv'
  <1> DEFINE m == Read("client")
             T == tr["client"]
             hg == GroupHash("client", T, m.val.key, T.e, m.val.f)
             he == EcdhHash("client", T, m.val.key, T.e, m.val.f)
  <1>1. \E kex, h :
          /\ kex \in {"group", "ecdh"} /\ TakesKex("client", KEXDH_REPLY, {kex})
          /\ \/ Raises("client", "signature")
             \/ LET R == SetKH([T EXCEPT !.f = m.val.f], h)
                IN  /\ VerifyKey(R, m.val.key, m.val.sig)
                    /\ Outbound("client", [R EXCEPT !.host_key = m.val.key], <<>>)
    <2>1. CASE ParseKexdhReply(s)
      <3>1. /\ TakesKex("client", KEXDH_REPLY, {"group"})
            /\ \/ Raises("client", "signature")
               \/ LET R == SetKH([T EXCEPT !.f = m.val.f], hg)
                  IN  /\ VerifyKey(R, m.val.key, m.val.sig)
                      /\ Outbound("client", [R EXCEPT !.host_key = m.val.key], <<>>)
        BY <2>1 DEF ParseKexdhReply
      <3> HIDE DEF hg, m, T
      <3> QED BY <3>1
    <2>2. CASE ParseKexecdhReply(s)
      <3>1. /\ TakesKex("client", KEXDH_REPLY, {"ecdh"})
            /\ \/ Raises("client", "signature")
               \/ LET R == SetKH([T EXCEPT !.f = m.val.f], he)
                  IN  /\ VerifyKey(R, m.val.key, m.val.sig)
                      /\ Outbound("client", [R EXCEPT !.host_key = m.val.key], <<>>)
        BY <2>2 DEF ParseKexecdhReply
      <3> HIDE DEF he, m, T
      <3> QED BY <3>1
    <2> QED BY <2>1, <2>2
  <1>2. PICK kex, h :
          /\ kex \in {"group", "ecdh"} /\ TakesKex("client", KEXDH_REPLY, {kex})
          /\ \/ Raises("client", "signature")
             \/ LET R == SetKH([T EXCEPT !.f = m.val.f], h)
                IN  /\ VerifyKey(R, m.val.key, m.val.sig)
                    /\ Outbound("client", [R EXCEPT !.host_key = m.val.key], <<>>)
    BY <1>1
  <1>3. KEXDH_REPLY \in EngineTypes
    BY Numbers
  <1>4. CASE Raises("client", "signature")
    <2>1. T.active
      BY <1>2, <1>3, EngineRead, Ends
    <2> QED BY <1>4, <2>1, RaisesStep, Ends
  <1>5. CASE LET R == SetKH([T EXCEPT !.f = m.val.f], h)
             IN  /\ VerifyKey(R, m.val.key, m.val.sig)
                 /\ Outbound("client", [R EXCEPT !.host_key = m.val.key], <<>>)
    <2>1. C.agreed.kex = V.agreed.kex /\ Phase("server") = 3 /\ Signed(m)
      BY <1>2, <1>3, ClientTakes
    <2> QED BY <1>2, <1>3, <1>5, <2>1, ClientReply
  <1> QED BY <1>2, <1>4, <1>5

LEMMA GexReplyStep ==
    ASSUME HandshakeInv, NEW s \in Side, ParseGexReply(s)
    PROVE  HandshakeInv'
  <1>1. TakesKex(s, GEX_REPLY, {"gex"}) /\ GEX_REPLY \in EngineTypes
    BY Numbers DEF ParseGexReply
  <1>2. s = "client"
    <2> SUFFICES ASSUME s = "server" PROVE FALSE
      BY Ends
    <2> QED BY <1>1, ServerTakes, Numbers
  <1> DEFINE m == Read("client")
             T == tr["client"]
             h == GexHash("client", T, m.val.key, T.e, m.val.f)
  <1>3. \/ Raises("client", "signature")
        \/ LET R == SetKH([T EXCEPT !.f = m.val.f], h)
           IN  /\ VerifyKey(R, m.val.key, m.val.sig)
               /\ Outbound("client", [R EXCEPT !.host_key = m.val.key], <<>>)
    BY <1>2 DEF ParseGexReply
  <1> HIDE DEF h
  <1>4. CASE Raises("client", "signature")
    <2>1. T.active
      BY <1>1, <1>2, EngineRead, Ends
    <2> QED BY <1>4, <2>1, RaisesStep, Ends
  <1>5. CASE LET R == SetKH([T EXCEPT !.f = m.val.f], h)
             IN  /\ VerifyKey(R, m.val.key, m.val.sig)
                 /\ Outbound("client", [R EXCEPT !.host_key = m.val.key], <<>>)
    <2>1. C.agreed.kex = V.agreed.kex /\ Phase("server") = 3 /\ Signed(m)
      BY <1>1, <1>2, ClientTakes, Numbers
    <2> QED BY <1>1, <1>2, <1>5, <2>1, ClientReply
  <1> QED BY <1>3, <1>4, <1>5

\* A server that settles the range of sizes of a group: it sends a prime or gives up.
LEMMA SendGroupStep ==
    ASSUME HandshakeInv, NEW type \in EngineTypes, NEW engines, TakesKex("server", type, engines),
           C.agreed.kex = V.agreed.kex, KEXGSS_CONTINUE \notin tr["server"].expected,
           NEW T, DOMAIN T = Fields,
           \A f \in Fields \ {"bits", "old_style"} : T[f] = tr["server"][f],
           NEW group, NEW init,
           \/ V.agreed.kex = "gex" /\ group = GEX_GROUP /\ init = GEX_INIT
           \/ V.agreed.kex = "gss_gex" /\ group = KEXGSS_GROUP /\ init = KEXGSS_INIT,
           SendGroup("server", T, group, init)
    PROVE  HandshakeInv'
  <1> DEFINE p == GetModulus(T.bits.min, T.bits.prefer, T.bits.max)
             R == [T EXCEPT !.p = p]
  <1>1. Raises("server", "moduli") \/ Continue("server", R, <<Msg(group, p)>>, {init})
    BY DEF SendGroup
  <1>2. CASE Raises("server", "moduli")
    <2>1. tr["server"].active
      BY EngineRead, Ends
    <2> QED BY <1>2, <2>1, RaisesStep, Ends
  <1>3. CASE Continue("server", R, <<Msg(group, p)>>, {init})
    <2>1. DOMAIN R = Fields /\ \A f \in Fields \ {"bits", "old_style", "p"} : R[f] = tr["server"][f]
      BY DEF Fields
    <2> HIDE DEF R, p
    <2>2. \A f \in Fields \ Work : R[f] = tr["server"][f]
      BY <2>1 DEF Work
    <2>3. R.session_id = tr["server"].session_id
      BY <2>1 DEF Fields
    <2>4. tr["server"].session_id # NoHash => tr["server"].session_id[1].n = 1
      BY Parts DEF FirstOK, V
    <2>5. group \in EngineTypes /\ KEXGSS_CONTINUE \notin {init}
      BY Numbers
    <2>6. {init} \in LaterTypes("server", tr["server"].agreed.kex)
      BY DEF LaterTypes, V
    <2>7. Phase(Peer("server")) = 2
      BY EngineRead, Ends
    <2>8. /\ \/ tr["server"].agreed.kex = "gex" /\ group = GEX_GROUP
             \/ tr["server"].agreed.kex = "gss_gex" /\ group = KEXGSS_GROUP
             \/ tr["server"].agreed.kex \in {"gss", "gss_gex"} /\ group = KEXGSS_CONTINUE
          /\ tr["server"].session_id # NoHash => R.session_id = tr["server"].session_id
          /\ R.session_id # NoHash => R.session_id[1].n = 1
          /\ KEXGSS_CONTINUE \notin {init} =>
               R.session_id = tr["server"].session_id /\ KEXGSS_CONTINUE \notin tr["server"].expected
      BY <2>3, <2>4 DEF V
    <2> QED BY <1>3, <2>1, <2>2, <2>5, <2>6, <2>7, <2>8, ContinueStep, Ends
  <1> QED BY <1>1, <1>2, <1>3

LEMMA GroupRequestStep ==
    ASSUME HandshakeInv, NEW s \in Side,
           ParseGexRequest(s) \/ ParseGexRequestOld(s) \/ ParseGssGroupreq(s)
    PROVE  HandshakeInv'
  <1> DEFINE V0 == tr["server"]
             T == [V0 EXCEPT !.bits = SaneRange(Read("server").val)]
             Told == [V0 EXCEPT !.old_style = TRUE,
                                !.bits = [min |-> MinBits, max |-> MaxBits,
                                          prefer |-> Smoosh(Read("server").val[2])]]
  <1>1. /\ DOMAIN T = Fields /\ \A f \in Fields \ {"bits", "old_style"} : T[f] = V0[f]
        /\ DOMAIN Told = Fields /\ \A f \in Fields \ {"bits", "old_style"} : Told[f] = V0[f]
    BY Parts, Ends DEF Shape, Fields
  <1>2. CASE ParseGexRequest(s)
    <2>1. TakesKex(s, GEX_REQUEST, {"gex"}) /\ GEX_REQUEST \in EngineTypes
      BY <1>2, Numbers DEF ParseGexRequest
    <2>2. s = "server"
      <3> SUFFICES ASSUME s = "client" PROVE FALSE
        BY Ends
      <3> QED BY <2>1, ClientTakes, Numbers
    <2>3. SendGroup("server", T, GEX_GROUP, GEX_INIT)
      BY <1>2, <2>2 DEF ParseGexRequest
    <2>4. C.agreed.kex = V.agreed.kex /\ KEXGSS_CONTINUE \notin V0.expected /\ V.agreed.kex = "gex"
      BY <2>1, <2>2, ServerTakes DEF V
    <2> HIDE DEF T, Told
    <2> QED BY <1>1, <2>1, <2>2, <2>3, <2>4, SendGroupStep
  <1>3. CASE ParseGexRequestOld(s)
    <2>1. TakesKex(s, GEX_REQUEST_OLD, {"gex"}) /\ GEX_REQUEST_OLD \in EngineTypes
      BY <1>3, Numbers DEF ParseGexRequestOld
    <2>2. s = "server"
      <3> SUFFICES ASSUME s = "client" PROVE FALSE
        BY Ends
      <3> QED BY <2>1, ClientTakes, Numbers
    <2>3. SendGroup("server", Told, GEX_GROUP, GEX_INIT)
      BY <1>3, <2>2 DEF ParseGexRequestOld
    <2>4. C.agreed.kex = V.agreed.kex /\ KEXGSS_CONTINUE \notin V0.expected /\ V.agreed.kex = "gex"
      BY <2>1, <2>2, ServerTakes DEF V
    <2> HIDE DEF T, Told
    <2> QED BY <1>1, <2>1, <2>2, <2>3, <2>4, SendGroupStep
  <1>4. CASE ParseGssGroupreq(s)
    <2>1. TakesKex(s, KEXGSS_GROUPREQ, {"gss_gex"}) /\ KEXGSS_GROUPREQ \in EngineTypes
      BY <1>4, Numbers DEF ParseGssGroupreq
    <2>2. s = "server"
      <3> SUFFICES ASSUME s = "client" PROVE FALSE
        BY Ends
      <3> QED BY <2>1, ClientTakes, Numbers
    <2>3. SendGroup("server", T, KEXGSS_GROUP, KEXGSS_INIT)
      BY <1>4, <2>2 DEF ParseGssGroupreq
    <2>4. C.agreed.kex = V.agreed.kex /\ KEXGSS_CONTINUE \notin V0.expected
          /\ V.agreed.kex = "gss_gex"
      BY <2>1, <2>2, ServerTakes DEF V
    <2> HIDE DEF T, Told
    <2> QED BY <1>1, <2>1, <2>2, <2>3, <2>4, SendGroupStep
  <1> QED BY <1>2, <1>3, <1>4

\* A client's handler that is given a prime.
LEMMA GroupStep ==
    ASSUME HandshakeInv, NEW s \in Side, ParseGexGroup(s) \/ ParseGssGroup(s)
    PROVE  HandshakeInv'
  <1> DEFINE T == tr["client"]
             g == Read("client").val
             e == Fresh("client", T)
             R == [T EXCEPT !.p = g, !.e = e]
  <1>1. /\ DOMAIN R = Fields /\ \A f \in Fields \ Work : R[f] = T[f]
        /\ \A f \in {"H", "session_id", "host_key"} : R[f] = T[f]
    BY Parts, Ends DEF Shape, Fields, Work
  <1> HIDE DEF R, g, e
  <1>2. CASE ParseGexGroup(s)
    <2>1. TakesKex(s, GEX_GROUP, {"gex"}) /\ GEX_GROUP \in EngineTypes
      BY <1>2, Numbers DEF ParseGexGroup
    <2>2. s = "client"
      <3> SUFFICES ASSUME s = "server" PROVE FALSE
        BY Ends
      <3> QED BY <2>1, ServerTakes, Numbers
    <2>3. Raises("client", "group") \/ Continue("client", R, <<Msg(GEX_INIT, e)>>, {GEX_REPLY})
      BY <1>2, <2>2 DEF ParseGexGroup, R, g, e
    <2>4. T.active
      BY <2>1, <2>2, EngineRead
    <2>5. C.agreed.kex = V.agreed.kex /\ T.agreed.kex = "gex" /\ Phase(Peer("client")) = 2
      BY <2>1, <2>2, ClientTakes, Numbers, Ends DEF C
    <2>6. {GEX_REPLY} \in LaterTypes("client", T.agreed.kex)
      BY <2>5 DEF LaterTypes
    <2>7. GEX_INIT \in ClientSends(T.agreed.kex) /\ GEX_INIT \in EngineTypes
      BY <2>5, Numbers DEF ClientSends
    <2>8. CASE Raises("client", "group")
      BY <2>4, <2>8, RaisesStep, Ends
    <2>9. CASE Continue("client", R, <<Msg(GEX_INIT, e)>>, {GEX_REPLY})
      BY <1>1, <2>1, <2>2, <2>5, <2>6, <2>7, <2>9, ContinueStep, Ends
    <2> QED BY <2>3, <2>8, <2>9
  <1>3. CASE ParseGssGroup(s)
    <2>1. TakesKex(s, KEXGSS_GROUP, {"gss_gex"}) /\ KEXGSS_GROUP \in EngineTypes
      BY <1>3, Numbers DEF ParseGssGroup
    <2>2. s = "client"
      <3> SUFFICES ASSUME s = "server" PROVE FALSE
        BY Ends
      <3> QED BY <2>1, ServerTakes, Numbers
    <2>3. Raises("client", "group") \/ Continue("client", R, <<Msg(KEXGSS_INIT, e)>>, AnswersToInit)
      BY <1>3, <2>2 DEF ParseGssGroup, R, g, e
    <2>4. T.active
      BY <2>1, <2>2, EngineRead
    <2>5. C.agreed.kex = V.agreed.kex /\ T.agreed.kex = "gss_gex" /\ Phase(Peer("client")) = 2
      BY <2>1, <2>2, ClientTakes, Numbers, Ends DEF C
    <2>6. AnswersToInit \in LaterTypes("client", T.agreed.kex)
      BY <2>5 DEF LaterTypes
    <2>7. KEXGSS_INIT \in ClientSends(T.agreed.kex) /\ KEXGSS_INIT \in EngineTypes
      BY <2>5, Numbers DEF ClientSends
    <2>8. CASE Raises("client", "group")
      BY <2>4, <2>8, RaisesStep, Ends
    <2>9. CASE Continue("client", R, <<Msg(KEXGSS_INIT, e)>>, AnswersToInit)
      BY <1>1, <2>1, <2>2, <2>5, <2>6, <2>7, <2>9, ContinueStep, Ends
    <2> QED BY <2>3, <2>8, <2>9
  <1> QED BY <1>2, <1>3

LEMMA GssInitStep ==
    ASSUME HandshakeInv, NEW s \in Side, ParseGssInit(s) \/ ParseGssGexInit(s)
    PROVE  HandshakeInv'
  <1> DEFINE T == tr["server"]
             val == Read("server").val
  <1>1. DOMAIN T = Fields /\ KEXGSS_INIT \in EngineTypes
    BY Parts, Ends, Numbers DEF Shape
  <1>2. CASE ParseGssInit(s)
    <2> DEFINE R == [T EXCEPT !.e = val, !.host_key = NullHostKey]
               h == GroupHash("server", T, NullHostKey, val, T.f)
    <2>1. /\ TakesKex("server", KEXGSS_INIT, {"gss"})
          /\ \/ Raises("server", "range")
             \/ Ephemeral(val) /\ GssAnswer("server", SetKH(R, h))
      BY <1>2 DEF ParseGssInit
    <2>2. DOMAIN R = Fields /\ \A f \in Fields \ {"e", "f", "host_key"} : R[f] = T[f]
      BY <1>1 DEF Fields
    <2>3. h # NoHash /\ h[1] = T.remote_kex_init
      BY HashBegins, Ends
    <2> HIDE DEF R, h
    <2>4. CASE Raises("server", "range")
      <3>1. T.active
        BY <1>1, <2>1, EngineRead, Ends
      <3> QED BY <2>4, <3>1, RaisesStep, Ends
    <2>5. CASE Ephemeral(val) /\ GssAnswer("server", SetKH(R, h))
      <3>1. ServerHashed(h, SetKH(R, h))
        BY <1>1, <2>1, <2>2, <2>3, ServerHash
      <3>2. /\ C.agreed.kex = V.agreed.kex /\ KEXGSS_CONTINUE \notin T.expected
            /\ V.agreed.kex = "gss"
        BY <1>1, <2>1, <2>5, ServerTakes DEF V
      <3> QED BY <1>1, <2>1, <2>5, <3>1, <3>2, ServerGss
    <2> QED BY <2>1, <2>4, <2>5
  <1>3. CASE ParseGssGexInit(s)
    <2>1. TakesKex(s, KEXGSS_INIT, {"gss_gex"})
      BY <1>3 DEF ParseGssGexInit
    <2>2. s = "server"
      <3> SUFFICES ASSUME s = "client" PROVE FALSE
        BY Ends
      <3> QED BY <1>1, <2>1, ClientTakes, Numbers
    <2> DEFINE R == [T EXCEPT !.e = val, !.f = Fresh("server", T), !.host_key = NullHostKey]
               h == GexHash("server", R, NullHostKey, R.e, R.f)
    <2>3. GssAnswer("server", SetKH(R, h))
      BY <1>3, <2>2 DEF ParseGssGexInit
    <2>4. DOMAIN R = Fields /\ \A f \in Fields \ {"e", "f", "host_key"} : R[f] = T[f]
      BY <1>1 DEF Fields
    <2> HIDE DEF R
    <2>5. h # NoHash /\ h[1] = T.remote_kex_init
      <3>1. R.remote_kex_init = T.remote_kex_init
        BY <2>4 DEF Fields
      <3>2. h # NoHash /\ h[1] = R.remote_kex_init
        BY HashBegins, Ends
      <3> QED BY <3>1, <3>2
    <2> HIDE DEF h
    <2>6. ServerHashed(h, SetKH(R, h))
      BY <1>1, <2>1, <2>2, <2>4, <2>5, ServerHash
    <2>7. /\ C.agreed.kex = V.agreed.kex /\ KEXGSS_CONTINUE \notin T.expected
          /\ V.agreed.kex = "gss_gex"
      BY <1>1, <2>1, <2>2, ServerTakes DEF V
    <2> QED BY <1>1, <2>1, <2>2, <2>3, <2>6, <2>7, ServerGss
  <1> QED BY <1>2, <1>3

\* The MIC is over the session id: it is that of this exchange only in the first one.
LEMMA GssGexCompleteStep ==
    ASSUME HandshakeInv, NEW s \in Side, ParseGssGexComplete(s)
    PROVE  HandshakeInv'
  <1>1. TakesKex(s, KEXGSS_COMPLETE, {"gss_gex"}) /\ KEXGSS_COMPLETE \in EngineTypes
    BY Numbers DEF ParseGssGexComplete
  <1>2. s = "client"
    <2> SUFFICES ASSUME s = "server" PROVE FALSE
      BY Ends
    <2> QED BY <1>1, ServerTakes, Numbers
  <1> DEFINE D == tr["client"]
             m == Read("client")
             key == IF D.host_key = NoKey THEN NullHostKey ELSE D.host_key
             T0 == [D EXCEPT !.f = m.val.f, !.host_key = key]
             h == GexHash("client", D, key, D.e, m.val.f)
             T == SetKH(T0, h)
             R == [T EXCEPT !.gss_kex_used = TRUE]
  <1>3. \/ Raises("client", "mic")
        \/ m.val.mic = T.H /\ Outbound("client", R, <<>>)
    BY <1>2 DEF ParseGssGexComplete, CheckMic
  <1>4. D.active /\ DOMAIN D = Fields /\ Phase("client") = 2 /\ C.made = V.made
    BY <1>1, <1>2, EngineRead, Parts, Ends DEF Shape, C, V
  <1>5. CASE Raises("client", "mic")
    BY <1>4, <1>5, RaisesStep, Ends
  <1>6. CASE m.val.mic = T.H /\ Outbound("client", R, <<>>)
    <2>1. C.agreed.kex = V.agreed.kex /\ Phase("server") = 3 /\ Miced(m)
      BY <1>1, <1>2, ClientTakes, Numbers DEF C
    <2>2. h # NoHash /\ h[1] = D.local_kex_init
      BY HashBegins, Ends
    <2> HIDE DEF h
    <2>3. DOMAIN T0 = Fields /\ (\A f \in Fields \ {"f", "host_key"} : T0[f] = D[f]) /\ T0.host_key = key
      BY <1>4 DEF Fields
    <2> HIDE DEF T0
    <2>4. /\ DOMAIN T = Fields /\ \A f \in Fields \ {"H", "session_id"} : T[f] = T0[f]
          /\ T.H = h
      BY <2>3, SetKHFacts
    <2> HIDE DEF T
    <2>5. /\ DOMAIN R = Fields /\ \A f \in Fields \ {"gss_kex_used"} : R[f] = T[f]
      BY <2>4 DEF Fields
    <2>6. Outbound("client", R, <<>>)
      BY <1>6
    <2> HIDE DEF R
    <2>7. \A f \in Fields \ (Work \cup {"gss_kex_used"}) : R[f] = D[f]
      BY <2>3, <2>4, <2>5 DEF Work
    <2>8. R.H = h /\ R.host_key = key
      BY <2>3, <2>4, <2>5 DEF Fields
    <2>9. h = V.session_id /\ (V.made = 1 => V.session_id = V.H)
      BY <1>6, <2>1, <2>4 DEF Miced
    <2>10. C.made = 1
      <3>1. V.session_id # NoHash /\ V.session_id[1].n = 1
        BY <2>1, Parts DEF FirstOK
      <3>2. D.local_kex_init # NoInit
        BY <1>4 DEF Phase
      <3>3. D.local_kex_init.n = C.made
        BY <3>2, Parts, Ends DEF LocalOK, C
      <3> QED BY <2>2, <2>9, <3>1, <3>3
    <2>11. key = NullHostKey
      <3>1. D.host_key = NoKey
        BY <1>4, <2>10, Parts DEF HostOK, C
      <3> QED BY <3>1
    <2> HIDE DEF key
    <2>12. R.H = V.H /\ R.host_key = NullHostKey
      BY <1>4, <2>8, <2>9, <2>10, <2>11
    <2> QED BY <1>1, <1>2, <2>1, <2>5, <2>6, <2>7, <2>12, OutboundStep, EmptyIsSeq, Ends
  <1> QED BY <1>3, <1>5, <1>6

LEMMA EngineStep ==
    ASSUME HandshakeInv, NEW s \in Side, Engine(s)
    PROVE  HandshakeInv'
  <1>1. CASE ParseGssContinue(s)
    <2>1. TakesKex(s, KEXGSS_CONTINUE, {"gss", "gss_gex"}) /\ Raises(s, "gss")
      BY <1>1 DEF ParseGssContinue
    <2>2. KEXGSS_CONTINUE \in EngineTypes
      BY Numbers
    <2>3. tr[s].active
      BY <2>1, <2>2, EngineRead
    <2> QED BY <2>1, <2>3, RaisesStep
  <1>2. CASE ParseGssComplete(s)
    <2>1. TakesKex(s, KEXGSS_COMPLETE, {"gss"})
      BY <1>2, Zenon DEF ParseGssComplete
    <2>2. \E why : Raises(s, why)
      BY <1>2, Zenon DEF ParseGssComplete
    <2>3. KEXGSS_COMPLETE \in EngineTypes
      BY Numbers
    <2>4. tr[s].active
      BY <2>1, <2>3, EngineRead
    <2> QED BY <2>2, <2>4, RaisesStep
  <1> QED BY <1>1, <1>2, KexdhInitStep, KexdhReplyStep, KexecdhInitStep, GroupRequestStep, GroupStep,
             GexInitStep, GexReplyStep, GssInitStep, GssGexCompleteStep DEF Engine

-----------------------------------------------------------------------------
(* The invariant, and what follows from it *)

LEMMA InitInv == Init => HandshakeInv
  <1> SUFFICES ASSUME Init PROVE HandshakeInv
    OBVIOUS
  <1>1. /\ setup \in Setups /\ tr = [s \in Side |-> NewTransport(s)]
        /\ wire = [s \in Side |-> <<>>] /\ app = [s \in Side |-> "idle"]
    BY DEF Init
  <1>2. \A s \in Side : tr[s] = NewTransport(s) /\ wire[s] = <<>> /\ app[s] = "idle"
    BY <1>1
  <1>3. \A s \in Side :
          /\ DOMAIN tr[s] = Fields /\ tr[s].stage = "new" /\ tr[s].active = FALSE /\ tr[s].expected = {}
          /\ tr[s].preferred_kex = setup.preferred[s]["kex"] /\ tr[s].made = 0
          /\ tr[s].local_kex_init = NoInit /\ tr[s].remote_kex_init = NoInit /\ tr[s].strict = FALSE
          /\ tr[s].H = NoHash /\ tr[s].session_id = NoHash /\ tr[s].host_key = NoKey
          /\ tr[s].gss_kex_used = FALSE /\ tr[s].seqno_out = 0 /\ tr[s].seqno_in = 0
          /\ tr[s].out_key = NoKeys /\ tr[s].in_key = NoKeys /\ tr[s].initial_kex_done = FALSE
    <2> TAKE s \in Side
    <2>1. tr[s] = NewTransport(s)
      BY <1>2
    <2> QED BY <2>1 DEF NewTransport, Fields
  <1>4. \A s \in Side : Phase(s) = 0
    BY <1>3 DEF Phase
  <1>5. \A s \in Side : IsSeq(wire[s]) /\ DOMAIN wire[s] = {}
    BY <1>2, EmptyIsSeq
  <1>6. \A s \in Side : tr[s].preferred_kex \in Seq(STRING)
    BY <1>1, <1>3, SetupFacts DEF Category
  <1>7. Shape
    <2>1. tr = [s \in Side |-> tr[s]] /\ wire = [s \in Side |-> wire[s]] /\ app = [s \in Side |-> app[s]]
      BY <1>1
    <2>2. \A s \in Side : tr[s].made \in Nat /\ tr[s].seqno_in \in Nat /\ tr[s].seqno_out \in Nat
      BY <1>3
    <2>3. \A s \in Side : DOMAIN tr[s] = Fields /\ tr[s].strict \in BOOLEAN
      BY <1>3
    <2> QED BY <1>1, <1>5, <1>6, <2>1, <2>2, <2>3, Zenon DEF Shape
  <1>8. PhasesOK
    BY <1>3, <1>4, Ends DEF PhasesOK, SamePairs, C, V
  <1>9. ASSUME NEW s \in Side
        PROVE  EndOK(s) /\ WireOK(s)
    <2>1. StageOK(s)
      BY <1>2, <1>3, <1>4 DEF StageOK
    <2>2. ExpectedOK(s)
      BY <1>3, <1>4, Ends DEF ExpectedOK
    <2>3. LocalOK(s)
      BY <1>3 DEF LocalOK
    <2>4. AgreedOK(s)
      BY <1>3, <1>4 DEF AgreedOK
    <2>5. InitWire(s) /\ NewkeysWire(s) /\ ClosedWire(s)
      BY <1>5 DEF InitWire, NewkeysWire, ClosedWire, Once
    <2>6. KeyOK(s)
      BY <1>3, Ends DEF KeyOK
    <2>7. StreamOK(s)
      BY <1>3 DEF StreamOK
    <2>8. BannerOK(s)
      BY <1>2, <1>5 DEF BannerOK, Banner
    <2> QED BY <2>1, <2>2, <2>3, <2>4, <2>5, <2>6, <2>7, <2>8 DEF EndOK, WireOK
  <1>10. KexOK /\ HashOK
    BY <1>3, <1>4, Ends DEF KexOK, HashOK
  <1>11. OneEngine /\ EngineToServer /\ EngineToClient
    BY <1>5, Ends DEF OneEngine, EngineToServer, EngineToClient
  <1>12. OutOK /\ HostOK
    BY <1>3, <1>4, Ends DEF OutOK, HostOK, C
  <1>13. FirstOK
    BY <1>3, <1>4, Ends DEF FirstOK, C, V
  <1> QED BY <1>7, <1>8, <1>9, <1>10, <1>11, <1>12, <1>13 DEF HandshakeInv

LEMMA ThreadStep ==
    ASSUME HandshakeInv, NEW s \in Side, Thread(s)
    PROVE  HandshakeInv'
  <1>1. CASE CheckBanner(s)
    <2>1. tr[s].active /\ tr[s].stage = "banner" /\ wire[s] # <<>>
      BY <1>1 DEF CheckBanner, Running
    <2>2. \/ Read(s).type = VERSION /\ BannerRead(s)
          \/ Raises(s, "incompatible") \/ Raises(s, "banner")
          \/ Leaves(s, [tr[s] EXCEPT !.lines = @ + 1], <<>>)
      BY <1>1 DEF CheckBanner
    <2> QED BY <2>1, <2>2, BannerReadStep, RaisesStep, LineStep
  <1>2. CASE ReadClosed(s)
    <2>1. tr[s].active /\ Raises(s, "eof")
      BY <1>2 DEF ReadClosed, Running
    <2> QED BY <2>1, RaisesStep
  <1>3. CASE ReadUnexpected(s)
    <2>1. tr[s].active /\ Raises(s, "unexpected")
      BY <1>3 DEF ReadUnexpected, Running
    <2> QED BY <2>1, RaisesStep
  <1> QED BY <1>1, <1>2, <1>3, NegotiateStep, EngineStep, NewkeysStep, ExtInfoStep DEF Thread

LEMMA NextInv == HandshakeInv /\ [Next]_vars => HandshakeInv'
  <1> SUFFICES ASSUME HandshakeInv, [Next]_vars PROVE HandshakeInv'
    OBVIOUS
  <1>1. CASE start_client \/ start_server
    BY <1>1, StartStep, Ends DEF start_client, start_server
  <1>2. CASE StartGivesUp \/ CheckHostKey
    BY <1>2, AppSteps
  <1>3. ASSUME NEW s \in Side, Timers(s)
        PROVE  HandshakeInv'
    <2>1. tr[s].active /\ Raises(s, "timeout")
      BY <1>3 DEF Timers, BannerTimeout, HandshakeTimeout, Running
    <2> QED BY <2>1, RaisesStep
  <1>4. ASSUME NEW s \in Side, Thread(s) \/ Waiter(s) \/ Renegotiate(s) \/ Stall(s)
        PROVE  HandshakeInv'
    BY <1>4, ThreadStep, AppSteps, RenegotiateStep, StallStep
  <1>5. CASE UNCHANGED vars
    BY <1>5, AppSteps
  <1> QED BY <1>1, <1>2, <1>3, <1>4, <1>5 DEF Next

LEMMA InvInStep == HandshakeInv => InStep
  <1> SUFFICES ASSUME HandshakeInv, NEW s \in Side, tr[s].stage = "loop", wire[s] # <<>>
               PROVE  Readable(tr[s], Read(s))
    BY DEF InStep
  <1> DEFINE q == wire[s]
             m == q[1]
             nin == tr[s].seqno_in
             in == tr[s].in_key
             out == tr[Peer(s)].out_key
  <1>1. IsSeq(q) /\ nin \in Nat
    BY Parts DEF Shape
  <1>2. Read(s) = m /\ 1 \in DOMAIN q
    <2>1. Head(q) = q[1] /\ 1 \in DOMAIN q
      BY <1>1, TailFacts
    <2> QED BY <2>1 DEF Read
  <1>3. m.type # CLOSED => Fits(q, in, nin, out, Strict, 1, m.key, m.seq)
    <2>1. StreamOK(s)
      BY Parts
    <2> QED BY <1>2, <2>1 DEF StreamOK, Stream
  <1> HIDE DEF q, m, nin, in, out
  <1>4. Fits(q, in, nin, out, Strict, 1, m.key, m.seq) => m.key = in /\ m.seq = nin
    BY <1>1 DEF Fits
  <1> QED BY <1>2, <1>3, <1>4 DEF Readable, nin, in

LEMMA InvKeysProven == HandshakeInv => KeysProven
  <1> SUFFICES ASSUME HandshakeInv, C.out_key # NoKeys
               PROVE  /\ C.out_key[1] \in {V.H, V.out_key[1], V.in_key[1]}
                      /\ IF C.gss_kex_used THEN C.host_key = NullHostKey
                         ELSE C.host_key \in setup.server_keys \cup {NullHostKey}
    BY DEF KeysProven, C, V
  <1>1. HashOK /\ OutOK /\ HostOK /\ KeyOK("server")
    BY Parts, Ends
  <1>2. C.out_key = <<C.H, Algs>>
    BY <1>1 DEF OutOK
  <1>3. C.out_key[1] = C.H
    BY <1>2
  <1>4. CASE Behind("server")
    <2>1. Phase("client") = 3 \/ (Phase("server") = 3 /\ Phase("client") # 2)
      BY <1>4, Ends DEF Behind
    <2>2. C.H = V.H
      BY <1>1, <2>1 DEF HashOK
    <2> QED BY <1>1, <1>3, <2>2 DEF HostOK
  <1>5. CASE ~Behind("server")
    <2>1. V.in_key = C.out_key
      BY <1>1, <1>5, Ends DEF KeyOK, C, V
    <2> QED BY <1>1, <2>1 DEF HostOK
  <1> QED BY <1>4, <1>5

LEMMA HandshakeAlways == Spec => []HandshakeInv
  <1>1. Init /\ [][Next]_vars => []HandshakeInv
    BY InitInv, NextInv, PTL
  <1> QED BY <1>1, PTL DEF Spec

\* Through every switch of keys, with whatever algorithms the two ends are set up
\* and however often they exchange keys, strict or not, an end that reads a packet
\* has the keys, the algorithms and the sequence number it was written with
\* (_activate_outbound, _activate_inbound, reset_seqno_out, reset_seqno_in).
THEOREM InStepTheorem == Spec => []InStep
  BY HandshakeAlways, InvInStep, PTL

\* Whatever engine they run, and whether or not the server has moduli, keys, or the
\* engine of the client: a client that writes with new keys has them from a server
\* that has hashed the same exchange and signed it with a key of its own, or made
\* the MIC of the security context (_verify_key, ssh_check_mic, _activate_outbound).
THEOREM KeysProvenTheorem == Spec => []KeysProven
  BY HandshakeAlways, InvKeysProven, PTL
=============================================================================
