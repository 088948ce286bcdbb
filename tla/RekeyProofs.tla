---------------------------- MODULE RekeyProofs ----------------------------
(***************************************************************************)
(* The proofs that RekeyInv is an inductive invariant, and that careful    *)
(* sessions are quiet during key exchange (QuietKept) and have switched to *)
(* their own keys when renegotiate_keys returns (KeysSwitched).            *)
(*                                                                         *)
(* There is one lemma for each action, ...Keeps.  An action of a transport *)
(* thread changes one end: Together says that the other end, the callers   *)
(* and hence the invariant are kept when the parts about this end are.     *)
(* What is left is the part about both ends (Rounds): Plain and Busy       *)
(* describe the many steps that do not disturb it, and only the steps that *)
(* make, send or read KEXINIT and NEWKEYS have an argument of their own.   *)
(***************************************************************************)
EXTENDS RekeyInvariant, FiniteSetTheorems, SequenceTheorems, TLAPS
-----------------------------------------------------------------------------
(* What a process has still to do *)

\* The elements of short sequences.
LEMMA RangeIs ==
    /\ Range(<<>>) = {}
    /\ \A a : Range(<<a>>) = {a}
    /\ \A a, b : Range(<<a, b>>) = {a, b}
    /\ \A a, b, c : Range(<<a, b, c>>) = {a, b, c}
    /\ \A a, b, c, d : Range(<<a, b, c, d>>) = {a, b, c, d}
    /\ \A a, b, c, d, e : Range(<<a, b, c, d, e>>) = {a, b, c, d, e}
BY DEF Range

\* Their first elements, and what follows.
LEMMA TailIs ==
    /\ \A a : Head(<<a>>) = a /\ Tail(<<a>>) = <<>>
    /\ \A a, b : Head(<<a, b>>) = a /\ Tail(<<a, b>>) = <<b>>
    /\ \A a, b, c : Head(<<a, b, c>>) = a /\ Tail(<<a, b, c>>) = <<b, c>>
    /\ \A a, b, c, d : Head(<<a, b, c, d>>) = a /\ Tail(<<a, b, c, d>>) = <<b, c, d>>
    /\ \A a, b, c, d, e :
          Head(<<a, b, c, d, e>>) = a /\ Tail(<<a, b, c, d, e>>) = <<b, c, d, e>>
OBVIOUS

\* What has been done is no longer ahead.
LEMMA RangeTail ==
    /\ \A a : Range(Tail(<<a>>)) = Range(<<a>>) \ {a}
    /\ \A a, b : a # b => Range(Tail(<<a, b>>)) = Range(<<a, b>>) \ {a}
    /\ \A a, b, c : a \notin {b, c} => Range(Tail(<<a, b, c>>)) = Range(<<a, b, c>>) \ {a}
    /\ \A a, b, c, d :
          a \notin {b, c, d} => Range(Tail(<<a, b, c, d>>)) = Range(<<a, b, c, d>>) \ {a}
    /\ \A a, b, c, d, e :
          a \notin {b, c, d, e}
            => Range(Tail(<<a, b, c, d, e>>)) = Range(<<a, b, c, d, e>>) \ {a}
<1>1. ASSUME NEW a
      PROVE  Range(Tail(<<a>>)) = Range(<<a>>) \ {a}
  <2>1. Range(<<a>>) = {a}
    BY RangeIs
  <2>2. Range(<<>>) = {}
    BY RangeIs
  <2> QED
    BY <1>1, <2>1, <2>2, TailIs
<1>2. ASSUME NEW a, NEW b, a # b
      PROVE  Range(Tail(<<a, b>>)) = Range(<<a, b>>) \ {a}
  <2>1. Range(<<a, b>>) = {a, b}
    BY RangeIs
  <2>2. Range(<<b>>) = {b}
    BY RangeIs
  <2> QED
    BY <1>2, <2>1, <2>2, TailIs
<1>3. ASSUME NEW a, NEW b, NEW c, a \notin {b, c}
      PROVE  Range(Tail(<<a, b, c>>)) = Range(<<a, b, c>>) \ {a}
  <2>1. Range(<<a, b, c>>) = {a, b, c}
    BY RangeIs
  <2>2. Range(<<b, c>>) = {b, c}
    BY RangeIs
  <2> QED
    BY <1>3, <2>1, <2>2, TailIs
<1>4. ASSUME NEW a, NEW b, NEW c, NEW d, a \notin {b, c, d}
      PROVE  Range(Tail(<<a, b, c, d>>)) = Range(<<a, b, c, d>>) \ {a}
  <2>1. Range(<<a, b, c, d>>) = {a, b, c, d}
    BY RangeIs
  <2>2. Range(<<b, c, d>>) = {b, c, d}
    BY RangeIs
  <2> QED
    BY <1>4, <2>1, <2>2, TailIs
<1>5. ASSUME NEW a, NEW b, NEW c, NEW d, NEW e, a \notin {b, c, d, e}
      PROVE  Range(Tail(<<a, b, c, d, e>>)) = Range(<<a, b, c, d, e>>) \ {a}
  <2>1. Range(<<a, b, c, d, e>>) = {a, b, c, d, e}
    BY RangeIs
  <2>2. Range(<<b, c, d, e>>) = {b, c, d, e}
    BY RangeIs
  <2> QED
    BY <1>5, <2>1, <2>2, TailIs
<1> QED
  BY <1>1, <1>2, <1>3, <1>4, <1>5

\* One step of a process: what was first is no longer ahead.
Steps(q) == Head(q) \in Range(q) /\ Range(Tail(q)) = Range(q) \ {Head(q)}

\* Of _send_kex_init and what follows it.
LEMMA KexInitSteps ==
    ASSUME NEW op, op \notin {"clear", "mark", "kexinit"}, NEW q \in KexInitThen(op)
    PROVE  Steps(q) /\ Tail(q) \in KexInitThen(op) \cup {<<>>}
<1>1. CASE q = <<"clear", "mark", "kexinit", op>>
  <2>1. Steps(q)
    BY <1>1, TailIs, RangeIs, RangeTail DEF Steps
  <2> QED
    BY <2>1, <1>1, TailIs DEF KexInitThen
<1>2. CASE q = <<"mark", "kexinit", op>>
  <2>1. Steps(q)
    BY <1>2, TailIs, RangeIs, RangeTail DEF Steps
  <2> QED
    BY <2>1, <1>2, TailIs DEF KexInitThen
<1>3. CASE q = <<"kexinit", op>>
  <2>1. Steps(q)
    BY <1>3, TailIs, RangeIs, RangeTail DEF Steps
  <2> QED
    BY <2>1, <1>3, TailIs DEF KexInitThen
<1>4. CASE q = <<op>>
  <2>1. Steps(q)
    BY <1>4, TailIs, RangeIs, RangeTail DEF Steps
  <2> QED
    BY <2>1, <1>4, TailIs
<1> QED
  BY <1>1, <1>2, <1>3, <1>4 DEF KexInitThen

\* Of an end that switches keys.
LEMMA SwitchingSteps ==
    ASSUME NEW q \in SwitchingTodo
    PROVE  Steps(q) /\ Tail(q) \in SwitchingTodo \cup {<<>>}
<1>1. CASE q = <<"kexreply", "newkeys", "activate", "ext_info", "expect_newkeys">>
  <2>1. Steps(q)
    BY <1>1, TailIs, RangeIs, RangeTail DEF Steps
  <2>2. Tail(q) = <<"newkeys", "activate", "ext_info", "expect_newkeys">>
    BY <1>1, TailIs
  <2> QED
    BY <2>1, <2>2 DEF SwitchingTodo
<1>2. CASE q = <<"newkeys", "activate", "ext_info", "expect_newkeys">>
  <2>1. Steps(q)
    BY <1>2, TailIs, RangeIs, RangeTail DEF Steps
  <2>2. Tail(q) = <<"activate", "ext_info", "expect_newkeys">>
    BY <1>2, TailIs
  <2> QED
    BY <2>1, <2>2 DEF SwitchingTodo
<1>3. CASE q = <<"activate", "ext_info", "expect_newkeys">>
  <2>1. Steps(q)
    BY <1>3, TailIs, RangeIs, RangeTail DEF Steps
  <2>2. Tail(q) = <<"ext_info", "expect_newkeys">>
    BY <1>3, TailIs
  <2> QED
    BY <2>1, <2>2 DEF SwitchingTodo
<1>4. CASE q = <<"ext_info", "expect_newkeys">>
  <2>1. Steps(q)
    BY <1>4, TailIs, RangeIs, RangeTail DEF Steps
  <2>2. Tail(q) = <<"expect_newkeys">>
    BY <1>4, TailIs
  <2> QED
    BY <2>1, <2>2 DEF SwitchingTodo
<1>5. CASE q = <<"newkeys", "activate", "expect_newkeys">>
  <2>1. Steps(q)
    BY <1>5, TailIs, RangeIs, RangeTail DEF Steps
  <2>2. Tail(q) = <<"activate", "expect_newkeys">>
    BY <1>5, TailIs
  <2> QED
    BY <2>1, <2>2 DEF SwitchingTodo
<1>6. CASE q = <<"activate", "expect_newkeys">>
  <2>1. Steps(q)
    BY <1>6, TailIs, RangeIs, RangeTail DEF Steps
  <2>2. Tail(q) = <<"expect_newkeys">>
    BY <1>6, TailIs
  <2> QED
    BY <2>1, <2>2 DEF SwitchingTodo
<1>7. CASE q = <<"expect_newkeys">>
  <2>1. Steps(q)
    BY <1>7, TailIs, RangeIs, RangeTail DEF Steps
  <2>2. Tail(q) = <<>>
    BY <1>7, TailIs
  <2> QED
    BY <2>1, <2>2 DEF SwitchingTodo
<1> QED
  BY <1>1, <1>2, <1>3, <1>4, <1>5, <1>6, <1>7 DEF SwitchingTodo

\* Of a transport thread.
LEMMA SideSteps ==
    ASSUME NEW q \in SideTodo, q # <<>>
    PROVE  Steps(q) /\ Tail(q) \in SideTodo
<1>1. CASE q \in KexInitThen("expect_kexinit")
  BY <1>1, KexInitSteps DEF SideTodo, OpeningTodo
<1>2. CASE q \in KexInitThen("read")
  BY <1>2, KexInitSteps DEF SideTodo, OpeningTodo
<1>3. CASE q \in KexInitThen("start_kex")
  BY <1>3, KexInitSteps DEF SideTodo, OpeningTodo
<1>4. CASE q = <<"clear", "negotiate", "start_kex">>
  <2>1. Steps(q)
    BY <1>4, TailIs, RangeIs, RangeTail DEF Steps
  <2> QED
    BY <2>1, <1>4, TailIs DEF SideTodo, OpeningTodo
<1>5. CASE q = <<"negotiate", "start_kex">>
  <2>1. Steps(q)
    BY <1>5, TailIs, RangeIs, RangeTail DEF Steps
  <2> QED
    BY <2>1, <1>5, TailIs DEF SideTodo, OpeningTodo, KexInitThen
<1>6. CASE q \in SwitchingTodo
  BY <1>6, SwitchingSteps DEF SideTodo
<1>7. CASE q \in AnsweringTodo
  <2>1. PICK op : q = <<op>>
    BY <1>7 DEF AnsweringTodo
  <2>2. Steps(q)
    BY <2>1, TailIs, RangeIs, RangeTail DEF Steps
  <2> QED
    BY <2>1, <2>2, TailIs DEF SideTodo
<1>8. CASE q = <<"leave_kex", "reopen">>
  <2>1. Steps(q)
    BY <1>8, TailIs, RangeIs, RangeTail DEF Steps
  <2> QED
    BY <2>1, <1>8, TailIs DEF SideTodo, SettlingTodo
<1>9. CASE q = <<"reopen">>
  <2>1. Steps(q)
    BY <1>9, TailIs, RangeIs, RangeTail DEF Steps
  <2> QED
    BY <2>1, <1>9, TailIs DEF SideTodo
<1> QED
  BY <1>1, <1>2, <1>3, <1>4, <1>5, <1>6, <1>7, <1>8, <1>9
  DEF SideTodo, OpeningTodo, SettlingTodo

\* Of a caller of renegotiate_keys.
LEMMA CallerSteps ==
    ASSUME NEW q \in CallerTodo, q # <<>>
    PROVE  Steps(q) /\ Tail(q) \in CallerTodo
BY KexInitSteps DEF CallerTodo

\* Operations that come together.
LEMMA SideTogether ==
    ASSUME NEW q \in SideTodo
    PROVE  /\ Range(q) \cap {"ext_info", "newkeys", "activate", "kexreply"} # {}
                => "expect_newkeys" \in Range(q)
           /\ "expect_newkeys" \in Range(q) =>
                Range(q) \cap {"kexinit", "mark", "negotiate", "start_kex", "clear", "read",
                               "request_success"} = {}
           /\ "mark" \in Range(q) => "kexinit" \in Range(q)
           /\ "negotiate" \in Range(q) => "kexinit" \notin Range(q)
           /\ "reopen" \in Range(q) =>
                Range(q) \subseteq {"leave_kex", "reopen"} /\ Head(q) \in {"leave_kex", "reopen"}
<1>1. CASE q \in OpeningTodo
  BY <1>1, RangeIs DEF OpeningTodo, KexInitThen
<1>2. CASE q \in SwitchingTodo
  BY <1>2, RangeIs DEF SwitchingTodo
<1>3. CASE q \in AnsweringTodo
  BY <1>3, RangeIs DEF AnsweringTodo
<1>4. CASE q \in SettlingTodo
  BY <1>4, RangeIs, TailIs DEF SettlingTodo
<1> QED
  BY <1>1, <1>2, <1>3, <1>4, RangeIs DEF SideTodo

\* Steps that are the last ones of a procedure.
LEMMA LastSteps ==
    ASSUME NEW q \in SideTodo, q # <<>>,
           Head(q) \in {"read", "start_kex", "expect_kexinit", "expect_newkeys",
                        "unimplemented", "channel_success", "request_success", "reopen"}
    PROVE  Range(q) = {Head(q)} /\ Tail(q) = <<>>
<1>1. q = <<Head(q)>>
  BY TailIs DEF SideTodo, OpeningTodo, SwitchingTodo, SettlingTodo, AnsweringTodo, KexInitThen
<1> QED
  BY <1>1, RangeIs, TailIs

\* Steps of _send_kex_init, in a transport thread ...
LEMMA SideKexInit ==
    ASSUME NEW q \in SideTodo, q # <<>>
    PROVE  /\ Head(q) = "mark" => "kexinit" \in Range(q) /\ "clear" \notin Range(q)
           /\ Head(q) = "kexinit" =>
                /\ Range(q) \cap {"clear", "mark", "negotiate"} = {}
                /\ "read" \notin Range(q) => Range(q) \cap {"expect_kexinit", "start_kex"} # {}
           /\ Head(q) = "negotiate" => q = <<"negotiate", "start_kex">>
           /\ Head(q) = "leave_kex" => q = <<"leave_kex", "reopen">>
<1>1. ASSUME Head(q) = "mark"
      PROVE  "kexinit" \in Range(q) /\ "clear" \notin Range(q)
  <2>1. PICK op \in {"expect_kexinit", "read", "start_kex"} : q = <<"mark", "kexinit", op>>
    BY <1>1, TailIs DEF SideTodo, OpeningTodo, SwitchingTodo, SettlingTodo, AnsweringTodo, KexInitThen
  <2> QED
    BY <2>1, RangeIs
<1>2. ASSUME Head(q) = "kexinit"
      PROVE  /\ Range(q) \cap {"clear", "mark", "negotiate"} = {}
             /\ "read" \notin Range(q) => Range(q) \cap {"expect_kexinit", "start_kex"} # {}
  <2>1. PICK op \in {"expect_kexinit", "read", "start_kex"} : q = <<"kexinit", op>>
    BY <1>2, TailIs DEF SideTodo, OpeningTodo, SwitchingTodo, SettlingTodo, AnsweringTodo, KexInitThen
  <2> QED
    BY <2>1, RangeIs
<1>3. ASSUME Head(q) = "negotiate"
      PROVE  q = <<"negotiate", "start_kex">>
  BY <1>3, TailIs DEF SideTodo, OpeningTodo, SwitchingTodo, SettlingTodo, AnsweringTodo, KexInitThen
<1>4. ASSUME Head(q) = "leave_kex"
      PROVE  q = <<"leave_kex", "reopen">>
  BY <1>4, TailIs DEF SideTodo, OpeningTodo, SwitchingTodo, SettlingTodo, AnsweringTodo, KexInitThen
<1> QED
  BY <1>1, <1>2, <1>3, <1>4

\* ... and in a caller.
LEMMA CallerKexInit ==
    ASSUME NEW q \in CallerTodo, q # <<>>
    PROVE  /\ Head(q) = "mark" => "kexinit" \in Range(q) /\ "clear" \notin Range(q)
           /\ Head(q) = "kexinit" => "mark" \notin Range(q) /\ Tail(q) = <<"await">>
           /\ "mark" \in Range(q) => "kexinit" \in Range(q)
           /\ Head(q) = "await" => q = <<"await">>
           /\ Head(q) \in {"clear", "mark", "kexinit", "await"}
           /\ "await" \in Range(q)
           /\ "kexinit" \notin Range(q) => q = <<"await">>
<1>1. CASE q = <<"clear", "mark", "kexinit", "await">>
  BY <1>1, TailIs, RangeIs
<1>2. CASE q = <<"mark", "kexinit", "await">>
  BY <1>2, TailIs, RangeIs
<1>3. CASE q = <<"kexinit", "await">>
  BY <1>3, TailIs, RangeIs
<1>4. CASE q = <<"await">>
  BY <1>4, TailIs, RangeIs
<1> QED
  BY <1>1, <1>2, <1>3, <1>4 DEF CallerTodo, KexInitThen

\* Steps of an end that switches keys.
LEMMA SideSwitching ==
    ASSUME NEW q \in SideTodo, q # <<>>
    PROVE  /\ Head(q) = "kexreply" => {"newkeys", "activate", "expect_newkeys"} \subseteq Range(q)
           /\ Head(q) = "newkeys" => {"activate", "expect_newkeys"} \subseteq Range(q)
           /\ Head(q) = "activate" => "newkeys" \notin Range(q) /\ "expect_newkeys" \in Range(q)
           /\ Head(q) = "ext_info" => Range(q) = {"ext_info", "expect_newkeys"}
<1>1. CASE q \in SwitchingTodo
  BY <1>1, TailIs, RangeIs DEF SwitchingTodo
<1>2. CASE q \notin SwitchingTodo
  <2>1. Head(q) \notin {"kexreply", "newkeys", "activate", "ext_info"}
    BY <1>2, TailIs DEF SideTodo, OpeningTodo, SettlingTodo, AnsweringTodo, KexInitThen
  <2> QED
    BY <2>1
<1> QED
  BY <1>1, <1>2
-----------------------------------------------------------------------------
(* Packets on a wire *)

\* A packet is appended ...
LEMMA Appended ==
    ASSUME NEW w \in Seq(Packet), NEW m \in Packet
    PROVE  /\ Append(w, m) \in Seq(Packet)
           /\ \A ty : Has(Append(w, m), ty) => Has(w, ty) \/ m.type = ty
           /\ Open(Append(w, m)) => m.type = "kexinit" \/ (Open(w) /\ m.type # "newkeys")
           /\ OneKexInit(w) /\ (m.type # "kexinit" \/ ~Has(w, "kexinit"))
                => OneKexInit(Append(w, m))
           /\ Quiet(w) /\ (m.type \notin Payload \/ ~Open(w)) => Quiet(Append(w, m))
           /\ Numbers(w) /\ (m.type = "kexinit" => m.val[1] # 0) => Numbers(Append(w, m))
<1> DEFINE v == Append(w, m)
           n == Len(w)
<1>1. /\ v \in Seq(Packet) /\ n \in Nat /\ DOMAIN w = 1 .. n /\ DOMAIN v = 1 .. n + 1
      /\ \A i \in 1 .. n : v[i] = w[i]
      /\ v[n + 1] = m
  OBVIOUS
<1> HIDE DEF v, n
<1>2. \A ty : Has(v, ty) => Has(w, ty) \/ m.type = ty
  BY <1>1 DEF Has
<1>3. Open(v) => m.type = "kexinit" \/ (Open(w) /\ m.type # "newkeys")
  <2>1. SUFFICES ASSUME Open(v), m.type # "kexinit"
                 PROVE  Open(w) /\ m.type # "newkeys"
    OBVIOUS
  <2>2. PICK i \in DOMAIN v : /\ v[i].type = "kexinit"
                              /\ \A k \in DOMAIN v : k > i => v[k].type # "newkeys"
    BY <2>1 DEF Open
  <2>3. i \in 1 .. n
    BY <1>1, <2>1, <2>2
  <2> QED
    BY <1>1, <2>2, <2>3 DEF Open
<1>4. OneKexInit(w) /\ (m.type # "kexinit" \/ ~Has(w, "kexinit")) => OneKexInit(v)
  BY <1>1 DEF OneKexInit, Has
<1>5. ASSUME Quiet(w), m.type \notin Payload \/ ~Open(w)
      PROVE  Quiet(v)
  <2>1. SUFFICES ASSUME NEW i \in DOMAIN v, NEW j \in DOMAIN v, i < j,
                        v[i].type = "kexinit", v[j].type \in Payload
                 PROVE  \E k \in i .. j : v[k].type = "newkeys"
    BY DEF Quiet
  <2>2. CASE j \in 1 .. n
    <3>1. \E k \in i .. j : w[k].type = "newkeys"
      BY <1>1, <1>5, <2>1, <2>2 DEF Quiet
    <3> QED
      BY <3>1, <1>1, <2>1, <2>2
  <2>3. CASE j = n + 1
    <3>1. i \in 1 .. n /\ ~Open(w)
      BY <1>1, <1>5, <2>1, <2>3
    <3>2. PICK k \in DOMAIN w : k > i /\ w[k].type = "newkeys"
      BY <1>1, <2>1, <3>1 DEF Open
    <3> QED
      BY <3>1, <3>2, <1>1, <2>3
  <2> QED
    BY <1>1, <2>1, <2>2, <2>3
<1>6. Numbers(w) /\ (m.type = "kexinit" => m.val[1] # 0) => Numbers(v)
  BY <1>1 DEF Numbers
<1> QED
  BY <1>1, <1>2, <1>3, <1>4, <1>5, <1>6 DEF v

\* ... and read.
LEMMA Taken ==
    ASSUME NEW w \in Seq(Packet), w # <<>>
    PROVE  /\ Tail(w) \in Seq(Packet)
           /\ Head(w) \in Packet
           /\ Has(w, Head(w).type)
           /\ \A ty : Has(Tail(w), ty) => Has(w, ty)
           /\ Open(Tail(w)) => Open(w)
           /\ OneKexInit(w) => OneKexInit(Tail(w))
           /\ OneKexInit(w) /\ Head(w).type = "kexinit" => ~Has(Tail(w), "kexinit")
           /\ Quiet(w) => Quiet(Tail(w))
           /\ Numbers(w) => Numbers(Tail(w))
           /\ Numbers(w) /\ Head(w).type = "kexinit" => Head(w).val[1] # 0
<1> DEFINE v == Tail(w)
           n == Len(w)
           h == Head(w)
<1>1. /\ v \in Seq(Packet) /\ n \in Nat \ {0} /\ DOMAIN w = 1 .. n /\ DOMAIN v = 1 .. n - 1
      /\ \A i \in 1 .. n - 1 : v[i] = w[i + 1]
      /\ h = w[1] /\ h \in Packet
  OBVIOUS
<1> HIDE DEF v, n, h
<1>2. Has(w, h.type)
  BY <1>1 DEF Has
<1>8. ASSUME NEW ty, Has(v, ty)
      PROVE  Has(w, ty)
  <2>1. PICK i \in DOMAIN v : v[i].type = ty
    BY <1>8 DEF Has
  <2>2. i + 1 \in DOMAIN w /\ w[i + 1].type = ty
    BY <1>1, <2>1
  <2> QED
    BY <2>2 DEF Has
<1>3. ASSUME Open(v)
      PROVE  Open(w)
  <2>1. PICK i \in DOMAIN v : /\ v[i].type = "kexinit"
                              /\ \A k \in DOMAIN v : k > i => v[k].type # "newkeys"
    BY <1>3 DEF Open
  <2>2. i + 1 \in DOMAIN w /\ w[i + 1].type = "kexinit"
    BY <1>1, <2>1
  <2>3. ASSUME NEW k \in DOMAIN w, k > i + 1
        PROVE  w[k].type # "newkeys"
    <3>1. k - 1 \in DOMAIN v /\ k - 1 > i /\ v[k - 1] = w[k - 1 + 1] /\ k - 1 + 1 = k
      BY <1>1, <2>1, <2>3
    <3> QED
      BY <3>1, <2>1
  <2> QED
    BY <2>2, <2>3 DEF Open
<1>4. ASSUME OneKexInit(w)
      PROVE  OneKexInit(v)
  <2>1. SUFFICES ASSUME NEW i \in DOMAIN v, NEW j \in DOMAIN v,
                        v[i].type = "kexinit", v[j].type = "kexinit"
                 PROVE  i = j
    BY DEF OneKexInit
  <2>2. /\ i + 1 \in DOMAIN w /\ j + 1 \in DOMAIN w
        /\ w[i + 1].type = "kexinit" /\ w[j + 1].type = "kexinit"
    BY <1>1, <2>1
  <2>3. i + 1 = j + 1
    BY <2>2, <1>4 DEF OneKexInit
  <2> QED
    BY <1>1, <2>3
<1>5. OneKexInit(w) /\ h.type = "kexinit" => ~Has(v, "kexinit")
  BY <1>1 DEF OneKexInit, Has
<1>6. ASSUME Quiet(w)
      PROVE  Quiet(v)
  <2>1. SUFFICES ASSUME NEW i \in DOMAIN v, NEW j \in DOMAIN v, i < j,
                        v[i].type = "kexinit", v[j].type \in Payload
                 PROVE  \E k \in i .. j : v[k].type = "newkeys"
    BY DEF Quiet
  <2>2. PICK k \in i + 1 .. j + 1 : w[k].type = "newkeys"
    <3>1. /\ i + 1 \in DOMAIN w /\ j + 1 \in DOMAIN w /\ i + 1 < j + 1
          /\ w[i + 1].type = "kexinit" /\ w[j + 1].type \in Payload
      BY <1>1, <2>1
    <3> QED
      BY <3>1, <1>6 DEF Quiet
  <2>3. k - 1 \in i .. j /\ v[k - 1] = w[k - 1 + 1] /\ k - 1 + 1 = k
    BY <1>1, <2>1, <2>2
  <2> QED
    BY <2>2, <2>3
<1>7. Numbers(w) => Numbers(v) /\ (h.type = "kexinit" => h.val[1] # 0)
  BY <1>1 DEF Numbers
<1> QED
  BY <1>1, <1>2, <1>3, <1>4, <1>5, <1>6, <1>7, <1>8 DEF v, h

\* A wire without a KEXINIT has none that is not followed by NEWKEYS.
LEMMA OpenHas ==
    ASSUME NEW w, Open(w)
    PROVE  Has(w, "kexinit")
BY DEF Open, Has
-----------------------------------------------------------------------------
(* Ends, threads, and what one step does *)

\* There are two ends, and every thread belongs to one of them.
LEMMA Ends ==
    /\ \A s \in Side : /\ Peer(s) \in Side /\ Peer(s) # s /\ Peer(Peer(s)) = s
                       /\ At(s) = s /\ s \in Procs /\ s \notin Threads
                       /\ \A u \in Side : u = s \/ u = Peer(s)
    /\ \A t \in Threads : At(t) = Home[t] /\ Home[t] \in Side /\ t \in Procs /\ t \notin Side
    /\ \A p \in Procs : At(p) \in Side /\ (p \in Side \/ p \in Threads)
<1>1. \A s \in Side : /\ Peer(s) \in Side /\ Peer(s) # s /\ Peer(Peer(s)) = s
                      /\ At(s) = s /\ s \in Procs /\ s \notin Threads
                      /\ \A u \in Side : u = s \/ u = Peer(s)
  BY RekeyAssumption DEF Side, Peer, At, Procs
<1>2. \A t \in Threads : At(t) = Home[t] /\ Home[t] \in Side /\ t \in Procs /\ t \notin Side
  BY RekeyAssumption DEF At, Procs
<1> QED
  BY <1>1, <1>2 DEF Procs

\* In a careful session one thread at most calls renegotiate_keys, and then
\* no limit is reached and nobody sends requests.
LEMMA OnlyCaller ==
    ASSUME Careful, scenario \in Scenarios, NEW t \in scenario.callers
    PROVE  /\ ~scenario.auto
           /\ scenario.callers = {t}
           /\ scenario.kinds \subseteq {"data"}
           /\ t \in Threads
<1>1. scenario.callers \subseteq Threads
  BY RekeyAssumption DEF Scenario
<1>2. /\ ~scenario.auto /\ scenario.kinds \subseteq {"data"}
      /\ Cardinality(scenario.callers) <= 1
  BY DEF Careful
<1>3. IsFiniteSet(scenario.callers)
  BY <1>1, RekeyAssumption, FS_Subset
<1>4. ASSUME NEW u \in scenario.callers, u # t
      PROVE  FALSE
  <2>1. Cardinality({t, u}) = 2 /\ IsFiniteSet({t, u})
    <3>1. IsFiniteSet({t}) /\ Cardinality({t}) = 1
      BY FS_Singleton
    <3>2. {t} \cup {u} = {t, u}
      OBVIOUS
    <3> QED
      BY <3>1, <3>2, <1>4, FS_AddElement
  <2>2. Cardinality({t, u}) <= Cardinality(scenario.callers)
    BY <1>3, <1>4, FS_Subset
  <2>3. Cardinality(scenario.callers) \in Nat
    BY <1>3, FS_CardinalityType
  <2> QED
    BY <2>1, <2>2, <2>3, <1>2
<1> QED
  BY <1>1, <1>2, <1>4

\* The transmission of a packet.
Sent(s, type, val) ==
    /\ wire' \in [Side -> Seq(Packet)]
    /\ wire'[s] = wire[s]
    /\ LET v == wire'[Peer(s)]
           w == wire[Peer(s)]
       IN  /\ \A ty : Has(v, ty) => Has(w, ty) \/ ty = type
           /\ Open(v) => type = "kexinit" \/ (Open(w) /\ type # "newkeys")
           /\ OneKexInit(w) /\ (type # "kexinit" \/ ~Has(w, "kexinit")) => OneKexInit(v)
           /\ Quiet(w) /\ (type \notin Payload \/ ~Open(w)) => Quiet(v)
           /\ Numbers(w) /\ (type = "kexinit" => val[1] # 0) => Numbers(v)

\* What it does to the counters.
Counted(s) ==
    /\ need_rekey' \in [Side -> BOOLEAN]
    /\ sent_packets' \in [Side -> Nat]
    /\ received_packets_overflow' \in [Side -> Nat]
    /\ UNCHANGED <<init_count, received_packets>>
    /\ need_rekey'[Peer(s)] = need_rekey[Peer(s)]
    /\ sent_packets'[Peer(s)] = sent_packets[Peer(s)]
    /\ ~scenario.auto \/ sent_packets[s] = 0 => need_rekey'[s] = need_rekey[s]

\* send_message puts a packet on the wire; one packet does not reach a limit.
LEMMA Sending ==
    ASSUME Typed, NEW s \in Side, NEW type \in Type, NEW val \in Seq(Nat),
           type = "kexinit" => Len(val) = 1, SendMessage(s, type, val)
    PROVE  Sent(s, type, val) /\ Counted(s)
<1> DEFINE p == Peer(s)
           m == [type |-> type, val |-> val, key |-> out_key[s]]
<1>1. p \in Side /\ p # s
  BY Ends
<1>2. m \in Packet /\ m.type = type /\ m.val = val
  BY DEF Typed, Packet
<1>3. wire[p] \in Seq(Packet) /\ wire[s] \in Seq(Packet)
  BY <1>1 DEF Typed
<1>4. wire'[p] = Append(wire[p], m) /\ wire'[s] = wire[s]
  BY <1>1 DEF SendMessage, Typed
<1>5. wire' \in [Side -> Seq(Packet)]
  <2>1. Append(wire[p], m) \in Seq(Packet)
    BY <1>2, <1>3
  <2>2. wire' = [wire EXCEPT ![p] = Append(wire[p], m)]
    BY DEF SendMessage
  <2> QED
    BY <2>1, <2>2, <1>1 DEF Typed
<1>6. Sent(s, type, val)
  <2> HIDE DEF m, p
  <2>1. Sent(s, type, val) <=>
          /\ wire' \in [Side -> Seq(Packet)]
          /\ wire'[s] = wire[s]
          /\ \A ty : Has(wire'[p], ty) => Has(wire[p], ty) \/ ty = type
          /\ Open(wire'[p]) => type = "kexinit" \/ (Open(wire[p]) /\ type # "newkeys")
          /\ OneKexInit(wire[p]) /\ (type # "kexinit" \/ ~Has(wire[p], "kexinit"))
               => OneKexInit(wire'[p])
          /\ Quiet(wire[p]) /\ (type \notin Payload \/ ~Open(wire[p])) => Quiet(wire'[p])
          /\ Numbers(wire[p]) /\ (type = "kexinit" => val[1] # 0) => Numbers(wire'[p])
    BY DEF Sent, p
  <2> QED
    BY <2>1, <1>2, <1>3, <1>4, <1>5, Appended
<1>7. Counted(s)
  <2>1. /\ sent_packets' = [sent_packets EXCEPT ![s] = sent_packets[s] + 1]
        /\ need_rekey' = [need_rekey EXCEPT ![s] =
             @ \/ (scenario.auto /\ sent_packets[s] + 1 >= REKEY_PACKETS /\ ~need_rekey[s])]
        /\ UNCHANGED <<init_count, received_packets>>
    BY DEF SendMessage
  <2>2. sent_packets[s] \in Nat /\ need_rekey[s] \in BOOLEAN /\ received_packets_overflow[s] \in Nat
    BY DEF Typed
  <2>3. sent_packets' \in [Side -> Nat] /\ sent_packets'[p] = sent_packets[p]
    BY <1>1, <2>1, <2>2 DEF Typed
  <2>4. need_rekey' \in [Side -> BOOLEAN] /\ need_rekey'[p] = need_rekey[p]
    BY <1>1, <2>1, <2>2 DEF Typed
  <2>5. received_packets_overflow' \in [Side -> Nat]
    BY <2>2 DEF SendMessage, Typed
  <2>6. ~scenario.auto \/ sent_packets[s] = 0 => need_rekey'[s] = need_rekey[s]
    BY <2>1, <2>2, RekeyAssumption DEF Typed
  <2> QED
    BY <2>1, <2>3, <2>4, <2>5, <2>6 DEF Counted
<1> QED
  BY <1>6, <1>7

\* The transport thread takes a packet from the wire.
Taking(s, ty) ==
    /\ active[s] /\ todo[s] # <<>> /\ Head(todo[s]) = "read" /\ Ahead(s) = {"read"}
    /\ Has(wire[s], ty)
    /\ expected[s] = {} \/ ty \in expected[s]
    /\ ty = "newkeys" => exchanged[s] # NoKey
    /\ wire' \in [Side -> Seq(Packet)]
    /\ wire'[Peer(s)] = wire[Peer(s)]
    /\ \A k : Has(wire'[s], k) => Has(wire[s], k)
    /\ Open(wire'[s]) => Open(wire[s])
    /\ OneKexInit(wire[s]) =>
          OneKexInit(wire'[s]) /\ (ty = "kexinit" => ~Has(wire'[s], "kexinit"))
    /\ Quiet(wire[s]) => Quiet(wire'[s])
    /\ Numbers(wire[s]) => Numbers(wire'[s]) /\ (ty = "kexinit" => Head(wire[s]).val[1] # 0)
    /\ ty = "kexinit" => Head(wire[s]).val[1] \in Nat

\* read_message removes the first packet, one that the end can handle.
LEMMA Reading ==
    ASSUME Typed, NEW s \in Side, NEW ty, Reads(s, ty)
    PROVE  Taking(s, ty)
<1> DEFINE w == wire[s]
<1>1. /\ active[s] /\ todo[s] # <<>> /\ Head(todo[s]) = "read"
      /\ w # <<>> /\ Head(w).type = ty /\ ~Rejected(s, Head(w))
      /\ wire' = [wire EXCEPT ![s] = Tail(w)]
  BY Ends DEF Reads, Doing
<1>2. w \in Seq(Packet) /\ Peer(s) # s /\ Peer(s) \in Side
  BY Ends DEF Typed
<1>3. /\ Tail(w) \in Seq(Packet) /\ Head(w) \in Packet /\ Has(w, ty)
      /\ \A k : Has(Tail(w), k) => Has(w, k)
      /\ Open(Tail(w)) => Open(w)
      /\ OneKexInit(w) => OneKexInit(Tail(w))
      /\ OneKexInit(w) /\ ty = "kexinit" => ~Has(Tail(w), "kexinit")
      /\ Quiet(w) => Quiet(Tail(w))
      /\ Numbers(w) => Numbers(Tail(w))
      /\ Numbers(w) /\ ty = "kexinit" => Head(w).val[1] # 0
  <2> HIDE DEF w
  <2> QED
    BY <1>1, <1>2, Taken
<1>4. wire'[s] = Tail(w) /\ wire'[Peer(s)] = wire[Peer(s)]
  BY <1>1, <1>2 DEF Typed
<1>5. wire' \in [Side -> Seq(Packet)]
  BY <1>1, <1>3 DEF Typed
<1>6. (expected[s] = {} \/ ty \in expected[s]) /\ (ty = "newkeys" => exchanged[s] # NoKey)
  BY <1>1 DEF Rejected
<1>7. ty = "kexinit" => Head(w).val[1] \in Nat
  BY <1>1, <1>3 DEF Packet
<1>8. Ahead(s) = {"read"}
  BY <1>1, LastSteps DEF Ahead, Typed
<1> QED
  BY <1>1, <1>3, <1>4, <1>5, <1>6, <1>7, <1>8 DEF Taking
-----------------------------------------------------------------------------
(* Types *)

TodoTyped ==
    /\ DOMAIN todo = Procs
    /\ \A s \in Side : todo[s] \in SideTodo
    /\ \A t \in Threads : todo[t] \in CallerTodo

\* A process has other things to do.
LEMMA TodoChanged ==
    ASSUME Typed, NEW p \in Procs, NEW q, todo' = [todo EXCEPT ![p] = q],
           p \in Side => q \in SideTodo, p \in Threads => q \in CallerTodo
    PROVE  /\ TodoTyped'
           /\ todo'[p] = q
           /\ \A r \in Procs : r # p => todo'[r] = todo[r]
BY Ends DEF Typed, TodoTyped, Procs

\* A process has done the first thing it had to do.
LEMMA Going ==
    ASSUME Typed, NEW p \in Procs, NEW op, Doing(p, op), Done(p)
    PROVE  /\ TodoTyped'
           /\ todo'[p] = Tail(todo[p])
           /\ op \in Ahead(p)
           /\ Range(todo'[p]) = Ahead(p) \ {op}
           /\ \A r \in Procs : r # p => todo'[r] = todo[r]
<1>1. todo[p] # <<>> /\ Head(todo[p]) = op /\ todo' = [todo EXCEPT ![p] = Tail(todo[p])]
  BY DEF Doing, Done
<1>2. todo[p] \in SideTodo \cup CallerTodo
  BY Ends DEF Typed
<1>3. /\ Steps(todo[p])
      /\ p \in Side => Tail(todo[p]) \in SideTodo
      /\ p \in Threads => Tail(todo[p]) \in CallerTodo
  BY <1>1, <1>2, SideSteps, CallerSteps, Ends DEF Typed
<1>4. /\ TodoTyped'
      /\ todo'[p] = Tail(todo[p])
      /\ \A r \in Procs : r # p => todo'[r] = todo[r]
  BY <1>1, <1>3, TodoChanged
<1> QED
  BY <1>1, <1>3, <1>4 DEF Steps, Ahead

\* What the transport thread may have to do after it has read a packet.
LEMMA OpsTyped ==
    /\ <<>> \in SideTodo /\ <<"read">> \in SideTodo
    /\ <<"clear", "mark", "kexinit", "read">> \in SideTodo
    /\ <<"clear", "negotiate", "start_kex">> \in SideTodo
    /\ <<"start_kex">> \in SideTodo
    /\ <<"clear", "mark", "kexinit", "start_kex">> \in SideTodo
    /\ <<"kexreply", "newkeys", "activate", "ext_info", "expect_newkeys">> \in SideTodo
    /\ <<"newkeys", "activate", "expect_newkeys">> \in SideTodo
    /\ <<"unimplemented">> \in SideTodo /\ <<"channel_success">> \in SideTodo
    /\ <<"request_success">> \in SideTodo /\ <<"leave_kex", "reopen">> \in SideTodo
    /\ <<"clear", "mark", "kexinit", "await">> \in CallerTodo
BY DEF SideTodo, OpeningTodo, SwitchingTodo, SettlingTodo, AnsweringTodo, KexInitThen, CallerTodo

\* Four operations in a row.
LEMMA Joined ==
    ASSUME NEW a, NEW b, NEW c, NEW d
    PROVE  <<a, b, c>> \o <<d>> = <<a, b, c, d>>
<1> DEFINE S == {a, b, c, d}
           u == <<a, b, c>>
           v == <<d>>
           w == <<a, b, c, d>>
<1>1. u \in Seq(S) /\ Len(u) = 3
  OBVIOUS
<1>2. v \in Seq(S) /\ Len(v) = 1
  OBVIOUS
<1>3. w \in Seq(S) /\ Len(w) = 4
  OBVIOUS
<1>4. u[1] = w[1] /\ u[2] = w[2] /\ u[3] = w[3] /\ v[1] = w[4]
  OBVIOUS
<1> HIDE DEF u, v, w, S
<1>5. /\ u \o v \in Seq(S) /\ Len(u \o v) = 4
      /\ \A i \in 1 .. 4 : (u \o v)[i] = IF i <= 3 THEN u[i] ELSE v[i - 3]
  <2>1. /\ u \o v \in Seq(S) /\ Len(u \o v) = Len(u) + Len(v)
        /\ \A i \in 1 .. Len(u) + Len(v) :
              (u \o v)[i] = IF i <= Len(u) THEN u[i] ELSE v[i - Len(u)]
    BY <1>1, <1>2, ConcatProperties
  <2> QED
    BY <2>1, <1>1, <1>2
<1>6. \A i \in 1 .. 4 : (u \o v)[i] = w[i]
  BY <1>4, <1>5
<1>7. u \o v = w
  <2>1. Len(u \o v) = Len(w) /\ \A i \in 1 .. Len(w) : (u \o v)[i] = w[i]
    BY <1>3, <1>5, <1>6
  <2> QED
    BY <1>3, <1>5, <2>1, SeqEqual
<1> QED
  BY <1>7 DEF u, v, w

\* _negotiate_keys: an answer before start_kex, or none.
LEMMA NegotiateTodo ==
    ASSUME Typed, NEW s \in Side, Negotiate(s)
    PROVE  /\ Ahead(s) = {"negotiate", "start_kex"}
           /\ todo' = [todo EXCEPT ![s] = IF local_kex_init[s] = 0
                 THEN <<"clear", "mark", "kexinit", "start_kex">> ELSE <<"start_kex">>]
<1>1. todo[s] = <<"negotiate", "start_kex">>
  BY SideKexInit DEF Negotiate, Doing, Typed
<1>2. Tail(todo[s]) = <<"start_kex">> /\ Ahead(s) = {"negotiate", "start_kex"}
  BY <1>1, TailIs, RangeIs DEF Ahead
<1>3. <<"clear", "mark", "kexinit">> \o <<"start_kex">>
        = <<"clear", "mark", "kexinit", "start_kex">>
  BY Joined
<1>4. <<>> \o <<"start_kex">> = <<"start_kex">>
  OBVIOUS
<1>5. todo' = [todo EXCEPT ![s] = (IF local_kex_init[s] = 0
                 THEN <<"clear", "mark", "kexinit">> ELSE <<>>) \o Tail(todo[s])]
  BY DEF Negotiate
<1>6. (IF local_kex_init[s] = 0 THEN <<"clear", "mark", "kexinit">> ELSE <<>>) \o <<"start_kex">>
        = (IF local_kex_init[s] = 0
           THEN <<"clear", "mark", "kexinit", "start_kex">> ELSE <<"start_kex">>)
  BY <1>3, <1>4
<1> QED
  BY <1>2, <1>5, <1>6

\* The exchange hash is of two numbers.
LEMMA HashTyped ==
    ASSUME Typed, NEW s \in Side
    PROVE  ExchangeHash(s) \in Key
BY DEF Typed, ExchangeHash, Key

\* read_message counts.
LEMMA CountTyped ==
    ASSUME Typed, NEW s \in Side, CountReceived(s)
    PROVE  /\ received_packets' \in [Side -> Nat]
           /\ need_rekey' \in [Side -> BOOLEAN]
           /\ received_packets_overflow' \in [Side -> Nat]
           /\ UNCHANGED <<init_count, sent_packets>>
           /\ need_rekey'[Peer(s)] = need_rekey[Peer(s)]
           /\ RekeyAssumption /\ ~scenario.auto => need_rekey'[s] = need_rekey[s]
<1>1. need_rekey[s] \in BOOLEAN /\ received_packets[s] \in Nat
      /\ received_packets_overflow[s] \in Nat
  BY DEF Typed
<1>2. scenario.auto \in BOOLEAN
  BY RekeyAssumption DEF Typed, Scenario
<1>3. AsksRekey(s) \in BOOLEAN
  BY <1>1, <1>2 DEF AsksRekey
<1>4. received_packets' \in [Side -> Nat] /\ received_packets_overflow' \in [Side -> Nat]
  BY <1>1 DEF CountReceived, Typed
<1>5. need_rekey' \in [Side -> BOOLEAN] /\ need_rekey'[s] = AsksRekey(s)
      /\ need_rekey'[Peer(s)] = need_rekey[Peer(s)]
  BY <1>3, Ends DEF CountReceived, Typed
<1>6. ~scenario.auto => AsksRekey(s) = need_rekey[s]
  BY <1>1 DEF AsksRekey
<1> QED
  BY <1>4, <1>5, <1>6 DEF CountReceived

\* Every action of a process keeps the types.
LEMMA ProcTyped ==
    ASSUME Typed, NEW p \in Procs, SendsKexInit(p)
    PROVE  Typed'
<1> USE Ends
<1>1. CASE Clear(p)
  <2>1. TodoTyped'
    BY <1>1, Going DEF Clear
  <2> QED
    BY <1>1, <2>1 DEF Clear, Typed, sends, TodoTyped, kex, keys, count
<1>2. CASE Mark(p)
  <2>1. TodoTyped'
    BY <1>2, Going DEF Mark
  <2>2. kexinits' \in [Side -> Nat] /\ kexinits'[At(p)] \in Nat
    <3>1. kexinits \in [Side -> Nat] /\ kexinits' = [kexinits EXCEPT ![At(p)] = @ + 1]
      BY <1>2 DEF Mark, Typed, sends
    <3>2. At(p) \in Side
      OBVIOUS
    <3> QED
      BY <3>1, <3>2
  <2>3. local_kex_init' \in [Side -> Nat] /\ mine' \in [Procs -> Nat]
    <3>1. /\ local_kex_init \in [Side -> Nat] /\ mine \in [Procs -> Nat]
          /\ local_kex_init' = [local_kex_init EXCEPT ![At(p)] = kexinits'[At(p)]]
          /\ mine' = [mine EXCEPT ![p] = kexinits'[At(p)]]
      BY <1>2 DEF Mark, Typed, sends
    <3> QED
      BY <2>2, <3>1
  <2> QED
    BY <1>2, <2>1, <2>2, <2>3 DEF Mark, Typed, sends, TodoTyped, keys, count
<1>3. CASE SendKexInit(p)
  <2>1. TodoTyped'
    BY <1>3, Going DEF SendKexInit
  <2>2. Sent(At(p), "kexinit", <<mine[p]>>) /\ Counted(At(p))
    <3>1. <<mine[p]>> \in Seq(Nat) /\ Len(<<mine[p]>>) = 1 /\ "kexinit" \in Type
      BY DEF Typed, sends, Type
    <3> QED
      BY <3>1, <1>3, Sending DEF SendKexInit
  <2> QED
    BY <1>3, <2>1, <2>2 DEF SendKexInit, Typed, sends, TodoTyped, Sent, Counted, gate, kex, keys
<1> QED
  BY <1>1, <1>2, <1>3 DEF SendsKexInit

\* What a thread of the application does keeps the types.
LEMMA ThreadTyped ==
    ASSUME Typed, NEW t \in Threads,
           \/ \E kind \in Kind : UserSends(t, kind)
           \/ GlobalRequest(t)
           \/ SendGlobalRequest(t)
           \/ Renegotiate(t)
           \/ RenegotiateReturns(t)
    PROVE  Typed'
<1> USE Ends
<1>1. ASSUME NEW kind \in Kind, UserSends(t, kind)
      PROVE  Typed'
  <2>1. Sent(Home[t], kind, <<>>) /\ Counted(Home[t])
    <3>1. <<>> \in Seq(Nat) /\ kind \in Type /\ kind # "kexinit"
      BY DEF Type, Payload, Kind
    <3> QED
      BY <3>1, <1>1, Sending DEF UserSends, SendUserMessage
  <2>2. left' \in [Threads -> Nat]
    <3>1. left \in [Threads -> Nat] /\ left[t] > 0 /\ left' = [left EXCEPT ![t] = @ - 1]
      BY <1>1 DEF UserSends, Typed, sends
    <3> QED
      BY <3>1
  <2> QED
    BY <1>1, <2>1, <2>2 DEF UserSends, Typed, sends, Sent, Counted, gate, kex, keys
<1>2. CASE Renegotiate(t)
  <2>1. TodoTyped'
    BY <1>2, TodoChanged, OpsTyped DEF Renegotiate
  <2> QED
    BY <1>2, <2>1 DEF Renegotiate, Typed, sends, TodoTyped, gate, kex, keys, count
<1>3. CASE RenegotiateReturns(t)
  <2>1. TodoTyped'
    BY <1>3, Going DEF RenegotiateReturns
  <2> QED
    BY <1>3, <2>1 DEF RenegotiateReturns, Typed, sends, TodoTyped, gate, kex, keys, count
<1>4. CASE GlobalRequest(t)
  <2>1. left \in [Threads -> Nat] /\ left[t] > 0 /\ left' = [left EXCEPT ![t] = @ - 1]
    BY <1>4 DEF GlobalRequest, Typed
  <2>2. left' \in [Threads -> Nat]
    BY <2>1
  <2> QED
    BY <1>4, <2>2 DEF GlobalRequest, Typed, gate, kex, keys, count
<1>5. CASE SendGlobalRequest(t)
  <2>1. Sent(Home[t], "global_request", <<>>) /\ Counted(Home[t])
    <3>1. <<>> \in Seq(Nat) /\ "global_request" \in Type
      BY DEF Type, Payload, Kind
    <3> QED
      BY <3>1, <1>5, Sending DEF SendGlobalRequest, SendUserMessage
  <2> QED
    BY <1>5, <2>1 DEF SendGlobalRequest, Typed, Sent, Counted, gate, kex, keys
<1> QED
  BY <1>1, <1>2, <1>3, <1>4, <1>5

CountsTyped ==
    /\ wire \in [Side -> Seq(Packet)]
    /\ need_rekey \in [Side -> BOOLEAN]
    /\ init_count \in [Side -> SUBSET {"in", "out"}]
    /\ sent_packets \in [Side -> Nat]
    /\ received_packets \in [Side -> Nat]
    /\ received_packets_overflow \in [Side -> Nat]

\* A transport thread that reads a packet and goes on keeps the types.
LEMMA ReadTyped ==
    ASSUME Typed, NEW s \in Side, NEW ty, NEW ops \in SideTodo, ReadThen(s, ty, ops)
    PROVE  TodoTyped' /\ CountsTyped'
<1>1. Taking(s, ty)
  BY Reading DEF ReadThen
<1>2. TodoTyped'
  BY TodoChanged, Ends DEF ReadThen
<1> QED
  BY <1>1, <1>2, CountTyped DEF ReadThen, Taking, Typed, sends, CountsTyped

\* So does every other step of a transport thread.
LEMMA SideTyped ==
    ASSUME Typed, NEW s \in Side, TransportThread(s)
    PROVE  Typed'
<1> USE Ends
<1>1. CASE LoopTop(s)
  <2>1. TodoTyped'
    <3>1. PICK q \in SideTodo : todo' = [todo EXCEPT ![s] = q]
      BY <1>1, OpsTyped DEF LoopTop
    <3> QED
      BY <3>1, TodoChanged
  <2> QED
    BY <1>1, <2>1 DEF LoopTop, Typed, sends, TodoTyped, gate, kex, keys, count
<1>2. CASE ReadTimeout(s)
  <2>1. TodoTyped'
    BY <1>2, Going DEF ReadTimeout
  <2> QED
    BY <1>2, <2>1 DEF ReadTimeout, Typed, sends, TodoTyped, gate, kex, keys, count
<1>3. CASE ReadFails(s) \/ ReadEof(s) \/ ReplyTimesOut(s)
  <2>1. Fail(s)
    BY <1>3 DEF ReadFails, ReadEof, ReplyTimesOut
  <2>2. active' \in [Side -> BOOLEAN]
    BY <2>1 DEF Fail, Typed, sends
  <2> QED
    BY <2>1, <2>2 DEF Fail, Typed, sends, gate, kex, keys, count
<1>4. CASE ReadKexInit(s)
  <2>1. Head(wire[s]).val[1] \in Nat
    BY <1>4, Reading DEF ReadKexInit, ReadThen, Taking
  <2>2. ReadThen(s, "kexinit", <<"clear", "negotiate", "start_kex">>)
    BY <1>4 DEF ReadKexInit
  <2>3. remote_kex_init' \in [Side -> Nat] /\ expected' \in [Side -> SUBSET Type]
    BY <1>4, <2>1 DEF ReadKexInit, Typed, sends
  <2>4. TodoTyped' /\ CountsTyped'
    BY <2>2, ReadTyped, OpsTyped
  <2> QED
    BY <1>4, <2>3, <2>4 DEF ReadKexInit, Typed, sends, TodoTyped, CountsTyped, gate, keys
<1>5. CASE Negotiate(s)
  <2>1. TodoTyped'
    BY <1>5, NegotiateTodo, TodoChanged, OpsTyped
  <2> QED
    BY <1>5, <2>1 DEF Negotiate, Typed, sends, TodoTyped, gate, kex, keys, count
<1>6. CASE StartKex(s)
  <2>1. TodoTyped'
    BY <1>6, Going DEF StartKex
  <2>2. expected' \in [Side -> SUBSET Type]
    <3>1. {"kexreply"} \in SUBSET Type /\ {"kexdh"} \in SUBSET Type
      BY DEF Type
    <3> QED
      <4>1. PICK x \in SUBSET Type : expected' = [expected EXCEPT ![s] = x]
        BY <1>6, <3>1 DEF StartKex
      <4> QED
        BY <4>1 DEF Typed, sends
  <2>3. CASE SendMessage(s, "kexdh", <<>>)
    <3>1. Sent(s, "kexdh", <<>>) /\ Counted(s)
      <4>1. <<>> \in Seq(Nat) /\ "kexdh" \in Type
        BY DEF Type
      <4> QED
        BY <4>1, <2>3, Sending
    <3> QED
      BY <1>6, <2>1, <2>2, <3>1 DEF StartKex, Typed, sends, TodoTyped, Sent, Counted, gate, kex, keys
  <2>4. CASE UNCHANGED <<wire, count>>
    BY <1>6, <2>1, <2>2, <2>4 DEF StartKex, Typed, sends, TodoTyped, gate, kex, keys, count
  <2> QED
    BY <1>6, <2>3, <2>4 DEF StartKex
<1>7. CASE ReadKexDh(s)
  <2>1. ReadThen(s, "kexdh", <<"kexreply", "newkeys", "activate", "ext_info", "expect_newkeys">>)
    BY <1>7 DEF ReadKexDh
  <2>2. exchanged' \in [Side -> Key] /\ expected' \in [Side -> SUBSET Type]
    BY <1>7, HashTyped DEF ReadKexDh, Typed, sends
  <2>3. TodoTyped' /\ CountsTyped'
    BY <2>1, ReadTyped, OpsTyped
  <2> QED
    BY <1>7, <2>2, <2>3 DEF ReadKexDh, Typed, sends, TodoTyped, CountsTyped, gate, keys
<1>8. CASE ReadKexReply(s)
  <2>1. ReadThen(s, "kexreply", <<"newkeys", "activate", "expect_newkeys">>)
    BY <1>8 DEF ReadKexReply
  <2>2. exchanged' \in [Side -> Key] /\ expected' \in [Side -> SUBSET Type]
    BY <1>8, HashTyped DEF ReadKexReply, Typed, sends
  <2>3. TodoTyped' /\ CountsTyped'
    BY <2>1, ReadTyped, OpsTyped
  <2> QED
    BY <1>8, <2>2, <2>3 DEF ReadKexReply, Typed, sends, TodoTyped, CountsTyped, gate, keys
<1>9. CASE SendDirect(s)
  <2>1. PICK type \in {"kexreply", "newkeys", "ext_info", "request_success", "unimplemented"} :
          Doing(s, type) /\ SendMessage(s, type, exchanged[s])
    BY <1>9 DEF SendDirect
  <2>2. TodoTyped'
    BY <1>9, <2>1, Going DEF SendDirect
  <2>3. exchanged[s] \in Seq(Nat)
    <3>1. exchanged[s] \in Nat \X Nat
      BY DEF Typed, sends, Key
    <3>2. PICK a \in Nat, b \in Nat : exchanged[s] = <<a, b>>
      BY <3>1
    <3> QED
      BY <3>2
  <2>4. Sent(s, type, exchanged[s]) /\ Counted(s)
    BY <2>1, <2>3, Sending DEF Type, Payload
  <2> QED
    BY <1>9, <2>2, <2>4 DEF SendDirect, Typed, sends, TodoTyped, Sent, Counted, gate, kex, keys
<1>10. CASE ActivateOutbound(s)
  <2>1. TodoTyped'
    BY <1>10, Going DEF ActivateOutbound
  <2>2. NeedAfter(s, "out", need_rekey[s]) \in BOOLEAN /\ in_kex[s] \in BOOLEAN
    BY DEF NeedAfter, Typed, sends
  <2>3. InitCountAfter(s, "out") \in SUBSET {"in", "out"}
    BY DEF InitCountAfter, Typed, sends
  <2>4. /\ need_rekey' \in [Side -> BOOLEAN] /\ in_kex' \in [Side -> BOOLEAN]
        /\ init_count' \in [Side -> SUBSET {"in", "out"}]
    BY <1>10, <2>2, <2>3 DEF ActivateOutbound, Typed, sends
  <2> QED
    BY <1>10, <2>1, <2>4 DEF ActivateOutbound, Typed, sends, TodoTyped, kex
<1>11. CASE Expect(s)
  <2>1. TodoTyped'
    BY <1>11, Going DEF Expect
  <2>2. expected' \in [Side -> SUBSET Type]
    <3>1. {"kexinit"} \in SUBSET Type /\ {"newkeys"} \in SUBSET Type
      BY DEF Type
    <3> QED
      <4>1. PICK x \in SUBSET Type : expected' = [expected EXCEPT ![s] = x]
        BY <1>11, <3>1 DEF Expect
      <4> QED
        BY <4>1 DEF Typed, sends
  <2> QED
    BY <1>11, <2>1, <2>2 DEF Expect, Typed, sends, TodoTyped, gate, kex, keys, count
<1>12. CASE ReadNewKeys(s)
  <2>1. Taking(s, "newkeys")
    BY <1>12, Reading DEF ReadNewKeys, ActivateInbound
  <2>2. TodoTyped'
    BY <1>12, TodoChanged, OpsTyped DEF ReadNewKeys, ActivateInbound
  <2>3. AsksRekey(s) \in BOOLEAN
    BY RekeyAssumption DEF AsksRekey, Typed, sends, Scenario
  <2>4. NeedAfter(s, "in", AsksRekey(s)) \in BOOLEAN
    BY <2>3 DEF NeedAfter, Typed, sends
  <2>5. InitCountAfter(s, "in") \in SUBSET {"in", "out"}
    BY DEF InitCountAfter, Typed, sends
  <2>6. /\ need_rekey' \in [Side -> BOOLEAN]
        /\ init_count' \in [Side -> SUBSET {"in", "out"}]
    BY <1>12, <2>4, <2>5 DEF ReadNewKeys, ActivateInbound, Typed, sends
  <2>7. NoKey \in Key
    BY DEF NoKey, Key
  <2>8. /\ in_key' \in [Side -> Key] /\ exchanged' \in [Side -> Key]
        /\ local_kex_init' \in [Side -> Nat] /\ remote_kex_init' \in [Side -> Nat]
        /\ received_packets' \in [Side -> Nat] /\ received_packets_overflow' \in [Side -> Nat]
        /\ completion' \in [Side -> BOOLEAN]
        /\ expected' \in [Side -> SUBSET Type]
    BY <1>12, <2>7 DEF ReadNewKeys, ActivateInbound, Typed, sends
  <2> QED
    BY <1>12, <2>1, <2>2, <2>6, <2>8 DEF ReadNewKeys, ActivateInbound, Typed, sends, gate, TodoTyped, Taking
<1>13. CASE ReadRequest(s)
  <2>1. TodoTyped' /\ CountsTyped'
    BY <1>13, ReadTyped, OpsTyped DEF ReadRequest
  <2> QED
    BY <1>13, <2>1 DEF ReadRequest, Typed, sends, TodoTyped, CountsTyped, gate, kex, keys
<1>14. CASE ReadUnhandled(s)
  <2>1. TodoTyped' /\ CountsTyped'
    BY <1>14, ReadTyped, OpsTyped DEF ReadUnhandled
  <2> QED
    BY <1>14, <2>1 DEF ReadUnhandled, Typed, sends, TodoTyped, CountsTyped, gate, kex, keys
<1>15. CASE ReadOther(s)
  <2>1. TodoTyped' /\ CountsTyped'
    BY <1>15, ReadTyped, OpsTyped DEF ReadOther
  <2> QED
    BY <1>15, <2>1 DEF ReadOther, Typed, sends, TodoTyped, CountsTyped, gate, kex, keys
<1>16. CASE SendChannelReply(s)
  <2>1. TodoTyped'
    BY <1>16, Going DEF SendChannelReply
  <2>2. Sent(s, "channel_success", <<>>) /\ Counted(s)
    <3>1. <<>> \in Seq(Nat) /\ "channel_success" \in Type
      BY DEF Type, Payload
    <3> QED
      BY <3>1, <1>16, Sending DEF SendChannelReply, SendUserMessage
  <2> QED
    BY <1>16, <2>1, <2>2
    DEF SendChannelReply, Typed, sends, TodoTyped, Sent, Counted, gate, kex, keys
<1>17. CASE LeaveKex(s) \/ Reopen(s)
  <2>1. TodoTyped'
    BY <1>17, Going DEF LeaveKex, Reopen
  <2>2. clear_to_send' \in [Side -> BOOLEAN] /\ in_kex' \in [Side -> BOOLEAN]
    <3>1. (in_kex[s] /\ need_rekey[s]) \in BOOLEAN
      OBVIOUS
    <3>2. in_kex' = in_kex \/ in_kex' = [in_kex EXCEPT ![s] = in_kex[s] /\ need_rekey[s]]
      BY <1>17 DEF LeaveKex, Reopen
    <3>3. clear_to_send' = clear_to_send \/ clear_to_send' = [clear_to_send EXCEPT ![s] = TRUE]
      BY <1>17 DEF LeaveKex, Reopen
    <3> QED
      BY <3>1, <3>2, <3>3 DEF Typed
  <2> QED
    BY <1>17, <2>1, <2>2 DEF LeaveKex, Reopen, Typed, TodoTyped, kex, keys, count, sends
<1>18. CASE ReadGlobalReply(s)
  <2>1. TodoTyped' /\ CountsTyped'
    BY <1>18, ReadTyped, OpsTyped DEF ReadGlobalReply
  <2> QED
    BY <1>18, <2>1 DEF ReadGlobalReply, Typed, TodoTyped, CountsTyped, gate, kex, keys, sends
<1> QED
  BY <1>1, <1>2, <1>3, <1>4, <1>5, <1>6, <1>7, <1>8, <1>9, <1>10, <1>11, <1>12, <1>13,
     <1>14, <1>15, <1>16, <1>17, <1>18 DEF TransportThread

\* The types are kept.
LEMMA TypedKept ==
    ASSUME Typed, [Next]_vars
    PROVE  Typed'
<1>1. CASE UNCHANGED vars
  BY <1>1 DEF vars, Typed, gate, kex, keys, count, sends
<1> QED
  BY <1>1, ProcTyped, SideTyped, ThreadTyped DEF Next
-----------------------------------------------------------------------------
(* What a step leaves alone *)

SameThreads ==
    scenario' = scenario /\ \A t \in Threads : todo'[t] = todo[t] /\ mine'[t] = mine[t]

\* The part of an end in exchanges (completion_event matters to callers) ...
SameKex(s) ==
    /\ local_kex_init'[s] = local_kex_init[s]
    /\ remote_kex_init'[s] = remote_kex_init[s]
    /\ expected'[s] = expected[s]
    /\ scenario.callers # {} => completion'[s] = completion[s]
    /\ exchanged'[s] = exchanged[s]
    /\ out_key'[s] = out_key[s]
    /\ in_key'[s] = in_key[s]

\* ... and all of it.
SameEnd(s) ==
    /\ SameKex(s)
    /\ todo'[s] = todo[s]
    /\ mine'[s] = mine[s]
    /\ clear_to_send'[s] = clear_to_send[s]
    /\ in_kex'[s] = in_kex[s]
    /\ need_rekey'[s] = need_rekey[s]
    /\ sent_packets'[s] = sent_packets[s]

\* No packet has been added to a wire.
NothingAdded(s) ==
    \/ wire'[s] = wire[s]
    \/ wire[s] # <<>> /\ wire'[s] = Tail(wire[s])

\* Nothing is added to what an end has sent when it is read.
LEMMA SentLess ==
    ASSUME Typed, NEW s \in Side, NothingAdded(s)
    PROVE  /\ Numbers(wire[s]) => Numbers(wire'[s])
           /\ Quiet(wire[s]) => Quiet(wire'[s])
           /\ Open(wire'[s]) => Open(wire[s])
           /\ OneKexInit(wire[s]) => OneKexInit(wire'[s])
           /\ \A ty : Has(wire'[s], ty) => Has(wire[s], ty)
<1>1. wire[s] \in Seq(Packet)
  BY DEF Typed
<1> QED
  BY <1>1, Taken DEF NothingAdded

\* An end is not disturbed by the other one.
LEMMA EndFrame ==
    ASSUME Typed, NEW s \in Side, EndOK(s), SameEnd(s), NothingAdded(Peer(s))
    PROVE  EndOK(s)'
<1>1. Peer(s) \in Side
  BY Ends
<1>2. Ahead(s)' = Ahead(s)
  BY DEF SameEnd, Ahead
<1>3. OpeningOK(s)'
  BY <1>2 DEF EndOK, OpeningOK, SameEnd, SameKex
<1>4. SwitchingOK(s)'
  BY <1>2 DEF EndOK, SwitchingOK, SameEnd, SameKex
<1>5. SentOK(s)'
  BY <1>1, <1>2, SentLess DEF EndOK, SentOK, SameEnd, SameKex
<1> QED
  BY <1>3, <1>4, <1>5 DEF EndOK

\* How far the callers of renegotiate_keys are depends on them alone.
LEMMA ModesKept ==
    ASSUME SameThreads, scenario.callers \subseteq Threads
    PROVE  /\ First' <=> First
           /\ \A t \in Threads : Second(t)' <=> Second(t)
           /\ \A t \in Threads : Ahead(t)' = Ahead(t)
           /\ Careful' <=> Careful
<1>1. \A t \in Threads : Ahead(t)' = Ahead(t)
  BY DEF SameThreads, Ahead
<1>2. First' <=> First
  BY <1>1 DEF First, SameThreads
<1>3. \A t \in Threads : Second(t)' <=> Second(t)
  BY DEF Second, SameThreads
<1>4. Careful' <=> Careful
  BY DEF Careful, SameThreads
<1> QED
  BY <1>1, <1>2, <1>3, <1>4

Rounds == FirstOK /\ \A t \in Threads : Second(t) => OwnOK(t)

\* The invariant, put together after a step of end s.
LEMMA Together ==
    ASSUME Typed, CarefulInv, NEW s \in Side, SameThreads,
           SameEnd(Peer(s)), NothingAdded(s),
           \A t \in Threads : Home[t] = s /\ "kexinit" \in Ahead(t) =>
             exchanged'[s] = NoKey /\ (clear_to_send'[s] => clear_to_send[s]),
           UseOK', SendingOK(s)', EndOK(s)', Rounds'
    PROVE  CarefulInv'
<1>1. EndOK(Peer(s))'
  BY Ends, EndFrame DEF CarefulInv
<1>2. \A u \in Side : EndOK(u)'
  BY <1>1, Ends
<1>3. ASSUME NEW t \in Threads
      PROVE  SendingOK(t)'
  <2>1. Ahead(t)' = Ahead(t) /\ mine'[t] = mine[t] /\ At(t) = Home[t] /\ t \in Procs
    BY Ends DEF SameThreads, Ahead
  <2>2. SendingOK(t)
    BY <2>1 DEF CarefulInv
  <2>3. CASE Home[t] = s
    BY <2>1, <2>2, <2>3 DEF SendingOK
  <2>4. CASE Home[t] = Peer(s)
    BY <2>1, <2>2, <2>4 DEF SendingOK, SameEnd, SameKex
  <2> QED
    BY <2>3, <2>4, Ends
<1>4. SendingOK(Peer(s))'
  <2>1. SendingOK(Peer(s)) /\ At(Peer(s)) = Peer(s)
    BY Ends DEF CarefulInv
  <2> QED
    BY <2>1 DEF SendingOK, SameEnd, SameKex, Ahead
<1>5. \A p \in Procs : SendingOK(p)'
  BY <1>3, <1>4, Ends
<1> QED
  BY <1>2, <1>5 DEF CarefulInv, Rounds

\* A thread that is about to send its KEXINIT is the only caller, has been
\* through the first exchange, and its end is in no other.
LEMMA CallerWaits ==
    ASSUME Typed, Careful, CarefulInv, NEW t \in Threads, "kexinit" \in Ahead(t)
    PROVE  /\ First /\ scenario.callers = {t} /\ ~scenario.auto
           /\ scenario.kinds \subseteq {"data"}
           /\ in_key[Home[t]] # NoKey /\ Idle(Home[t])
           /\ ~Has(wire[Home[t]], "kexinit")
           /\ ~completion[Home[t]]
           /\ "mark" \notin Ahead(t) => local_kex_init[Home[t]] = mine[t]
           /\ \A u \in Side : FirstOf(u)
<1>1. t \in scenario.callers
  <2>1. Ahead(t) # {}
    OBVIOUS
  <2>2. todo[t] # <<>>
    BY <2>1, RangeIs DEF Ahead
  <2> QED
    BY <2>2 DEF CarefulInv, UseOK
<1>2. scenario.callers = {t} /\ ~scenario.auto /\ scenario.kinds \subseteq {"data"}
  BY <1>1, OnlyCaller DEF Typed
<1>3. First
  BY <1>2 DEF First
<1>4. /\ \A u \in Side : FirstOf(u)
      /\ in_key[Home[t]] # NoKey /\ ~completion[Home[t]]
      /\ "mark" \notin Ahead(t) => local_kex_init[Home[t]] = mine[t]
  BY <1>1, <1>3 DEF CarefulInv, FirstOK
<1>5. Idle(Home[t]) /\ ~Has(wire[Home[t]], "kexinit")
  BY <1>4, Ends DEF FirstOf, Met
<1> QED
  BY <1>2, <1>3, <1>4, <1>5

\* A step that does not bring an exchange forward: it sends no KEXINIT (unless
\* limits are reached, when nobody counts the exchanges), and NEWKEYS only after
\* it has read one.
IdleOps ==
    {"read", "unimplemented", "channel_success", "request_success", "leave_kex", "reopen"}

Plain(s) ==
    /\ SameKex(s) /\ SameEnd(Peer(s)) /\ SameThreads
    /\ ~scenario.auto =>
         /\ "kexinit" \in Ahead(s)' =>
              /\ "kexinit" \in Ahead(s)
              /\ "expect_kexinit" \in Ahead(s) => "expect_kexinit" \in Ahead(s)'
         /\ "negotiate" \in Ahead(s)' => "negotiate" \in Ahead(s)
         /\ "activate" \in Ahead(s) => "activate" \in Ahead(s)'
         /\ Ahead(s) \subseteq IdleOps => Ahead(s)' \subseteq IdleOps
         /\ "request_success" \in Ahead(s)' =>
              "request_success" \in Ahead(s) \/ Has(wire[s], "global_request")
         /\ \A x \in Side :
              /\ Has(wire'[x], "kexinit") => Has(wire[x], "kexinit")
              /\ Has(wire'[x], "newkeys") => Has(wire[x], "newkeys") \/ Met(Peer(x))
              /\ Has(wire'[x], "global_request") =>
                   Has(wire[x], "global_request") \/ in_key[Peer(x)] # NoKey
              /\ OneKexInit(wire[x]) => OneKexInit(wire'[x])

\* Such a step does not disturb the count of exchanges.
LEMMA PlainKeeps ==
    ASSUME Typed, Rounds, NEW s \in Side, Plain(s)
    PROVE  Rounds'
<1> DEFINE p == Peer(s)
<1>0. p \in Side /\ Peer(p) = s /\ p # s /\ \A u \in Side : u = s \/ u = p
  BY Ends
<1>1. scenario.callers \subseteq Threads
  BY RekeyAssumption DEF Typed, Scenario
<1>2. /\ First' <=> First
      /\ \A t \in Threads : Second(t)' <=> Second(t)
      /\ \A t \in Threads : Ahead(t)' = Ahead(t)
      /\ scenario' = scenario
      /\ \A t \in Threads : mine'[t] = mine[t]
  BY <1>1, ModesKept DEF Plain, SameThreads
<1>3. SameKex(s) /\ SameKex(p) /\ Ahead(p)' = Ahead(p)
  BY DEF Plain, SameEnd, Ahead
<1>4. ASSUME First
      PROVE  FirstOK'
  <2>1. ~scenario.auto /\ FirstOf(s) /\ FirstOf(p)
    BY <1>0, <1>4 DEF First, Rounds, FirstOK
  <2>2. FirstOf(s)'
    BY <1>0, <1>3, <2>1 DEF FirstOf, Plain, SameKex, Idle, Met, IdleOps
  <2>3. FirstOf(p)'
    BY <1>0, <1>3, <2>1 DEF FirstOf, Plain, SameKex, Idle, Met
  <2>4. \A u \in Side : FirstOf(u)'
    BY <1>0, <2>2, <2>3
  <2>5. \A t \in scenario.callers :
            "kexinit" \in Ahead(t) =>
              /\ in_key'[Home[t]] # NoKey
              /\ ~completion'[Home[t]]
              /\ "mark" \notin Ahead(t) => local_kex_init'[Home[t]] = mine[t]
    BY <1>0, <1>1, <1>3, <1>4, Ends DEF SameKex, Rounds, FirstOK
  <2> QED
    BY <1>1, <1>2, <2>4, <2>5 DEF FirstOK
<1>5. ASSUME NEW t \in Threads, Second(t)
      PROVE  OwnOK(t)'
  <2>1. ~scenario.auto /\ scenario.callers # {} /\ OwnOK(t)
    BY <1>5 DEF Second, Rounds
  <2>2. CASE Home[t] = s
    <3>1. OneRound(s)'
      BY <1>0, <1>3, <2>1, <2>2 DEF OwnOK, OneRound, Answers, Plain, SameKex
    <3> QED
      BY <1>2, <1>3, <2>1, <2>2, <3>1 DEF OwnOK, Plain, SameKex, Idle, IdleOps, OwnPart
  <2>3. CASE Home[t] = p
    <3>1. OneRound(p)'
      BY <1>0, <1>3, <2>1, <2>3 DEF OwnOK, OneRound, Answers, Plain, SameKex
    <3> QED
      BY <1>2, <1>3, <2>1, <2>3, <3>1 DEF OwnOK, SameKex, Idle, OwnPart
  <2> QED
    BY <2>2, <2>3, <1>0, Ends
<1>6. ~First => FirstOK'
  BY <1>2 DEF FirstOK
<1> QED
  BY <1>2, <1>4, <1>5, <1>6 DEF Rounds
-----------------------------------------------------------------------------
(* Steps that are no part of an exchange *)

\* What the session is used for does not change with a step of one end.
LEMMA UseKept ==
    ASSUME Typed, UseOK, NEW s \in Side, SameThreads, SameEnd(Peer(s)),
           ~scenario.auto =>
             need_rekey'[s] = need_rekey[s] /\ ("kexinit" \in Ahead(s)' => "read" \notin Ahead(s)'),
           scenario.kinds \subseteq {"data"} =>
             /\ "request_success" \notin Ahead(s)'
             /\ \A x \in Side : \A ty \in {"global_request", "request_success"} :
                   Has(wire'[x], ty) => Has(wire[x], ty)
    PROVE  UseOK'
<1> DEFINE p == Peer(s)
<1>0. p \in Side /\ \A u \in Side : u = s \/ u = p
  BY Ends
<1>1. \A t \in Threads : Ahead(t)' = Ahead(t) /\ todo'[t] = todo[t] /\ mine'[t] = mine[t]
  BY DEF SameThreads, Ahead
<1>2. Ahead(p)' = Ahead(p) /\ need_rekey'[p] = need_rekey[p] /\ scenario' = scenario
  BY DEF SameEnd, SameThreads, Ahead
<1>3. ASSUME ~scenario.auto, NEW u \in Side
      PROVE  ~need_rekey'[u] /\ ("kexinit" \in Ahead(u)' => "read" \notin Ahead(u)')
  BY <1>0, <1>2, <1>3 DEF UseOK
<1>4. ASSUME scenario.kinds \subseteq {"data"}, NEW u \in Side
      PROVE  /\ ~Has(wire'[u], "global_request") /\ ~Has(wire'[u], "request_success")
             /\ "request_success" \notin Ahead(u)'
  BY <1>0, <1>2, <1>4 DEF UseOK
<1> QED
  BY <1>1, <1>2, <1>3, <1>4 DEF UseOK

\* An end without keys to switch to that is in no exchange, or waits in one.
LEMMA Resting ==
    ASSUME Typed, CarefulInv, NEW s \in Side, Ahead(s) \subseteq IdleOps,
           exchanged[s] = NoKey, SameKex(s), Ahead(s)' \subseteq IdleOps,
           clear_to_send'[s] = clear_to_send[s], in_kex'[s] = in_kex[s]
    PROVE  OpeningOK(s)' /\ SwitchingOK(s)' /\ SendingOK(s)'
<1>1. OpeningOK(s) /\ SwitchingOK(s)
  BY DEF CarefulInv, EndOK
<1>2. Ahead(s)' \cap {"mark", "start_kex", "kexinit", "expect_newkeys", "activate", "ext_info"} = {}
  BY DEF IdleOps
<1>3. "mark" \notin Ahead(s)
  BY DEF IdleOps
<1>4. OpeningOK(s)'
  BY <1>1, <1>2, <1>3 DEF OpeningOK, SameKex
<1>5. SwitchingOK(s)'
  BY <1>1, <1>2 DEF SwitchingOK, SameKex
<1>6. SendingOK(s)'
  BY <1>2 DEF SendingOK
<1> QED
  BY <1>4, <1>5, <1>6

\* Nothing happens to the packets an end has sent.
LEMMA SentKept ==
    ASSUME Typed, NEW s \in Side, SentOK(s), wire'[Peer(s)] = wire[Peer(s)],
           clear_to_send'[s] => clear_to_send[s],
           exchanged'[s] # NoKey /\ "newkeys" \notin Ahead(s)' =>
             exchanged[s] # NoKey /\ "newkeys" \notin Ahead(s)
    PROVE  SentOK(s)'
BY DEF SentOK

\* A packet that is not about keys is read.
LEMMA ReadPlain ==
    ASSUME Typed, Careful, CarefulInv, NEW s \in Side, NEW ty, NEW ops,
           ty \notin {"kexinit", "newkeys"},
           ops \in {<<>>, <<"channel_success">>, <<"request_success">>, <<"unimplemented">>},
           ops = <<"request_success">> => ty = "global_request",
           ReadThen(s, ty, ops), expected[s] = {} \/ ty \notin {"kexdh", "kexreply"},
           UNCHANGED <<scenario, gate, kex, expected, keys, mine>>,
           scenario.callers # {} => completion' = completion
    PROVE  CarefulInv'
<1> DEFINE p == Peer(s)
<1>0. p \in Side /\ Peer(p) = s /\ p # s /\ s \in Procs /\ p \in Procs
      /\ \A u \in Side : u = s \/ u = p
  BY Ends
<1>1. Taking(s, ty)
  BY Reading DEF ReadThen
<1>2. todo'[s] = ops /\ \A r \in Procs : r # s => todo'[r] = todo[r]
  <2>1. ops \in SideTodo
    BY OpsTyped
  <2> QED
    BY <2>1, <1>0, TodoChanged, Ends DEF ReadThen
<1>3. Ahead(s)' \subseteq IdleOps
  BY <1>2, RangeIs DEF Ahead, IdleOps
<1>4. "request_success" \in Ahead(s)' => Has(wire[s], "global_request")
  <2>1. ops # <<"request_success">> => "request_success" \notin Range(ops)
    BY RangeIs
  <2> QED
    BY <1>1, <1>2, <2>1 DEF Ahead, Taking
<1>5. /\ SameKex(s) /\ SameKex(p)
      /\ clear_to_send' = clear_to_send /\ in_kex' = in_kex /\ scenario' = scenario
      /\ mine' = mine
  BY DEF kex, gate, keys, SameKex
<1>6. /\ need_rekey'[p] = need_rekey[p] /\ sent_packets' = sent_packets
      /\ ~scenario.auto => need_rekey'[s] = need_rekey[s]
  BY RekeyAssumption, CountTyped DEF ReadThen
<1>7. SameEnd(p)
  BY <1>0, <1>2, <1>5, <1>6 DEF SameEnd
<1>8. SameThreads
  BY <1>2, <1>5, Ends DEF SameThreads
<1>9. Ahead(s) = {"read"} /\ exchanged[s] = NoKey
  <2>1. Ahead(s) = {"read"} /\ (expected[s] = {} \/ ty \in expected[s])
    BY <1>1 DEF Taking
  <2>2. SwitchingOK(s)
    BY DEF CarefulInv, EndOK
  <2> QED
    BY <2>1, <2>2 DEF SwitchingOK
<1>10. OpeningOK(s)' /\ SwitchingOK(s)' /\ SendingOK(s)'
  BY <1>3, <1>5, <1>9, Resting DEF IdleOps
<1>11. wire'[p] = wire[p] /\ NothingAdded(s)
  BY <1>1 DEF Taking, ReadThen, Reads, Typed, NothingAdded
<1>12. SentOK(s)'
  <2>1. exchanged'[s] = NoKey
    BY <1>5, <1>9 DEF SameKex
  <2> QED
    BY <1>5, <1>11, <2>1, SentKept DEF CarefulInv, EndOK
<1>13. \A x \in Side : \A k : Has(wire'[x], k) => Has(wire[x], k)
  BY <1>0, <1>1 DEF Taking
<1>14. \A x \in Side : OneKexInit(wire[x]) => OneKexInit(wire'[x])
  BY <1>0, <1>1 DEF Taking
<1>15. UseOK'
  <2>1. "kexinit" \notin Ahead(s)'
    BY <1>3 DEF IdleOps
  <2>2. scenario.kinds \subseteq {"data"} => "request_success" \notin Ahead(s)'
    BY <1>4 DEF CarefulInv, UseOK
  <2> QED
    BY <1>6, <1>7, <1>8, <1>13, <2>1, <2>2, UseKept DEF CarefulInv
<1>16. Plain(s)
  <2>1. Ahead(s)' \cap {"kexinit", "negotiate"} = {} /\ "activate" \notin Ahead(s)
    BY <1>3, <1>9 DEF IdleOps
  <2> QED
    BY <1>3, <1>4, <1>5, <1>7, <1>8, <1>13, <1>14, <2>1 DEF Plain
<1>17. Rounds'
  BY <1>16, PlainKeeps DEF CarefulInv, Rounds
<1>18. exchanged'[s] = NoKey /\ clear_to_send'[s] = clear_to_send[s]
  BY <1>5, <1>9 DEF SameKex
<1> QED
  BY <1>7, <1>8, <1>10, <1>11, <1>12, <1>15, <1>17, <1>18, Together DEF EndOK

\* Requests and their answers, data, and packets nobody waits for.
LEMMA ReadsKeep ==
    ASSUME Typed, Careful, CarefulInv, NEW s \in Side,
           ReadRequest(s) \/ ReadUnhandled(s) \/ ReadOther(s) \/ ReadGlobalReply(s)
    PROVE  CarefulInv'
<1>1. CASE ReadRequest(s)
  <2>1. UNCHANGED <<scenario, gate, kex, expected, completion, keys, mine>>
    BY <1>1 DEF ReadRequest
  <2>2. CASE ReadThen(s, "channel_request", <<"channel_success">>)
    BY <2>1, <2>2, ReadPlain
  <2>3. CASE ReadThen(s, "global_request", <<"request_success">>)
    BY <2>1, <2>3, ReadPlain
  <2> QED
    BY <1>1, <2>2, <2>3 DEF ReadRequest
<1>2. CASE ReadUnhandled(s)
  <2>1. UNCHANGED <<scenario, gate, kex, expected, completion, keys, mine>> /\ expected[s] = {}
    BY <1>2 DEF ReadUnhandled
  <2>2. PICK ty \in {"kexdh", "kexreply"} : ReadThen(s, ty, <<"unimplemented">>)
    BY <1>2 DEF ReadUnhandled
  <2> QED
    BY <2>1, <2>2, ReadPlain
<1>3. CASE ReadOther(s)
  <2>1. UNCHANGED <<scenario, gate, kex, expected, completion, keys, mine>>
    BY <1>3 DEF ReadOther
  <2>2. PICK ty \in {"data", "channel_success", "ext_info", "unimplemented"} :
          ReadThen(s, ty, <<>>)
    BY <1>3 DEF ReadOther
  <2> QED
    BY <2>1, <2>2, ReadPlain
<1>4. CASE ReadGlobalReply(s)
  <2>1. /\ UNCHANGED <<scenario, gate, kex, expected, keys, mine>>
        /\ ReadThen(s, "request_success", <<>>)
    BY <1>4 DEF ReadGlobalReply
  <2>2. Has(wire[s], "request_success")
    BY <2>1, Reading DEF ReadThen, Taking
  <2>3. scenario.callers = {}
    BY <2>2 DEF Careful, CarefulInv, UseOK
  <2> QED
    BY <2>1, <2>3, ReadPlain
<1> QED
  BY <1>1, <1>2, <1>3, <1>4

\* A step of s that changes nothing but what s has to do.
LEMMA OnlyTodo ==
    ASSUME Typed, NEW s \in Side, NEW q \in SideTodo, todo' = [todo EXCEPT ![s] = q],
           UNCHANGED <<scenario, wire, gate, kex, expected, completion, keys, count, mine>>
    PROVE  /\ SameKex(s) /\ SameEnd(Peer(s)) /\ SameThreads /\ NothingAdded(s)
           /\ todo'[s] = q /\ Ahead(s)' = Range(q)
           /\ wire' = wire /\ need_rekey' = need_rekey /\ in_kex' = in_kex
           /\ clear_to_send' = clear_to_send /\ sent_packets' = sent_packets
           /\ mine' = mine /\ scenario' = scenario
<1> DEFINE p == Peer(s)
<1>1. p \in Side /\ p # s /\ s \in Procs /\ p \in Procs
  BY Ends
<1>2. todo'[s] = q /\ \A r \in Procs : r # s => todo'[r] = todo[r]
  BY <1>1, TodoChanged, Ends
<1>3. /\ SameKex(s) /\ SameKex(p)
      /\ wire' = wire /\ need_rekey' = need_rekey /\ in_kex' = in_kex
      /\ clear_to_send' = clear_to_send /\ sent_packets' = sent_packets
      /\ mine' = mine /\ scenario' = scenario
  BY DEF SameKex, gate, kex, keys, count
<1>4. SameEnd(p)
  BY <1>1, <1>2, <1>3 DEF SameEnd
<1>5. SameThreads
  BY <1>2, <1>3, Ends DEF SameThreads
<1> QED
  BY <1>2, <1>3, <1>4, <1>5 DEF NothingAdded, Ahead

\* The top of the loop: when the limits ask for new keys, no exchange of this
\* end can complete before its KEXINIT is sent.
LEMMA LoopTopKeeps ==
    ASSUME Typed, Careful, CarefulInv, NEW s \in Side, LoopTop(s)
    PROVE  CarefulInv'
<1>1. todo[s] = <<>> /\ Ahead(s) = {}
  BY RangeIs DEF LoopTop, Ahead
<1>2. OpeningOK(s) /\ SwitchingOK(s) /\ SentOK(s) /\ UseOK
  BY DEF CarefulInv, EndOK
<1>3. UNCHANGED <<scenario, wire, gate, kex, expected, completion, keys, count, mine>>
  BY DEF LoopTop
<1>4. CASE need_rekey[s] /\ ~in_kex[s]
  <2>1. todo' = [todo EXCEPT ![s] = <<"clear", "mark", "kexinit", "read">>]
    BY <1>4 DEF LoopTop
  <2>2. scenario.auto /\ exchanged[s] = NoKey
    BY <1>1, <1>2, <1>4 DEF UseOK, SwitchingOK
  <2>3. /\ SameKex(s) /\ SameEnd(Peer(s)) /\ SameThreads /\ NothingAdded(s)
        /\ Ahead(s)' = {"clear", "mark", "kexinit", "read"}
        /\ wire' = wire /\ need_rekey' = need_rekey /\ in_kex' = in_kex
        /\ clear_to_send' = clear_to_send /\ sent_packets' = sent_packets
    <3>1. /\ SameKex(s) /\ SameEnd(Peer(s)) /\ SameThreads /\ NothingAdded(s)
          /\ Ahead(s)' = Range(<<"clear", "mark", "kexinit", "read">>)
          /\ wire' = wire /\ need_rekey' = need_rekey /\ in_kex' = in_kex
          /\ clear_to_send' = clear_to_send /\ sent_packets' = sent_packets
      BY <1>3, <2>1, OpsTyped, OnlyTodo
    <3>2. Range(<<"clear", "mark", "kexinit", "read">>) = {"clear", "mark", "kexinit", "read"}
      BY RangeIs
    <3> QED
      BY <3>1, <3>2
  <2>4. exchanged'[s] = NoKey
    BY <2>2, <2>3 DEF SameKex
  <2>5. OpeningOK(s)'
    BY <1>1, <1>2, <2>3 DEF OpeningOK, SameKex
  <2>6. SwitchingOK(s)'
    BY <1>2, <2>2, <2>3, <2>4 DEF SwitchingOK, SameKex
  <2>7. SentOK(s)'
    BY <1>2, <2>3, <2>4, SentKept
  <2>8. SendingOK(s)'
    BY <2>3, <2>4, Ends DEF SendingOK
  <2>9. UseOK'
    BY <1>2, <2>2, <2>3, UseKept
  <2>10. Rounds'
    BY <2>2, <2>3, PlainKeeps DEF Plain, CarefulInv, Rounds
  <2> QED
    BY <2>3, <2>4, <2>5, <2>6, <2>7, <2>8, <2>9, <2>10, Together DEF EndOK
<1>5. CASE ~(need_rekey[s] /\ ~in_kex[s])
  <2>1. todo' = [todo EXCEPT ![s] = <<"read">>]
    BY <1>5 DEF LoopTop
  <2>3. /\ SameKex(s) /\ SameEnd(Peer(s)) /\ SameThreads /\ NothingAdded(s)
        /\ Ahead(s)' = {"read"}
        /\ wire' = wire /\ need_rekey' = need_rekey /\ in_kex' = in_kex
        /\ clear_to_send' = clear_to_send /\ sent_packets' = sent_packets
    BY <1>3, <2>1, OpsTyped, OnlyTodo, RangeIs
  <2>4. exchanged'[s] = exchanged[s]
    BY <2>3 DEF SameKex
  <2>5. OpeningOK(s)'
    BY <1>1, <1>2, <2>3 DEF OpeningOK, SameKex
  <2>6. SwitchingOK(s)'
    BY <1>1, <1>2, <2>3, <2>4 DEF SwitchingOK, SameKex
  <2>7. SentOK(s)'
    BY <1>1, <1>2, <2>3, <2>4, SentKept
  <2>8. SendingOK(s)'
    BY <2>3 DEF SendingOK
  <2>9. UseOK'
    BY <1>2, <2>3, UseKept
  <2>10. Rounds'
    BY <1>1, <2>3, PlainKeeps DEF Plain, IdleOps, CarefulInv, Rounds
  <2>11. \A t \in Threads : Home[t] = s /\ "kexinit" \in Ahead(t) => exchanged[s] = NoKey
    BY Ends DEF CarefulInv, SendingOK
  <2> QED
    BY <2>3, <2>4, <2>5, <2>6, <2>7, <2>8, <2>9, <2>10, <2>11, Together DEF EndOK
<1> QED
  BY <1>4, <1>5

\* read_all times out.
LEMMA ReadTimeoutKeeps ==
    ASSUME Typed, Careful, CarefulInv, NEW s \in Side, ReadTimeout(s)
    PROVE  CarefulInv'
<1>1. Ahead(s) = {"read"} /\ Tail(todo[s]) = <<>>
  BY LastSteps DEF ReadTimeout, Doing, Ahead, Typed
<1>2. OpeningOK(s) /\ SwitchingOK(s) /\ SentOK(s) /\ UseOK
  BY DEF CarefulInv, EndOK
<1>3. UNCHANGED <<scenario, wire, gate, kex, expected, completion, keys, count, mine>>
  BY DEF ReadTimeout
<1>4. todo' = [todo EXCEPT ![s] = <<>>]
  BY <1>1 DEF ReadTimeout, Done
<1>5. /\ SameKex(s) /\ SameEnd(Peer(s)) /\ SameThreads /\ NothingAdded(s)
      /\ Ahead(s)' = {}
      /\ wire' = wire /\ need_rekey' = need_rekey /\ in_kex' = in_kex
      /\ clear_to_send' = clear_to_send /\ sent_packets' = sent_packets
  BY <1>3, <1>4, OpsTyped, OnlyTodo, RangeIs
<1>6. exchanged'[s] = exchanged[s]
  BY <1>5 DEF SameKex
<1>7. OpeningOK(s)'
  BY <1>1, <1>2, <1>5 DEF OpeningOK, SameKex
<1>8. SwitchingOK(s)'
  BY <1>1, <1>2, <1>5, <1>6 DEF SwitchingOK, SameKex
<1>9. SentOK(s)'
  BY <1>1, <1>2, <1>5, <1>6, SentKept
<1>10. SendingOK(s)'
  BY <1>5 DEF SendingOK
<1>11. UseOK'
  BY <1>2, <1>5, UseKept
<1>12. Rounds'
  BY <1>1, <1>5, PlainKeeps DEF Plain, IdleOps, CarefulInv, Rounds
<1>13. \A t \in Threads : Home[t] = s /\ "kexinit" \in Ahead(t) => exchanged[s] = NoKey
  BY Ends DEF CarefulInv, SendingOK
<1> QED
  BY <1>5, <1>6, <1>7, <1>8, <1>9, <1>10, <1>11, <1>12, <1>13, Together DEF EndOK

\* A step that changes nothing the invariant is about.
LEMMA NothingKeeps ==
    ASSUME CarefulInv,
           UNCHANGED <<scenario, wire, gate, kex, expected, keys, count, todo, mine>>,
           scenario.callers # {} => completion' = completion
    PROVE  CarefulInv'
<1>1. /\ scenario' = scenario /\ wire' = wire /\ clear_to_send' = clear_to_send
      /\ in_kex' = in_kex /\ local_kex_init' = local_kex_init
      /\ remote_kex_init' = remote_kex_init /\ exchanged' = exchanged /\ expected' = expected
      /\ out_key' = out_key /\ in_key' = in_key
      /\ need_rekey' = need_rekey /\ sent_packets' = sent_packets /\ todo' = todo
      /\ mine' = mine
  BY DEF gate, kex, keys, count
<1>2. \A r : Ahead(r)' = Ahead(r)
  BY <1>1 DEF Ahead
<1>3. UseOK'
  BY <1>1, <1>2 DEF CarefulInv, UseOK
<1>4. \A r \in Procs : SendingOK(r)'
  BY <1>1, <1>2 DEF CarefulInv, SendingOK
<1>5. \A u \in Side : EndOK(u)'
  <2>1. SUFFICES ASSUME NEW u \in Side PROVE EndOK(u)'
    OBVIOUS
  <2>2. EndOK(u)
    BY DEF CarefulInv
  <2>3. OpeningOK(u)' /\ SwitchingOK(u)'
    BY <1>1, <1>2, <2>2 DEF EndOK, OpeningOK, SwitchingOK
  <2>4. SentOK(u)'
    BY <1>1, <1>2, <2>2 DEF EndOK, SentOK
  <2> QED
    BY <2>3, <2>4 DEF EndOK
<1>6. \A u : (Idle(u)' <=> Idle(u)) /\ (Met(u)' <=> Met(u)) /\ (Answers(u)' <=> Answers(u))
  BY <1>1, <1>2 DEF Idle, Met, Answers
<1>7. FirstOK'
  <2>1. First' <=> First
    BY <1>1, <1>2 DEF First
  <2>2. \A u \in Side : FirstOf(u)' <=> FirstOf(u)
    BY <1>1, <1>2, <1>6 DEF FirstOf
  <2> QED
    BY <1>1, <1>2, <2>1, <2>2 DEF CarefulInv, FirstOK
<1>8. ASSUME NEW t \in Threads, Second(t)'
      PROVE  OwnOK(t)'
  <2>1. Second(t)
    BY <1>1, <1>8 DEF Second
  <2>2. OwnOK(t) /\ completion' = completion
    BY <2>1 DEF CarefulInv, Second
  <2>3. OneRound(Home[t])'
    BY <1>1, <1>6, <2>2 DEF OwnOK, OneRound
  <2> QED
    BY <1>1, <1>2, <1>6, <2>2, <2>3 DEF OwnOK
<1> QED
  BY <1>3, <1>4, <1>5, <1>7, <1>8 DEF CarefulInv

\* The end of a session leaves all as it was.
LEMMA FailKeeps ==
    ASSUME CarefulInv, NEW s \in Side, Fail(s)
    PROVE  CarefulInv'
BY NothingKeeps DEF Fail

\* _send_user_message: clear_to_send is set, so the end is in no exchange, and
\* all it has sent before is closed by NEWKEYS.
LEMMA UserMessageKeeps ==
    ASSUME Typed, Careful, CarefulInv, NEW s \in Side, NEW type \in Payload,
           SendUserMessage(s, type), NEW q \in SideTodo, type # "request_success",
           type = "global_request" => "global_request" \in scenario.kinds,
           Ahead(s) \subseteq Range(q) \/ (Ahead(s) \subseteq IdleOps /\ q = <<>>),
           Range(q) \subseteq Ahead(s),
           todo'[s] = q, \A r \in Procs : r # s => todo'[r] = todo[r],
           UNCHANGED <<scenario, gate, kex, expected, completion, keys, mine>>
    PROVE  CarefulInv'
<1> DEFINE p == Peer(s)
<1>0. /\ p \in Side /\ Peer(p) = s /\ p # s /\ s \in Procs /\ p \in Procs
      /\ \A u \in Side : u = s \/ u = p
  BY Ends
<1>1. Sent(s, type, <<>>) /\ Counted(s)
  <2>1. <<>> \in Seq(Nat) /\ type \in Type /\ type # "kexinit"
    BY DEF Type, Payload, Kind
  <2> QED
    BY <2>1, Sending DEF SendUserMessage
<1>2. OpeningOK(s) /\ SwitchingOK(s) /\ SentOK(s) /\ UseOK /\ SendingOK(s)
  BY <1>0 DEF CarefulInv, EndOK
<1>3. clear_to_send[s] /\ local_kex_init[s] = 0 /\ exchanged[s] = NoKey /\ in_key[s] # NoKey
      /\ ~Open(wire[p])
  BY <1>2 DEF SendUserMessage, OpeningOK, SwitchingOK, SentOK
<1>4. /\ SameKex(s) /\ SameKex(p)
      /\ clear_to_send' = clear_to_send /\ in_kex' = in_kex /\ scenario' = scenario
      /\ mine' = mine
  BY DEF kex, gate, keys, SameKex
<1>5. SameEnd(p)
  BY <1>0, <1>1, <1>4 DEF SameEnd, Counted
<1>6. SameThreads
  BY <1>4, Ends DEF SameThreads
<1>7. Ahead(s)' = Range(q) /\ exchanged'[s] = NoKey
  BY <1>3, <1>4 DEF Ahead, SameKex
<1>8. type \notin {"kexinit", "newkeys"}
  BY DEF Payload, Kind
<1>9. "expect_newkeys" \notin Ahead(s) /\ Ahead(s) \cap {"ext_info", "activate", "newkeys"} = {}
  <2>1. todo[s] \in SideTodo
    BY DEF Typed
  <2> QED
    BY <1>2, <1>3, <2>1, SideTogether DEF SwitchingOK, Ahead
<1>10. OpeningOK(s)'
  <2>1. in_key'[s] # NoKey /\ local_kex_init'[s] = 0
    BY <1>3, <1>4 DEF SameKex
  <2>2. "start_kex" \in Range(q) => Range(q) = Ahead(s)
    BY RangeIs
  <2> QED
    BY <1>2, <1>3, <1>4, <1>7, <2>1, <2>2 DEF OpeningOK, SameKex
<1>11. SwitchingOK(s)'
  BY <1>2, <1>3, <1>4, <1>7, <1>9 DEF SwitchingOK, SameKex
<1>12. SentOK(s)'
  BY <1>1, <1>2, <1>3, <1>7, <1>8 DEF SentOK, Sent
<1>13. SendingOK(s)'
  <2>1. "kexinit" \in Range(q) => Range(q) = Ahead(s)
    BY RangeIs
  <2>2. At(s) = s
    BY Ends
  <2> QED
    BY <1>2, <1>4, <1>7, <2>1, <2>2 DEF SendingOK
<1>14. \A x \in Side : \A ty \in {"kexinit", "newkeys"} : Has(wire'[x], ty) => Has(wire[x], ty)
  BY <1>0, <1>1, <1>8 DEF Sent
<1>15. \A x \in Side : OneKexInit(wire[x]) => OneKexInit(wire'[x])
  BY <1>0, <1>1, <1>8 DEF Sent
<1>16. \A x \in Side : Has(wire'[x], "global_request") =>
          \/ Has(wire[x], "global_request")
          \/ type = "global_request" /\ in_key[Peer(x)] # NoKey
  BY <1>0, <1>1, <1>3 DEF Sent
<1>17. UseOK'
  <2>1. ~scenario.auto => need_rekey'[s] = need_rekey[s]
    BY <1>1 DEF Counted
  <2>2. ~scenario.auto => ("kexinit" \in Ahead(s)' => "read" \notin Ahead(s)')
    BY <1>2, <1>7 DEF UseOK
  <2>3. scenario.kinds \subseteq {"data"} =>
          /\ "request_success" \notin Ahead(s)'
          /\ \A x \in Side : \A ty \in {"global_request", "request_success"} :
                Has(wire'[x], ty) => Has(wire[x], ty)
    BY <1>0, <1>1, <1>2, <1>7, <1>16 DEF UseOK, Sent
  <2> QED
    BY <1>2, <1>5, <1>6, <2>1, <2>2, <2>3, UseKept
<1>18. Plain(s)
  <2>1. /\ "kexinit" \in Range(q) => "kexinit" \in Ahead(s) /\ Range(q) = Ahead(s)
        /\ "negotiate" \in Range(q) => "negotiate" \in Ahead(s)
        /\ Ahead(s) \subseteq IdleOps => Range(q) \subseteq IdleOps
        /\ "request_success" \in Range(q) => "request_success" \in Ahead(s)
    BY RangeIs
  <2> QED
    BY <1>4, <1>5, <1>6, <1>7, <1>9, <1>14, <1>15, <1>16, <2>1 DEF Plain
<1>19. Rounds'
  BY <1>18, PlainKeeps DEF CarefulInv, Rounds
<1>20. NothingAdded(s) /\ clear_to_send'[s] = clear_to_send[s]
  BY <1>1, <1>4 DEF Sent, NothingAdded
<1> QED
  BY <1>5, <1>6, <1>7, <1>10, <1>11, <1>12, <1>13, <1>17, <1>19, <1>20, Together DEF EndOK

\* An application thread sends, or the transport thread answers a request.
LEMMA UserSendsKeeps ==
    ASSUME Typed, Careful, CarefulInv, NEW t \in Threads, NEW kind \in Kind, UserSends(t, kind)
    PROVE  CarefulInv'
<1>1. Home[t] \in Side /\ kind \in Payload /\ kind # "request_success"
      /\ todo[Home[t]] \in SideTodo
  BY Ends DEF Payload, Kind, Typed
<1>2. /\ SendUserMessage(Home[t], kind) /\ kind \in scenario.kinds /\ todo' = todo
      /\ UNCHANGED <<scenario, gate, kex, expected, completion, keys, mine>>
  BY DEF UserSends
<1> QED
  BY <1>1, <1>2, UserMessageKeeps DEF Ahead

\* global_request makes a new event, which no caller of renegotiate_keys waits
\* for in a careful session, and sends.
LEMMA GlobalRequestKeeps ==
    ASSUME Typed, AskingOK, Careful, CarefulInv, NEW t \in Threads,
           GlobalRequest(t) \/ SendGlobalRequest(t)
    PROVE  CarefulInv'
<1>1. "global_request" \in scenario.kinds
  BY DEF GlobalRequest, SendGlobalRequest, AskingOK
<1>2. CASE SendGlobalRequest(t)
  <2>1. Home[t] \in Side /\ "global_request" \in Payload /\ todo[Home[t]] \in SideTodo
    BY Ends DEF Payload, Kind, Typed
  <2>2. /\ SendUserMessage(Home[t], "global_request") /\ todo' = todo
        /\ UNCHANGED <<scenario, gate, kex, expected, completion, keys, mine>>
    BY <1>2 DEF SendGlobalRequest
  <2> QED
    BY <1>1, <2>1, <2>2, UserMessageKeeps DEF Ahead
<1>3. CASE GlobalRequest(t)
  <2>1. scenario.callers = {}
    BY <1>1 DEF Careful
  <2>2. UNCHANGED <<scenario, wire, gate, kex, expected, keys, count, todo, mine>>
    BY <1>3 DEF GlobalRequest
  <2> QED
    BY <2>1, <2>2, NothingKeeps
<1> QED
  BY <1>2, <1>3

\* Channel._handle_request answers, with _send_user_message.
LEMMA SendChannelReplyKeeps ==
    ASSUME Typed, Careful, CarefulInv, NEW s \in Side, SendChannelReply(s)
    PROVE  CarefulInv'
<1>1. Ahead(s) = {"channel_success"} /\ Tail(todo[s]) = <<>>
  BY LastSteps DEF SendChannelReply, Doing, Ahead, Typed
<1>2. todo'[s] = <<>> /\ \A r \in Procs : r # s => todo'[r] = todo[r]
  BY <1>1, Going, Ends DEF SendChannelReply
<1>3. /\ SendUserMessage(s, "channel_success") /\ "channel_success" \in Payload
      /\ UNCHANGED <<scenario, gate, kex, expected, completion, keys, mine>>
  BY DEF SendChannelReply, Payload
<1>4. Range(<<>>) = {} /\ <<>> \in SideTodo
  BY RangeIs, OpsTyped
<1> QED
  BY <1>1, <1>2, <1>3, <1>4, UserMessageKeeps DEF IdleOps
-----------------------------------------------------------------------------
(* Key exchange *)

\* The global request that is answered was sent by a peer that had our NEWKEYS.
LEMMA RequestAfterKeys ==
    ASSUME Typed, Careful, CarefulInv, NEW s \in Side, "request_success" \in Ahead(s)
    PROVE  ~Open(wire[Peer(s)])
<1>0. Peer(s) \in Side /\ Peer(Peer(s)) = s
  BY Ends
<1>1. ~(scenario.kinds \subseteq {"data"})
  BY DEF CarefulInv, UseOK
<1>2. First
  BY <1>1 DEF Careful, First
<1>3. FirstOf(s) /\ FirstOf(Peer(s))
  BY <1>0, <1>2 DEF CarefulInv, FirstOK
<1>4. ~Has(wire[Peer(s)], "kexinit")
  BY <1>0, <1>3 DEF FirstOf, Met
<1> QED
  BY <1>4, OpenHas

\* What the transport thread sends whatever clear_to_send says.
LEMMA SendDirectKeeps ==
    ASSUME Typed, Careful, CarefulInv, NEW s \in Side, SendDirect(s)
    PROVE  CarefulInv'
<1> DEFINE p == Peer(s)
<1>0. /\ p \in Side /\ Peer(p) = s /\ p # s /\ s \in Procs /\ p \in Procs /\ At(s) = s
      /\ \A u \in Side : u = s \/ u = p
  BY Ends
<1>1. PICK type \in {"kexreply", "newkeys", "ext_info", "request_success", "unimplemented"} :
        Doing(s, type) /\ SendMessage(s, type, exchanged[s])
  BY DEF SendDirect
<1>2. Sent(s, type, exchanged[s]) /\ Counted(s)
  <2>1. exchanged[s] \in Nat \X Nat
    BY DEF Typed, Key
  <2>2. PICK a \in Nat, b \in Nat : exchanged[s] = <<a, b>>
    BY <2>1
  <2>3. exchanged[s] \in Seq(Nat)
    BY <2>2
  <2> QED
    BY <1>1, <2>3, Sending DEF Type, Payload
<1>3. /\ type \in Ahead(s) /\ Ahead(s)' = Ahead(s) \ {type}
      /\ \A r \in Procs : r # s => todo'[r] = todo[r]
  BY <1>0, <1>1, Going DEF SendDirect, Ahead
<1>4. OpeningOK(s) /\ SwitchingOK(s) /\ SentOK(s) /\ UseOK /\ SendingOK(s)
  BY <1>0 DEF CarefulInv, EndOK
<1>5. /\ SameKex(s) /\ SameKex(p)
      /\ clear_to_send' = clear_to_send /\ in_kex' = in_kex /\ scenario' = scenario
      /\ mine' = mine
  BY DEF SendDirect, kex, gate, keys, SameKex
<1>6. SameEnd(p)
  BY <1>0, <1>2, <1>3, <1>5 DEF SameEnd, Counted
<1>7. SameThreads
  BY <1>3, <1>5, Ends DEF SameThreads
<1>8. exchanged'[s] = exchanged[s]
  BY <1>5 DEF SameKex
<1>9. todo[s] \in SideTodo /\ todo[s] # <<>> /\ Head(todo[s]) = type /\ Ahead(s) = Range(todo[s])
  BY <1>1 DEF Doing, Typed, Ahead
<1>10. \/ /\ type \in {"kexreply", "newkeys", "ext_info"}
          /\ exchanged[s] # NoKey
          /\ "expect_newkeys" \in Ahead(s)
          /\ Ahead(s) \cap {"kexinit", "mark", "negotiate", "start_kex", "request_success"} = {}
       \/ /\ type \in {"request_success", "unimplemented"}
          /\ exchanged[s] = NoKey
          /\ Ahead(s) = {type}
  <2>1. CASE type \in {"kexreply", "newkeys", "ext_info"}
    BY <1>3, <1>4, <1>9, <2>1, SideTogether DEF SwitchingOK
  <2>2. CASE type \in {"request_success", "unimplemented"}
    <3>1. Ahead(s) = {type}
      BY <1>9, <2>2, LastSteps
    <3> QED
      BY <1>4, <2>2, <3>1 DEF SwitchingOK
  <2> QED
    BY <2>1, <2>2
<1>11. /\ type = "kexreply" => "newkeys" \in Ahead(s) /\ "activate" \in Ahead(s)
       /\ type = "newkeys" => "activate" \in Ahead(s)
       /\ type = "ext_info" => "activate" \notin Ahead(s) /\ "newkeys" \notin Ahead(s)
  BY <1>9, SideSwitching
<1>12. OpeningOK(s)'
  BY <1>3, <1>4, <1>5, <1>10 DEF OpeningOK, SameKex
<1>13. SwitchingOK(s)'
  <2>1. type = "ext_info" => need_rekey'[s] = need_rekey[s]
    BY <1>2, <1>3, <1>4, <1>11 DEF SwitchingOK, Counted
  <2> QED
    BY <1>3, <1>4, <1>5, <1>10, <1>11, <2>1 DEF SwitchingOK, SameKex
<1>14. SentOK(s)'
  <2>1. type \in Payload => ~Open(wire[p])
    <3>1. type \in Payload => type = "request_success"
      BY DEF Payload, Kind
    <3> QED
      BY <1>3, <3>1, RequestAfterKeys
  <2>2. type # "kexinit"
    OBVIOUS
  <2>3. exchanged[s] # NoKey /\ "newkeys" \notin Ahead(s)' /\ Open(wire'[p]) => FALSE
    BY <1>2, <1>3, <1>4, <1>10, <1>11 DEF Sent, SentOK
  <2> QED
    BY <1>2, <1>4, <1>5, <1>8, <2>1, <2>2, <2>3 DEF SentOK, Sent
<1>15. SendingOK(s)'
  BY <1>3, <1>10 DEF SendingOK
<1>16. UseOK'
  <2>1. ~scenario.auto => need_rekey'[s] = need_rekey[s]
    BY <1>2 DEF Counted
  <2>2. "kexinit" \notin Ahead(s)' /\ "request_success" \notin Ahead(s)'
    BY <1>3, <1>10
  <2>3. scenario.kinds \subseteq {"data"} => type # "request_success"
    BY <1>3, <1>4 DEF UseOK
  <2>4. scenario.kinds \subseteq {"data"} =>
          \A x \in Side : \A ty \in {"global_request", "request_success"} :
              Has(wire'[x], ty) => Has(wire[x], ty)
    BY <1>0, <1>2, <2>3 DEF Sent
  <2> QED
    BY <1>4, <1>6, <1>7, <2>1, <2>2, <2>4, UseKept
<1>17. Plain(s)
  <2>1. \A x \in Side :
              /\ Has(wire'[x], "kexinit") => Has(wire[x], "kexinit")
              /\ Has(wire'[x], "newkeys") => Has(wire[x], "newkeys") \/ Met(Peer(x))
              /\ Has(wire'[x], "global_request") => Has(wire[x], "global_request")
              /\ OneKexInit(wire[x]) => OneKexInit(wire'[x])
    <3>1. type = "newkeys" => Met(s)
      BY <1>4, <1>10 DEF SwitchingOK, Met
    <3> QED
      BY <1>0, <1>2, <3>1 DEF Sent
  <2>2. /\ "kexinit" \notin Ahead(s)' /\ "negotiate" \notin Ahead(s)'
        /\ "request_success" \notin Ahead(s)'
        /\ "activate" \in Ahead(s) => "activate" \in Ahead(s)'
        /\ Ahead(s) \subseteq IdleOps => Ahead(s)' \subseteq IdleOps
    BY <1>3, <1>10
  <2> QED
    BY <1>5, <1>6, <1>7, <2>1, <2>2 DEF Plain
<1>18. Rounds'
  BY <1>17, PlainKeeps DEF CarefulInv, Rounds
<1>19. \A t \in Threads : Home[t] = s /\ "kexinit" \in Ahead(t) => exchanged[s] = NoKey
  BY Ends DEF CarefulInv, SendingOK
<1>20. NothingAdded(s) /\ clear_to_send'[s] = clear_to_send[s]
  BY <1>2, <1>5 DEF Sent, NothingAdded
<1> QED
  BY <1>6, <1>7, <1>8, <1>12, <1>13, <1>14, <1>15, <1>16, <1>18, <1>19, <1>20, Together DEF EndOK

\* clear_to_send is cleared, in whatever thread.
LEMMA ClearKeeps ==
    ASSUME Typed, Careful, CarefulInv, NEW x \in Procs, Clear(x)
    PROVE  CarefulInv'
<1> DEFINE s == At(x)
           p == Peer(s)
<1>0. /\ s \in Side /\ p \in Side /\ Peer(p) = s /\ p # s /\ s \in Procs /\ p \in Procs
      /\ At(s) = s /\ \A u \in Side : u = s \/ u = p
  BY Ends
<1>1. /\ Ahead(x)' = Ahead(x) \ {"clear"}
      /\ \A r \in Procs : r # x => todo'[r] = todo[r] /\ Ahead(r)' = Ahead(r)
  BY Going DEF Clear, Ahead
<1>2. /\ SameKex(s) /\ SameKex(p) /\ in_kex' = in_kex /\ scenario' = scenario
      /\ mine' = mine /\ wire' = wire /\ need_rekey' = need_rekey /\ sent_packets' = sent_packets
  BY DEF Clear, kex, keys, count, SameKex
<1>3. ~clear_to_send'[s] /\ clear_to_send'[p] = clear_to_send[p]
  BY <1>0 DEF Clear, Typed
<1> HIDE DEF s, p
<1>4. \A r \in Procs : \A op : op # "clear" => (op \in Ahead(r)' <=> op \in Ahead(r))
  BY <1>1
<1>5. \A r \in Procs : SendingOK(r)'
  <2>1. SUFFICES ASSUME NEW r \in Procs PROVE SendingOK(r)'
    OBVIOUS
  <2>2. SendingOK(r) /\ At(r) \in Side
    BY Ends DEF CarefulInv
  <2>3. CASE At(r) = s
    BY <1>2, <1>3, <1>4, <2>2, <2>3 DEF SendingOK, SameKex
  <2>4. CASE At(r) = p
    <3>1. r # x
      BY <1>0, <2>4 DEF s
    <3> QED
      BY <1>1, <1>2, <1>3, <2>2, <2>4, <3>1 DEF SendingOK, SameKex
  <2> QED
    BY <1>0, <2>2, <2>3, <2>4
<1>6. ASSUME NEW u \in Side
      PROVE  EndOK(u)'
  <2>1. OpeningOK(u) /\ SwitchingOK(u) /\ SentOK(u) /\ SameKex(u) /\ u \in Procs
        /\ (clear_to_send'[u] => clear_to_send[u])
    BY <1>0, <1>2, <1>3, Ends DEF CarefulInv, EndOK
  <2>2. /\ \A op \in {"mark", "start_kex", "negotiate", "expect_newkeys", "activate",
                      "ext_info", "newkeys"} : op \in Ahead(u)' <=> op \in Ahead(u)
        /\ Ahead(u)' \subseteq Ahead(u)
    BY <1>1, <1>4, <2>1
  <2>3. OpeningOK(u)'
    <3>1. Ahead(u)' \cap {"mark", "negotiate"} = Ahead(u) \cap {"mark", "negotiate"}
      BY <2>2
    <3> QED
      BY <2>1, <2>2, <3>1 DEF OpeningOK, SameKex
  <2>4. SwitchingOK(u)'
    BY <1>2, <2>1, <2>2 DEF SwitchingOK, SameKex
  <2>5. SentOK(u)'
    BY <1>2, <2>1, <2>2 DEF SentOK, SameKex
  <2> QED
    BY <2>3, <2>4, <2>5 DEF EndOK
<1>7. \A t \in Threads : (todo[t] = <<>> <=> todo'[t] = <<>>) /\ (todo[t] # <<"await">> \/ t # x)
       /\ (todo'[t] = <<"await">> <=> todo[t] = <<"await">>)
  <2>1. SUFFICES ASSUME NEW t \in Threads, t = x
                 PROVE  /\ todo[t] # <<>> /\ todo'[t] # <<>>
                        /\ todo[t] # <<"await">> /\ todo'[t] # <<"await">>
    BY <1>1, Ends
  <2>2. todo[t] \in CallerTodo /\ todo[t] # <<>> /\ Head(todo[t]) = "clear"
        /\ todo'[t] = Tail(todo[t])
    BY <2>1, Going DEF Typed, Clear, Doing
  <2>3. todo[t] = <<"clear", "mark", "kexinit", "await">>
    BY <2>2, TailIs DEF CallerTodo, KexInitThen
  <2> QED
    BY <2>2, <2>3, TailIs
<1>8. scenario.callers \subseteq Threads
  BY RekeyAssumption DEF Typed, Scenario
<1>9. UseOK'
  BY <1>0, <1>2, <1>4, <1>7, Ends DEF CarefulInv, UseOK
<1>10. /\ First' <=> First
       /\ \A t \in Threads : Second(t)' <=> Second(t)
  <2>1. First' <=> First
    BY <1>2, <1>4, <1>7, <1>8, Ends DEF First
  <2> QED
    BY <1>2, <1>7, <2>1 DEF Second
<1>11. ASSUME NEW u \in Side
       PROVE  /\ FirstOf(u) => FirstOf(u)'
              /\ scenario.callers # {} /\ OneRound(u) => OneRound(u)'
              /\ Idle(u) => Idle(u)'
  <2>1. /\ SameKex(u) /\ SameKex(Peer(u)) /\ u \in Procs /\ Peer(u) \in Side /\ Peer(u) \in Procs
    BY <1>0, <1>2, Ends
  <2>2. /\ \A op : op # "clear" => (op \in Ahead(u)' <=> op \in Ahead(u))
        /\ \A op : op # "clear" => (op \in Ahead(Peer(u))' <=> op \in Ahead(Peer(u)))
    BY <1>4, <2>1
  <2>3. Ahead(u)' \subseteq Ahead(u)
    BY <1>1, <2>1
  <2>4. Idle(u) => Idle(u)'
    BY <2>1, <2>3 DEF Idle, SameKex
  <2>5. FirstOf(u) => FirstOf(u)'
    BY <1>2, <2>1, <2>2, <2>4 DEF FirstOf, Met, SameKex
  <2>6. scenario.callers # {} /\ OneRound(u) => OneRound(u)'
    BY <1>2, <2>1, <2>2 DEF OneRound, Answers, SameKex
  <2> QED
    BY <2>4, <2>5, <2>6
<1>12. FirstOK'
  <2>1. SUFFICES ASSUME First PROVE FirstOK'
    BY <1>10 DEF FirstOK
  <2>2. \A u \in Side : FirstOf(u)'
    BY <1>11, <2>1 DEF CarefulInv, FirstOK
  <2>3. ASSUME NEW t \in scenario.callers, "kexinit" \in Ahead(t)'
        PROVE  /\ in_key'[Home[t]] # NoKey
               /\ ~completion'[Home[t]]
               /\ "mark" \notin Ahead(t)' => local_kex_init'[Home[t]] = mine'[t]
    <3>1. SameKex(Home[t]) /\ t \in Procs
      BY <1>0, <1>2, <1>8, Ends
    <3> QED
      BY <1>2, <1>4, <2>1, <2>3, <3>1 DEF CarefulInv, FirstOK, SameKex
  <2> QED
    BY <1>2, <2>2, <2>3 DEF FirstOK
<1>13. ASSUME NEW t \in Threads, Second(t)
       PROVE  OwnOK(t)'
  <2>1. SameKex(Home[t]) /\ Home[t] \in Side /\ Home[t] \in Procs /\ OwnOK(t)
        /\ scenario.callers # {}
    BY <1>0, <1>2, <1>13, Ends DEF CarefulInv, Second
  <2> QED
    BY <1>2, <1>4, <1>11, <2>1 DEF OwnOK, OwnPart, SameKex
<1>14. \A u \in Side : EndOK(u)'
  BY <1>6
<1>15. \A t \in Threads : Second(t)' => OwnOK(t)'
  BY <1>10, <1>13
<1> QED
  BY <1>5, <1>9, <1>12, <1>14, <1>15 DEF CarefulInv

\* A step in an exchange of end s that makes neither KEXINIT nor NEWKEYS.
Busy(s) ==
    /\ SameEnd(Peer(s)) /\ SameThreads
    /\ local_kex_init'[s] = local_kex_init[s] /\ remote_kex_init'[s] = remote_kex_init[s]
    /\ completion'[s] = completion[s] /\ in_key'[s] = in_key[s]
    /\ ~Idle(s)
    /\ Ahead(s)' \cap {"kexinit", "negotiate", "request_success"} = {}
    /\ \/ exchanged'[s] = NoKey
       \/ /\ exchanged'[s] = exchanged[s]
          /\ "activate" \notin Ahead(s)' =>
               \/ "activate" \notin Ahead(s) /\ out_key'[s] = out_key[s]
               \/ out_key'[s] = exchanged[s]
       \/ exchanged'[s][OwnPart(s)] = local_kex_init[s] /\ "activate" \in Ahead(s)'
    /\ \A x \in Side :
         /\ \A ty \in {"kexinit", "newkeys", "global_request"} :
              Has(wire'[x], ty) => Has(wire[x], ty)
         /\ OneKexInit(wire[x]) => OneKexInit(wire'[x])

\* Such a step does not disturb the count of exchanges either.
LEMMA BusyKeeps ==
    ASSUME Typed, Rounds, NEW s \in Side, Busy(s)
    PROVE  Rounds'
<1> DEFINE p == Peer(s)
<1>0. p \in Side /\ Peer(p) = s /\ p # s /\ \A u \in Side : u = s \/ u = p
  BY Ends
<1>1. scenario.callers \subseteq Threads
  BY RekeyAssumption DEF Typed, Scenario
<1>2. /\ First' <=> First
      /\ \A t \in Threads : Second(t)' <=> Second(t)
      /\ \A t \in Threads : Ahead(t)' = Ahead(t)
      /\ scenario' = scenario
      /\ \A t \in Threads : mine'[t] = mine[t]
  BY <1>1, ModesKept DEF Busy, SameThreads
<1>3. SameKex(p) /\ Ahead(p)' = Ahead(p)
  BY DEF Busy, SameEnd, Ahead
<1>4. ASSUME First
      PROVE  FirstOK'
  <2>1. FirstOf(s) /\ FirstOf(p)
    BY <1>0, <1>4 DEF Rounds, FirstOK
  <2>2. FirstOf(s)'
    BY <1>0, <1>3, <2>1 DEF FirstOf, Busy, SameKex, Met
  <2>3. FirstOf(p)'
    BY <1>0, <1>3, <2>1 DEF FirstOf, Busy, SameKex, Idle, Met
  <2>4. \A u \in Side : FirstOf(u)'
    BY <1>0, <2>2, <2>3
  <2>5. \A t \in scenario.callers :
            "kexinit" \in Ahead(t) =>
              /\ in_key'[Home[t]] # NoKey
              /\ ~completion'[Home[t]]
              /\ "mark" \notin Ahead(t) => local_kex_init'[Home[t]] = mine[t]
    BY <1>0, <1>1, <1>3, <1>4, Ends DEF Busy, SameKex, Rounds, FirstOK
  <2> QED
    BY <1>1, <1>2, <2>4, <2>5 DEF FirstOK
<1>5. ASSUME NEW t \in Threads, Second(t)
      PROVE  OwnOK(t)'
  <2>1. OwnOK(t) /\ scenario.callers # {}
    BY <1>5 DEF Rounds, Second
  <2>2. CASE Home[t] = s
    <3>1. OneRound(s)'
      BY <1>0, <1>3, <2>1, <2>2 DEF OwnOK, OneRound, Answers, Busy, SameKex
    <3>2. ~completion[s] /\ ~completion'[s] /\ local_kex_init[s] = mine[t]
      BY <2>1, <2>2 DEF OwnOK, Busy
    <3> QED
      BY <1>2, <2>1, <2>2, <3>1, <3>2 DEF OwnOK, Busy
  <2>3. CASE Home[t] = p
    <3>1. OneRound(p)'
      BY <1>0, <1>3, <2>1, <2>3 DEF OwnOK, OneRound, Answers, Busy, SameKex
    <3> QED
      BY <1>2, <1>3, <2>1, <2>3, <3>1 DEF OwnOK, SameKex, Idle, OwnPart
  <2> QED
    BY <2>2, <2>3, <1>0, Ends
<1>6. ~First => FirstOK'
  BY <1>2 DEF FirstOK
<1> QED
  BY <1>2, <1>4, <1>5, <1>6 DEF Rounds

\* kex_engine.start_kex
LEMMA StartKexKeeps ==
    ASSUME Typed, Careful, CarefulInv, NEW s \in Side, StartKex(s)
    PROVE  CarefulInv'
<1> DEFINE p == Peer(s)
<1>0. /\ p \in Side /\ Peer(p) = s /\ p # s /\ s \in Procs /\ p \in Procs
      /\ \A u \in Side : u = s \/ u = p
  BY Ends
<1>1. Ahead(s) = {"start_kex"}
  BY LastSteps DEF StartKex, Doing, Ahead, Typed
<1>2. Ahead(s)' = {} /\ \A r \in Procs : r # s => todo'[r] = todo[r]
  BY <1>0, <1>1, Going DEF StartKex, Ahead
<1>3. OpeningOK(s) /\ SwitchingOK(s) /\ SentOK(s) /\ UseOK
  BY DEF CarefulInv, EndOK
<1>4. local_kex_init[s] # 0 /\ remote_kex_init[s] # 0 /\ exchanged[s] = NoKey
  BY <1>1, <1>3 DEF OpeningOK, SwitchingOK
<1>5. /\ kex' = kex /\ completion' = completion /\ keys' = keys /\ gate' = gate
      /\ scenario' = scenario /\ mine' = mine
      /\ expected'[p] = expected[p]
  BY <1>0 DEF StartKex, Typed
<1>6. /\ wire'[s] = wire[s]
      /\ \A ty \in {"kexinit", "newkeys", "global_request", "request_success"} :
            Has(wire'[p], ty) => Has(wire[p], ty)
      /\ OneKexInit(wire[p]) => OneKexInit(wire'[p])
      /\ Quiet(wire[p]) => Quiet(wire'[p])
      /\ Numbers(wire[p]) => Numbers(wire'[p])
      /\ Open(wire'[p]) => Open(wire[p])
      /\ need_rekey'[p] = need_rekey[p] /\ sent_packets'[p] = sent_packets[p]
      /\ ~scenario.auto => need_rekey'[s] = need_rekey[s]
  <2>1. CASE SendMessage(s, "kexdh", <<>>)
    <3>1. <<>> \in Seq(Nat) /\ "kexdh" \in Type /\ "kexdh" \notin Payload
      BY DEF Type, Payload, Kind
    <3>2. Sent(s, "kexdh", <<>>) /\ Counted(s)
      BY <2>1, <3>1, Sending
    <3> QED
      BY <3>1, <3>2 DEF Sent, Counted
  <2>2. CASE UNCHANGED <<wire, count>>
    BY <2>2 DEF count
  <2> QED
    BY <2>1, <2>2 DEF StartKex
<1>7. /\ SameKex(p) /\ clear_to_send' = clear_to_send /\ in_kex' = in_kex
      /\ local_kex_init'[s] = local_kex_init[s] /\ remote_kex_init'[s] = remote_kex_init[s]
      /\ completion'[s] = completion[s] /\ in_key'[s] = in_key[s] /\ exchanged'[s] = exchanged[s]
      /\ out_key'[s] = out_key[s]
  BY <1>5 DEF SameKex, kex, keys, gate
<1>8. SameEnd(p)
  BY <1>0, <1>2, <1>5, <1>6, <1>7 DEF SameEnd
<1>9. SameThreads
  BY <1>2, <1>5, Ends DEF SameThreads
<1>10. OpeningOK(s)'
  BY <1>2, <1>3, <1>4, <1>7 DEF OpeningOK
<1>11. SwitchingOK(s)'
  BY <1>2, <1>3, <1>4, <1>7 DEF SwitchingOK
<1>12. SentOK(s)'
  BY <1>3, <1>4, <1>6, <1>7 DEF SentOK
<1>13. SendingOK(s)'
  BY <1>2 DEF SendingOK
<1>14. UseOK'
  BY <1>0, <1>2, <1>3, <1>6, <1>8, <1>9, UseKept
<1>15. Busy(s)
  <2>1. ~Idle(s)
    BY <1>1 DEF Idle
  <2> QED
    BY <1>0, <1>2, <1>4, <1>6, <1>7, <1>8, <1>9, <2>1 DEF Busy
<1>16. Rounds'
  BY <1>15, BusyKeeps DEF CarefulInv, Rounds
<1>17. NothingAdded(s) /\ exchanged'[s] = NoKey /\ clear_to_send'[s] = clear_to_send[s]
  BY <1>4, <1>6, <1>7 DEF NothingAdded
<1> QED
  BY <1>8, <1>9, <1>10, <1>11, <1>12, <1>13, <1>14, <1>16, <1>17, Together DEF EndOK

\* The engine has made the keys.
LEMMA KeysMade ==
    ASSUME Typed, Careful, CarefulInv, NEW s \in Side, NEW ty \in {"kexdh", "kexreply"},
           NEW ops \in {<<"kexreply", "newkeys", "activate", "ext_info", "expect_newkeys">>,
                        <<"newkeys", "activate", "expect_newkeys">>},
           ReadThen(s, ty, ops), expected[s] # {},
           exchanged' = [exchanged EXCEPT ![s] = ExchangeHash(s)],
           expected' = [expected EXCEPT ![s] = {}],
           UNCHANGED <<scenario, gate, local_kex_init, remote_kex_init, completion, keys, mine>>
    PROVE  CarefulInv'
<1> DEFINE p == Peer(s)
<1>0. /\ p \in Side /\ Peer(p) = s /\ p # s /\ s \in Procs /\ p \in Procs
      /\ \A u \in Side : u = s \/ u = p
  BY Ends
<1>1. Taking(s, ty)
  BY Reading DEF ReadThen
<1>2. todo'[s] = ops /\ \A r \in Procs : r # s => todo'[r] = todo[r]
  <2>1. ops \in SideTodo
    BY OpsTyped
  <2> QED
    BY <2>1, <1>0, TodoChanged, Ends DEF ReadThen
<1>3. /\ {"newkeys", "activate", "expect_newkeys"} \subseteq Ahead(s)'
      /\ Ahead(s)' \cap {"kexinit", "mark", "negotiate", "start_kex", "request_success"} = {}
  <2>1. CASE ops = <<"kexreply", "newkeys", "activate", "ext_info", "expect_newkeys">>
    <3>1. Ahead(s)' = {"kexreply", "newkeys", "activate", "ext_info", "expect_newkeys"}
      BY <1>2, <2>1, RangeIs DEF Ahead
    <3> QED
      BY <3>1
  <2>2. CASE ops = <<"newkeys", "activate", "expect_newkeys">>
    <3>1. Ahead(s)' = {"newkeys", "activate", "expect_newkeys"}
      BY <1>2, <2>2, RangeIs DEF Ahead
    <3> QED
      BY <3>1
  <2> QED
    BY <2>1, <2>2
<1>4. OpeningOK(s) /\ SwitchingOK(s) /\ SentOK(s) /\ UseOK
  BY DEF CarefulInv, EndOK
<1>5. /\ Ahead(s) = {"read"} /\ ty \in expected[s]
      /\ local_kex_init[s] # 0 /\ remote_kex_init[s] # 0 /\ exchanged[s] = NoKey
  <2>1. Ahead(s) = {"read"} /\ ty \in expected[s]
    BY <1>1 DEF Taking
  <2>2. exchanged[s] = NoKey
    BY <1>4, <2>1 DEF SwitchingOK
  <2> QED
    BY <1>4, <2>1, <2>2 DEF OpeningOK
<1>6. /\ SameKex(p) /\ clear_to_send' = clear_to_send /\ in_kex' = in_kex /\ scenario' = scenario
      /\ mine' = mine
      /\ local_kex_init'[s] = local_kex_init[s] /\ remote_kex_init'[s] = remote_kex_init[s]
      /\ completion'[s] = completion[s] /\ in_key'[s] = in_key[s]
      /\ exchanged'[s] = ExchangeHash(s) /\ expected'[s] = {}
  BY <1>0 DEF SameKex, gate, keys, Typed
<1>7. exchanged'[s] # NoKey /\ exchanged'[s][OwnPart(s)] = local_kex_init[s]
  BY <1>5, <1>6 DEF ExchangeHash, NoKey, OwnPart
<1>8. /\ need_rekey'[p] = need_rekey[p] /\ sent_packets' = sent_packets
      /\ ~scenario.auto => need_rekey'[s] = need_rekey[s]
  BY RekeyAssumption, CountTyped DEF ReadThen
<1>9. SameEnd(p)
  BY <1>0, <1>2, <1>6, <1>8 DEF SameEnd
<1>10. SameThreads
  BY <1>2, <1>6, Ends DEF SameThreads
<1>11. wire'[p] = wire[p] /\ NothingAdded(s)
  BY <1>1 DEF Taking, ReadThen, Reads, Typed, NothingAdded
<1>12. OpeningOK(s)'
  BY <1>3, <1>4, <1>5, <1>6 DEF OpeningOK
<1>13. SwitchingOK(s)'
  BY <1>3, <1>4, <1>5, <1>6, <1>7 DEF SwitchingOK
<1>14. SentOK(s)'
  BY <1>3, <1>4, <1>6, <1>11 DEF SentOK
<1>15. SendingOK(s)'
  BY <1>3 DEF SendingOK
<1>16. \A x \in Side : \A k : Has(wire'[x], k) => Has(wire[x], k)
  BY <1>0, <1>1 DEF Taking
<1>17. \A x \in Side : OneKexInit(wire[x]) => OneKexInit(wire'[x])
  BY <1>0, <1>1 DEF Taking
<1>18. UseOK'
  BY <1>3, <1>4, <1>8, <1>9, <1>10, <1>16, UseKept
<1>19. Busy(s)
  <2>1. ~Idle(s)
    BY <1>5 DEF Idle
  <2> QED
    BY <1>3, <1>6, <1>7, <1>9, <1>10, <1>16, <1>17, <2>1 DEF Busy
<1>20. Rounds'
  BY <1>19, BusyKeeps DEF CarefulInv, Rounds
<1>21. \A t \in Threads : ~(Home[t] = s /\ "kexinit" \in Ahead(t))
  BY <1>5, CallerWaits DEF Idle
<1> QED
  BY <1>9, <1>10, <1>11, <1>12, <1>13, <1>14, <1>15, <1>18, <1>20, <1>21, Together DEF EndOK

\* kex_engine.parse_next
LEMMA KexReadKeeps ==
    ASSUME Typed, Careful, CarefulInv, NEW s \in Side, ReadKexDh(s) \/ ReadKexReply(s)
    PROVE  CarefulInv'
<1>1. CASE ReadKexDh(s)
  BY <1>1, KeysMade DEF ReadKexDh
<1>2. CASE ReadKexReply(s)
  BY <1>2, KeysMade DEF ReadKexReply
<1> QED
  BY <1>1, <1>2

\* The second half of _activate_outbound.
LEMMA ActivateKeeps ==
    ASSUME Typed, Careful, CarefulInv, NEW s \in Side, ActivateOutbound(s)
    PROVE  CarefulInv'
<1> DEFINE p == Peer(s)
           need == NeedAfter(s, "out", need_rekey[s])
<1>0. /\ p \in Side /\ Peer(p) = s /\ p # s /\ s \in Procs /\ p \in Procs
      /\ \A u \in Side : u = s \/ u = p
  BY Ends
<1>1. /\ Ahead(s)' = Ahead(s) \ {"activate"} /\ "activate" \in Ahead(s)
      /\ \A r \in Procs : r # s => todo'[r] = todo[r]
  BY <1>0, Going DEF ActivateOutbound, Ahead
<1>2. OpeningOK(s) /\ SwitchingOK(s) /\ SentOK(s) /\ UseOK
  BY DEF CarefulInv, EndOK
<1>3. /\ "expect_newkeys" \in Ahead(s) /\ "newkeys" \notin Ahead(s) /\ exchanged[s] # NoKey
      /\ Ahead(s) \cap {"kexinit", "mark", "negotiate", "start_kex", "request_success"} = {}
  <2>1. "expect_newkeys" \in Ahead(s) /\ "newkeys" \notin Ahead(s)
    BY SideSwitching DEF ActivateOutbound, Doing, Ahead, Typed
  <2> QED
    BY <1>2, <2>1, SideTogether DEF SwitchingOK, Ahead, Typed
<1>4. /\ kex' = kex /\ completion' = completion /\ clear_to_send' = clear_to_send
      /\ scenario' = scenario /\ mine' = mine /\ wire' = wire /\ expected' = expected
      /\ in_key' = in_key
  BY DEF ActivateOutbound
<1>5. /\ out_key'[s] = exchanged[s] /\ out_key'[p] = out_key[p]
      /\ sent_packets'[s] = 0 /\ sent_packets'[p] = sent_packets[p]
      /\ need_rekey'[s] = need /\ need_rekey'[p] = need_rekey[p]
      /\ in_kex'[s] = (in_kex[s] /\ need) /\ in_kex'[p] = in_kex[p]
  BY <1>0 DEF ActivateOutbound, Typed
<1>6. /\ need \in BOOLEAN /\ (need => need_rekey[s])
      /\ need_rekey[s] \in BOOLEAN
  BY DEF NeedAfter, Typed
<1> HIDE DEF need
<1>7. /\ SameKex(p)
      /\ local_kex_init'[s] = local_kex_init[s] /\ remote_kex_init'[s] = remote_kex_init[s]
      /\ completion'[s] = completion[s] /\ in_key'[s] = in_key[s] /\ exchanged'[s] = exchanged[s]
      /\ expected'[s] = expected[s]
  BY <1>4, <1>5 DEF SameKex, kex
<1>8. SameEnd(p)
  BY <1>0, <1>1, <1>4, <1>5, <1>7 DEF SameEnd
<1>9. SameThreads
  BY <1>1, <1>4, Ends DEF SameThreads
<1>10. OpeningOK(s)'
  BY <1>1, <1>2, <1>3, <1>4, <1>7 DEF OpeningOK
<1>11. SwitchingOK(s)'
  <2>1. in_kex[s]
    BY <1>1, <1>2, <1>3 DEF SwitchingOK
  <2>2. in_kex'[s] \/ ~need_rekey'[s]
    BY <1>5, <1>6, <2>1
  <2> QED
    BY <1>1, <1>2, <1>3, <1>5, <1>7, <2>2 DEF SwitchingOK
<1>12. SentOK(s)'
  BY <1>1, <1>2, <1>3, <1>4, <1>7 DEF SentOK
<1>13. SendingOK(s)'
  BY <1>1, <1>3 DEF SendingOK
<1>14. UseOK'
  <2>1. ~scenario.auto => need_rekey'[s] = need_rekey[s]
    BY <1>2, <1>5, <1>6 DEF UseOK
  <2> QED
    BY <1>1, <1>2, <1>3, <1>4, <1>8, <1>9, <2>1, UseKept
<1>15. Busy(s)
  <2>1. ~Idle(s)
    BY <1>3 DEF Idle
  <2> QED
    BY <1>1, <1>3, <1>4, <1>5, <1>7, <1>8, <1>9, <2>1 DEF Busy
<1>16. Rounds'
  BY <1>15, BusyKeeps DEF CarefulInv, Rounds
<1>17. \A t \in Threads : Home[t] = s /\ "kexinit" \in Ahead(t) => exchanged[s] = NoKey
  BY Ends DEF CarefulInv, SendingOK
<1>18. NothingAdded(s) /\ exchanged'[s] = exchanged[s] /\ clear_to_send'[s] = clear_to_send[s]
  BY <1>4, <1>7 DEF NothingAdded
<1> QED
  BY <1>8, <1>9, <1>10, <1>11, <1>12, <1>13, <1>14, <1>16, <1>17, <1>18, Together DEF EndOK

\* _expect_packet
LEMMA ExpectKeeps ==
    ASSUME Typed, Careful, CarefulInv, NEW s \in Side, Expect(s)
    PROVE  CarefulInv'
<1> DEFINE p == Peer(s)
<1>0. /\ p \in Side /\ Peer(p) = s /\ p # s /\ s \in Procs /\ p \in Procs
      /\ \A u \in Side : u = s \/ u = p
  BY Ends
<1>1. PICK op \in {"expect_kexinit", "expect_newkeys"} :
        /\ Doing(s, op)
        /\ expected' = [expected EXCEPT ![s] =
             IF op = "expect_kexinit" THEN {"kexinit"} ELSE {"newkeys"}]
  BY DEF Expect
<1>2. Ahead(s) = {op}
  BY <1>1, LastSteps DEF Doing, Ahead, Typed
<1>3. Ahead(s)' = {} /\ \A r \in Procs : r # s => todo'[r] = todo[r]
  BY <1>0, <1>1, <1>2, Going DEF Expect, Ahead
<1>4. OpeningOK(s) /\ SwitchingOK(s) /\ SentOK(s) /\ UseOK
  BY DEF CarefulInv, EndOK
<1>5. exchanged[s] # NoKey <=> op = "expect_newkeys"
  BY <1>2, <1>4 DEF SwitchingOK
<1>6. /\ kex' = kex /\ completion' = completion /\ keys' = keys /\ gate' = gate
      /\ scenario' = scenario /\ mine' = mine /\ wire' = wire /\ count' = count
      /\ expected'[p] = expected[p]
      /\ expected'[s] = IF op = "expect_kexinit" THEN {"kexinit"} ELSE {"newkeys"}
  BY <1>0, <1>1 DEF Expect, Typed
<1>7. /\ SameKex(p) /\ clear_to_send' = clear_to_send /\ in_kex' = in_kex
      /\ need_rekey' = need_rekey /\ sent_packets' = sent_packets
      /\ local_kex_init'[s] = local_kex_init[s] /\ remote_kex_init'[s] = remote_kex_init[s]
      /\ completion'[s] = completion[s] /\ in_key'[s] = in_key[s] /\ exchanged'[s] = exchanged[s]
      /\ out_key'[s] = out_key[s]
  BY <1>6 DEF SameKex, kex, keys, gate, count
<1>8. SameEnd(p)
  BY <1>0, <1>3, <1>6, <1>7 DEF SameEnd
<1>9. SameThreads
  BY <1>3, <1>6, Ends DEF SameThreads
<1>10. OpeningOK(s)'
  BY <1>2, <1>3, <1>4, <1>6, <1>7 DEF OpeningOK
<1>11. SwitchingOK(s)'
  BY <1>2, <1>3, <1>4, <1>5, <1>6, <1>7 DEF SwitchingOK
<1>12. SentOK(s)'
  BY <1>2, <1>3, <1>4, <1>6, <1>7 DEF SentOK
<1>13. SendingOK(s)'
  BY <1>3 DEF SendingOK
<1>14. UseOK'
  BY <1>3, <1>4, <1>6, <1>7, <1>8, <1>9, UseKept
<1>15. Busy(s)
  <2>1. ~Idle(s)
    BY <1>2 DEF Idle
  <2> QED
    BY <1>2, <1>3, <1>6, <1>7, <1>8, <1>9, <2>1 DEF Busy
<1>16. Rounds'
  BY <1>15, BusyKeeps DEF CarefulInv, Rounds
<1>17. \A t \in Threads : Home[t] = s /\ "kexinit" \in Ahead(t) => exchanged[s] = NoKey
  BY Ends DEF CarefulInv, SendingOK
<1>18. NothingAdded(s) /\ exchanged'[s] = exchanged[s] /\ clear_to_send'[s] = clear_to_send[s]
  BY <1>6, <1>7 DEF NothingAdded
<1> QED
  BY <1>8, <1>9, <1>10, <1>11, <1>12, <1>13, <1>14, <1>16, <1>17, <1>18, Together DEF EndOK

\* "remote side wants to renegotiate"
LEMMA NegotiateKeeps ==
    ASSUME Typed, Careful, CarefulInv, NEW s \in Side, Negotiate(s)
    PROVE  CarefulInv'
<1> DEFINE p == Peer(s)
           q == IF local_kex_init[s] = 0
                THEN <<"clear", "mark", "kexinit", "start_kex">> ELSE <<"start_kex">>
<1>0. /\ p \in Side /\ Peer(p) = s /\ p # s /\ s \in Procs /\ p \in Procs /\ At(s) = s
      /\ \A u \in Side : u = s \/ u = p
  BY Ends
<1>1. Ahead(s) = {"negotiate", "start_kex"} /\ todo' = [todo EXCEPT ![s] = q]
  BY NegotiateTodo
<1>2. OpeningOK(s) /\ SwitchingOK(s) /\ SentOK(s) /\ UseOK
  BY DEF CarefulInv, EndOK
<1>3. UNCHANGED <<scenario, wire, gate, kex, expected, completion, keys, count, mine>>
  BY DEF Negotiate
<1>4. q \in SideTodo /\ Range(q) = IF local_kex_init[s] = 0
        THEN {"clear", "mark", "kexinit", "start_kex"} ELSE {"start_kex"}
  <2>1. Range(<<"clear", "mark", "kexinit", "start_kex">>)
          = {"clear", "mark", "kexinit", "start_kex"}
    BY RangeIs
  <2>2. Range(<<"start_kex">>) = {"start_kex"}
    BY RangeIs
  <2>3. CASE local_kex_init[s] = 0
    BY <2>1, <2>3, OpsTyped
  <2>4. CASE local_kex_init[s] # 0
    BY <2>2, <2>4, OpsTyped
  <2> QED
    BY <2>3, <2>4
<1> HIDE DEF q
<1>5. /\ SameKex(s) /\ SameEnd(p) /\ SameThreads /\ NothingAdded(s)
      /\ Ahead(s)' = Range(q)
      /\ wire' = wire /\ need_rekey' = need_rekey /\ in_kex' = in_kex
      /\ clear_to_send' = clear_to_send /\ sent_packets' = sent_packets
      /\ mine' = mine /\ scenario' = scenario
  BY <1>1, <1>3, <1>4, OnlyTodo
<1>6. exchanged[s] = NoKey /\ exchanged'[s] = NoKey /\ remote_kex_init[s] # 0
  BY <1>1, <1>2, <1>5 DEF SwitchingOK, OpeningOK, SameKex
<1>7. OpeningOK(s)'
  BY <1>1, <1>2, <1>4, <1>5 DEF OpeningOK, SameKex
<1>8. SwitchingOK(s)'
  BY <1>2, <1>4, <1>5, <1>6 DEF SwitchingOK, SameKex
<1>9. SentOK(s)'
  BY <1>2, <1>5, <1>6, SentKept
<1>10. SendingOK(s)'
  BY <1>0, <1>4, <1>5, <1>6 DEF SendingOK
<1>11. UseOK'
  BY <1>2, <1>4, <1>5, UseKept
<1>12. scenario.callers \subseteq Threads
  BY RekeyAssumption DEF Typed, Scenario
<1>13. /\ First' <=> First
       /\ \A t \in Threads : Second(t)' <=> Second(t)
       /\ \A t \in Threads : Ahead(t)' = Ahead(t)
  BY <1>5, <1>12, ModesKept
<1>14. SameKex(p) /\ Ahead(p)' = Ahead(p)
  BY <1>5 DEF SameEnd, Ahead
<1>15. ASSUME First
       PROVE  FirstOK'
  <2>1. FirstOf(s) /\ FirstOf(p)
    BY <1>0, <1>15 DEF CarefulInv, FirstOK
  <2>2. Ahead(s)' = {"start_kex"}
    BY <1>1, <1>4, <1>5, <2>1 DEF FirstOf
  <2>3. ~Idle(s) /\ Ahead(s)' = {"start_kex"}
    BY <1>1, <2>2 DEF Idle
  <2>4. FirstOf(s)'
    BY <1>0, <1>5, <1>14, <2>1, <2>3 DEF FirstOf, SameKex, Met
  <2>5. FirstOf(p)'
    BY <1>0, <1>5, <1>14, <2>1, <2>3 DEF FirstOf, SameKex, Idle, Met
  <2>6. \A u \in Side : FirstOf(u)'
    BY <1>0, <2>4, <2>5
  <2>7. \A t \in scenario.callers :
            "kexinit" \in Ahead(t) =>
              /\ in_key'[Home[t]] # NoKey
              /\ ~completion'[Home[t]]
              /\ "mark" \notin Ahead(t) => local_kex_init'[Home[t]] = mine[t]
    BY <1>0, <1>5, <1>12, <1>14, <1>15, Ends DEF SameKex, CarefulInv, FirstOK
  <2> QED
    BY <1>5, <1>12, <1>13, <2>6, <2>7 DEF FirstOK
<1>16. ASSUME NEW t \in Threads, Second(t)
       PROVE  OwnOK(t)'
  <2>1. OwnOK(t) /\ scenario.callers # {}
    BY <1>16 DEF CarefulInv, Second
  <2>2. CASE Home[t] = s
    <3>1. local_kex_init[s] # 0 /\ ~completion[s]
      BY <1>1, <1>6, <2>1, <2>2 DEF OwnOK, OneRound, Answers, Idle
    <3>2. Ahead(s)' = {"start_kex"}
      BY <1>4, <1>5, <3>1
    <3>3. OneRound(s)'
      BY <1>0, <1>5, <1>14, <2>1, <2>2, <3>2 DEF OwnOK, OneRound, Answers, SameKex
    <3> QED
      BY <1>5, <1>6, <2>1, <2>2, <3>1, <3>3 DEF OwnOK, SameKex
  <2>3. CASE Home[t] = p
    <3>1. Answers(s)' => Answers(s)
      BY <1>1, <1>4, <1>5 DEF Answers, SameKex
    <3>2. OneRound(p)'
      BY <1>0, <1>5, <1>14, <2>1, <2>3, <3>1 DEF OwnOK, OneRound, Answers, SameKex
    <3> QED
      BY <1>5, <1>14, <2>1, <2>3, <3>2 DEF OwnOK, SameKex, Idle, OwnPart
  <2> QED
    BY <2>2, <2>3, <1>0, Ends
<1>17. Rounds'
  BY <1>13, <1>15, <1>16 DEF Rounds, FirstOK
<1> QED
  BY <1>5, <1>6, <1>7, <1>8, <1>9, <1>10, <1>11, <1>17, Together DEF EndOK

\* The invariant keeps its rounds after a step that leaves the threads alone.
LEMMA RoundsKept ==
    ASSUME Typed, NEW s \in Side, SameThreads,
           First => FirstOf(s)' /\ FirstOf(Peer(s))',
           First => \A t \in scenario.callers : "kexinit" \in Ahead(t) =>
              /\ in_key'[Home[t]] # NoKey
              /\ ~completion'[Home[t]]
              /\ "mark" \notin Ahead(t) => local_kex_init'[Home[t]] = mine[t],
           \A t \in Threads : Second(t) => OwnOK(t)'
    PROVE  Rounds'
<1>1. scenario.callers \subseteq Threads
  BY RekeyAssumption DEF Typed, Scenario
<1>2. /\ First' <=> First
      /\ \A t \in Threads : Second(t)' <=> Second(t)
      /\ \A t \in Threads : Ahead(t)' = Ahead(t)
      /\ scenario' = scenario
      /\ \A t \in Threads : mine'[t] = mine[t]
  BY <1>1, ModesKept DEF SameThreads
<1>3. First => \A u \in Side : FirstOf(u)'
  BY Ends
<1>4. FirstOK'
  BY <1>1, <1>2, <1>3 DEF FirstOK
<1> QED
  BY <1>2, <1>4 DEF Rounds

\* The peer's KEXINIT is read.  In the first exchange it is the only one; in
\* the second one it is the caller's, or the answer to it.
LEMMA ReadKexInitKeeps ==
    ASSUME Typed, Careful, CarefulInv, NEW s \in Side, ReadKexInit(s)
    PROVE  CarefulInv'
<1> DEFINE p == Peer(s)
<1>0. /\ p \in Side /\ Peer(p) = s /\ p # s /\ s \in Procs /\ p \in Procs /\ At(s) = s
      /\ \A u \in Side : u = s \/ u = p
  BY Ends
<1>1. ReadThen(s, "kexinit", <<"clear", "negotiate", "start_kex">>)
  BY DEF ReadKexInit
<1>2. Taking(s, "kexinit")
  BY <1>1, Reading DEF ReadThen
<1>3. /\ todo'[s] = <<"clear", "negotiate", "start_kex">>
      /\ \A r \in Procs : r # s => todo'[r] = todo[r]
  <2>1. todo' = [todo EXCEPT ![s] = <<"clear", "negotiate", "start_kex">>]
    BY <1>1 DEF ReadThen
  <2>2. <<"clear", "negotiate", "start_kex">> \in SideTodo /\ s \notin Threads
    BY OpsTyped, Ends
  <2> QED
    BY <1>0, <2>1, <2>2, TodoChanged
<1>4. Ahead(s)' = {"clear", "negotiate", "start_kex"}
  <2>1. Range(<<"clear", "negotiate", "start_kex">>) = {"clear", "negotiate", "start_kex"}
    BY RangeIs
  <2> QED
    BY <1>3, <2>1 DEF Ahead
<1>5. OpeningOK(s) /\ SwitchingOK(s) /\ SentOK(s) /\ UseOK
  BY DEF CarefulInv, EndOK
<1>6. Ahead(s) = {"read"} /\ exchanged[s] = NoKey /\ Has(wire[s], "kexinit")
  <2>1. Ahead(s) = {"read"} /\ (expected[s] = {} \/ "kexinit" \in expected[s])
        /\ Has(wire[s], "kexinit")
    BY <1>2 DEF Taking
  <2> QED
    BY <1>5, <2>1 DEF SwitchingOK
<1>7. Numbers(wire[s])
  <2>1. SentOK(p)
    BY <1>0 DEF CarefulInv, EndOK
  <2> QED
    BY <1>0, <2>1 DEF SentOK
<1>8. remote_kex_init'[s] # 0 /\ remote_kex_init'[p] = remote_kex_init[p]
  BY <1>0, <1>2, <1>7 DEF Taking, ReadKexInit, Typed
<1>9. /\ clear_to_send' = clear_to_send /\ in_kex' = in_kex /\ scenario' = scenario
      /\ mine' = mine /\ local_kex_init' = local_kex_init /\ exchanged' = exchanged
      /\ completion' = completion /\ in_key' = in_key /\ out_key' = out_key
      /\ expected'[s] = {} /\ expected'[p] = expected[p]
  BY <1>0 DEF ReadKexInit, gate, keys, Typed
<1>10. /\ need_rekey'[p] = need_rekey[p] /\ sent_packets' = sent_packets
       /\ ~scenario.auto => need_rekey'[s] = need_rekey[s]
  BY <1>1, RekeyAssumption, CountTyped DEF ReadThen
<1>11. SameKex(p)
  BY <1>8, <1>9 DEF SameKex
<1>12. SameEnd(p)
  BY <1>0, <1>3, <1>9, <1>10, <1>11 DEF SameEnd
<1>13. SameThreads
  BY <1>3, <1>9, Ends DEF SameThreads
<1>14. wire'[p] = wire[p] /\ NothingAdded(s)
  BY <1>1, <1>2 DEF Taking, ReadThen, Reads, Typed, NothingAdded
<1>15. OpeningOK(s)'
  BY <1>4, <1>5, <1>6, <1>8, <1>9 DEF OpeningOK
<1>16. SwitchingOK(s)'
  BY <1>4, <1>5, <1>6, <1>9 DEF SwitchingOK
<1>17. SentOK(s)'
  BY <1>5, <1>6, <1>9, <1>14, SentKept
<1>18. SendingOK(s)'
  BY <1>4 DEF SendingOK
<1>19. /\ \A x \in Side : \A k : Has(wire'[x], k) => Has(wire[x], k)
       /\ \A x \in Side : OneKexInit(wire[x]) => OneKexInit(wire'[x])
       /\ OneKexInit(wire[s]) => ~Has(wire'[s], "kexinit")
  BY <1>0, <1>2 DEF Taking
<1>20. UseOK'
  BY <1>4, <1>5, <1>10, <1>12, <1>13, <1>19, UseKept
<1>21. Ahead(p)' = Ahead(p)
  BY <1>12 DEF SameEnd, Ahead
<1>22. ASSUME First
       PROVE  FirstOf(s)' /\ FirstOf(p)'
  <2>1. FirstOf(s) /\ FirstOf(p)
    BY <1>0, <1>22 DEF CarefulInv, FirstOK
  <2>2. /\ ~Met(s) /\ in_key[s] = NoKey /\ "kexinit" \notin Ahead(p)
        /\ ~Has(wire'[s], "kexinit") /\ local_kex_init[s] # 0
    BY <1>0, <1>5, <1>6, <1>19, <2>1 DEF FirstOf, Met, OpeningOK
  <2>3. Met(s)'
    BY <1>8 DEF Met
  <2>4. Met(p)' <=> Met(p)
    BY <1>11 DEF Met, SameKex
  <2>5. Idle(p)' <=> Idle(p)
    BY <1>11, <1>21 DEF Idle, SameKex
  <2>6. FirstOf(s)'
    BY <1>0, <1>4, <1>9, <1>19, <1>21, <2>1, <2>2, <2>4 DEF FirstOf
  <2>7. FirstOf(p)'
    BY <1>0, <1>4, <1>9, <1>14, <1>21, <2>1, <2>2, <2>3, <2>4, <2>5 DEF FirstOf
  <2> QED
    BY <2>6, <2>7
<1>23. First => \A t \in scenario.callers : "kexinit" \in Ahead(t) =>
              /\ in_key'[Home[t]] # NoKey
              /\ ~completion'[Home[t]]
              /\ "mark" \notin Ahead(t) => local_kex_init'[Home[t]] = mine[t]
  BY <1>9 DEF CarefulInv, FirstOK
<1>24. ASSUME NEW t \in Threads, Second(t)
       PROVE  OwnOK(t)'
  <2>1. OwnOK(t) /\ mine[t] # 0
    BY <1>24 DEF CarefulInv, Second
  <2>2. CASE Home[t] = s
    <3>1. /\ ~completion[s] /\ local_kex_init[s] # 0
          /\ ~Has(wire[p], "kexinit") /\ ~Answers(p) /\ ~Answers(s)
          /\ OneKexInit(wire[s])
      BY <1>6, <2>1, <2>2 DEF OwnOK, OneRound
    <3>2. ~Answers(s)' /\ ~Answers(p)' /\ ~Has(wire'[s], "kexinit")
      BY <1>4, <1>9, <1>19, <1>21, <3>1 DEF Answers
    <3>3. OneRound(s)'
      BY <1>0, <1>14, <1>19, <2>1, <2>2, <3>1, <3>2 DEF OwnOK, OneRound
    <3> QED
      BY <1>6, <1>9, <2>1, <2>2, <3>1, <3>3 DEF OwnOK
  <2>3. CASE Home[t] = p
    <3>1. /\ ~completion[p] /\ remote_kex_init[p] = 0
          /\ ~Has(wire[p], "kexinit") /\ ~Answers(p)
          /\ OneKexInit(wire[s])
      BY <1>0, <1>6, <2>1, <2>3 DEF OwnOK, OneRound
    <3>2. ~Answers(p)' /\ ~Has(wire'[s], "kexinit")
      BY <1>9, <1>19, <1>21, <3>1 DEF Answers
    <3>3. OneRound(p)'
      BY <1>0, <1>8, <1>9, <1>14, <1>19, <2>1, <2>3, <3>1, <3>2 DEF OwnOK, OneRound
    <3> QED
      BY <1>9, <1>21, <2>1, <2>3, <3>1, <3>3 DEF OwnOK
  <2> QED
    BY <2>2, <2>3, <1>0, Ends
<1>25. Rounds'
  BY <1>13, <1>22, <1>23, <1>24, RoundsKept
<1> QED
  BY <1>6, <1>9, <1>12, <1>13, <1>14, <1>15, <1>16, <1>17, <1>18, <1>20, <1>25, Together DEF EndOK

\* _parse_newkeys: the exchange is complete, all that the end has sent in it is
\* closed by its own NEWKEYS, and no caller is about to send a KEXINIT.
LEMMA ReadNewKeysKeeps ==
    ASSUME Typed, Careful, CarefulInv, NEW s \in Side, ReadNewKeys(s)
    PROVE  CarefulInv'
<1> DEFINE p == Peer(s)
           need == NeedAfter(s, "in", AsksRekey(s))
<1>0. /\ p \in Side /\ Peer(p) = s /\ p # s /\ s \in Procs /\ p \in Procs /\ At(s) = s
      /\ \A u \in Side : u = s \/ u = p
  BY Ends
<1>1. Reads(s, "newkeys")
  BY DEF ReadNewKeys, ActivateInbound
<1>2. Taking(s, "newkeys")
  BY <1>1, Reading
<1>3. Ahead(s)' = {"leave_kex", "reopen"} /\ \A r \in Procs : r # s => todo'[r] = todo[r]
  <2>1. todo'[s] = <<"leave_kex", "reopen">> /\ \A r \in Procs : r # s => todo'[r] = todo[r]
    BY <1>0, OpsTyped, TodoChanged, Ends DEF ReadNewKeys, ActivateInbound
  <2> QED
    BY <2>1, RangeIs DEF Ahead
<1>4. OpeningOK(s) /\ SwitchingOK(s) /\ SentOK(s) /\ UseOK
  BY DEF CarefulInv, EndOK
<1>5. /\ Ahead(s) = {"read"} /\ exchanged[s] # NoKey /\ Has(wire[s], "newkeys")
      /\ local_kex_init[s] # 0 /\ remote_kex_init[s] # 0 /\ ~Open(wire[p])
  <2>1. Ahead(s) = {"read"} /\ exchanged[s] # NoKey /\ Has(wire[s], "newkeys")
    BY <1>2 DEF Taking
  <2> QED
    BY <1>4, <2>1 DEF SwitchingOK, SentOK
<1>6. /\ in_key'[s] = exchanged[s] /\ local_kex_init'[s] = 0 /\ remote_kex_init'[s] = 0
      /\ exchanged'[s] = NoKey /\ completion'[s] /\ clear_to_send'[s] = clear_to_send[s]
      /\ expected'[s] = {} /\ need_rekey'[s] = need /\ out_key'[s] = out_key[s]
  BY DEF ReadNewKeys, ActivateInbound, Typed, gate
<1>7. /\ need_rekey'[p] = need_rekey[p] /\ in_kex'[p] = in_kex[p]
      /\ clear_to_send'[p] = clear_to_send[p]
      /\ mine' = mine /\ scenario' = scenario /\ sent_packets' = sent_packets
  BY <1>0 DEF ReadNewKeys, ActivateInbound, Typed, gate
<1>8. SameKex(p)
  BY <1>0 DEF ReadNewKeys, ActivateInbound, Typed, SameKex
<1>9. ~scenario.auto => need = need_rekey[s]
  BY <1>4 DEF UseOK, NeedAfter, AsksRekey, Typed
<1> HIDE DEF need
<1>10. SameEnd(p)
  BY <1>0, <1>3, <1>7, <1>8 DEF SameEnd
<1>11. SameThreads
  BY <1>3, <1>7, Ends DEF SameThreads
<1>12. wire'[p] = wire[p] /\ NothingAdded(s)
  BY <1>1, <1>2 DEF Taking, Reads, Typed, NothingAdded
<1>13. OpeningOK(s)'
  BY <1>3, <1>5, <1>6 DEF OpeningOK
<1>14. SwitchingOK(s)'
  BY <1>3, <1>6 DEF SwitchingOK
<1>15. SentOK(s)'
  BY <1>4, <1>5, <1>6, <1>12 DEF SentOK
<1>16. SendingOK(s)'
  BY <1>3 DEF SendingOK
<1>17. /\ \A x \in Side : \A k : Has(wire'[x], k) => Has(wire[x], k)
       /\ \A x \in Side : OneKexInit(wire[x]) => OneKexInit(wire'[x])
  BY <1>0, <1>2 DEF Taking
<1>18. UseOK'
  BY <1>3, <1>4, <1>6, <1>9, <1>10, <1>11, <1>17, UseKept
<1>19. \A t \in Threads : ~(Home[t] = s /\ "kexinit" \in Ahead(t))
  BY <1>5, Ends DEF CarefulInv, SendingOK
<1>20. Ahead(p)' = Ahead(p)
  BY <1>10 DEF SameEnd, Ahead
<1>21. Idle(s)' /\ Met(s)' /\ Met(s) /\ ~Idle(s)
  BY <1>3, <1>5, <1>6 DEF Idle, Met
<1>22. ASSUME First
       PROVE  FirstOf(s)' /\ FirstOf(p)'
  <2>1. FirstOf(s) /\ FirstOf(p)
    BY <1>0, <1>22 DEF CarefulInv, FirstOK
  <2>2. Met(p) /\ "kexinit" \notin Ahead(p) /\ ~Has(wire[s], "kexinit")
    BY <1>0, <1>5, <1>21, <2>1 DEF FirstOf
  <2>3. Met(p)' <=> Met(p)
    BY <1>8 DEF Met, SameKex
  <2>4. Idle(p)' <=> Idle(p)
    BY <1>8, <1>20 DEF Idle, SameKex
  <2>5. in_key'[p] = in_key[p] /\ local_kex_init'[p] = local_kex_init[p]
    BY <1>8 DEF SameKex
  <2>6. FirstOf(s)'
    BY <1>0, <1>3, <1>17, <1>20, <1>21, <2>1, <2>2, <2>3, <2>5 DEF FirstOf
  <2>7. FirstOf(p)'
    BY <1>0, <1>3, <1>5, <1>6, <1>12, <1>20, <1>21, <2>1, <2>3, <2>4, <2>5 DEF FirstOf
  <2> QED
    BY <2>6, <2>7
<1>23. ASSUME First, NEW t \in scenario.callers, "kexinit" \in Ahead(t)
       PROVE  /\ in_key'[Home[t]] # NoKey
              /\ ~completion'[Home[t]]
              /\ "mark" \notin Ahead(t) => local_kex_init'[Home[t]] = mine[t]
  <2>1. t \in Threads
    BY RekeyAssumption DEF Typed, Scenario
  <2>2. Home[t] = p
    BY <1>0, <1>19, <1>23, <2>1, Ends
  <2> QED
    BY <1>8, <1>23, <2>2 DEF CarefulInv, FirstOK, SameKex
<1>24. ASSUME NEW t \in Threads, Second(t)
       PROVE  OwnOK(t)'
  <2>1. OwnOK(t) /\ scenario.callers # {}
    BY <1>24 DEF CarefulInv, Second
  <2>2. ~Answers(s)'
    BY <1>3 DEF Answers
  <2>3. CASE Home[t] = s
    <3>1. /\ ~completion[s] /\ exchanged[s][OwnPart(s)] = mine[t]
          /\ out_key[s] = exchanged[s]
          /\ ~Has(wire[p], "kexinit") /\ ~Answers(p) /\ ~Has(wire[s], "kexinit")
      BY <1>5, <1>21, <2>1, <2>3 DEF OwnOK, OneRound
    <3>2. ~Answers(p)'
      BY <1>8, <1>20, <3>1 DEF Answers, SameKex
    <3>3. OneRound(s)'
      BY <1>0, <1>12, <1>17, <2>1, <2>2, <2>3, <3>1, <3>2 DEF OwnOK, OneRound
    <3> QED
      BY <1>6, <1>7, <1>21, <2>3, <3>1, <3>3 DEF OwnOK, OwnPart
  <2>4. CASE Home[t] = p
    <3>1. Answers(p)' <=> Answers(p)
      BY <1>8, <1>20 DEF Answers, SameKex
    <3>2. OneRound(p)'
      BY <1>0, <1>8, <1>12, <1>17, <2>1, <2>2, <2>4, <3>1 DEF OwnOK, OneRound, SameKex
    <3> QED
      BY <1>7, <1>8, <1>20, <2>1, <2>4, <3>2 DEF OwnOK, SameKex, Idle, OwnPart
  <2> QED
    BY <2>3, <2>4, <1>0, Ends
<1>25. Rounds'
  BY <1>11, <1>22, <1>23, <1>24, RoundsKept
<1> QED
  BY <1>10, <1>11, <1>12, <1>13, <1>14, <1>15, <1>16, <1>18, <1>19, <1>25, Together DEF EndOK

\* The rest of _parse_newkeys: nobody has begun another exchange meanwhile.
LEMMA SettlingKeeps ==
    ASSUME Typed, Careful, CarefulInv, NEW s \in Side, SettlingOK(s), LeaveKex(s) \/ Reopen(s)
    PROVE  CarefulInv'
<1> DEFINE p == Peer(s)
<1>0. /\ p \in Side /\ Peer(p) = s /\ p # s /\ s \in Procs /\ p \in Procs /\ At(s) = s
      /\ \A u \in Side : u = s \/ u = p
  BY Ends
<1>1. PICK op \in {"leave_kex", "reopen"} : Doing(s, op) /\ Done(s)
  BY DEF LeaveKex, Reopen
<1>2. /\ Ahead(s)' \subseteq Ahead(s) /\ \A r \in Procs : r # s => todo'[r] = todo[r]
      /\ op \in Ahead(s)
  BY <1>0, <1>1, Going DEF Ahead
<1>3. Ahead(s) \subseteq {"leave_kex", "reopen"} /\ "reopen" \in Ahead(s)
  <2>1. todo[s] # <<>> /\ Head(todo[s]) = op /\ todo[s] \in SideTodo
    BY <1>1 DEF Doing, Typed
  <2>2. CASE op = "reopen"
    BY <1>2, <2>1, <2>2, SideTogether DEF Ahead
  <2>3. CASE op = "leave_kex"
    <3>1. todo[s] = <<"leave_kex", "reopen">>
      BY <2>1, <2>3, SideKexInit
    <3> QED
      BY <3>1, RangeIs DEF Ahead
  <2> QED
    BY <2>2, <2>3
<1>4. /\ local_kex_init[s] = 0 /\ exchanged[s] = NoKey /\ in_key[s] # NoKey /\ ~Open(wire[p])
      /\ \A t \in Threads : Home[t] = s => "kexinit" \notin Ahead(t)
  BY <1>3 DEF SettlingOK
<1>5. /\ scenario' = scenario /\ wire' = wire /\ mine' = mine /\ need_rekey' = need_rekey
      /\ sent_packets' = sent_packets /\ clear_to_send'[p] = clear_to_send[p]
      /\ in_kex'[p] = in_kex[p] /\ SameKex(s) /\ SameKex(p)
  BY <1>0 DEF LeaveKex, Reopen, kex, keys, count, SameKex, Typed
<1>6. SameEnd(p) /\ SameThreads
  BY <1>0, <1>2, <1>5, Ends DEF SameEnd, SameThreads
<1>7. OpeningOK(s) /\ SwitchingOK(s) /\ SentOK(s) /\ UseOK
  BY DEF CarefulInv, EndOK
<1>8. OpeningOK(s)'
  BY <1>2, <1>3, <1>4, <1>5, <1>7 DEF OpeningOK, SameKex
<1>9. SwitchingOK(s)'
  BY <1>2, <1>3, <1>4, <1>5, <1>7 DEF SwitchingOK, SameKex
<1>10. SentOK(s)'
  BY <1>4, <1>5, <1>7 DEF SentOK, SameKex
<1>11. SendingOK(s)'
  BY <1>2, <1>3 DEF SendingOK
<1>12. UseOK'
  BY <1>2, <1>3, <1>5, <1>6, <1>7, UseKept
<1>13. Plain(s)
  <2>1. Ahead(s)' \subseteq IdleOps /\ Ahead(s)' \cap {"kexinit", "negotiate", "request_success"} = {}
        /\ "activate" \notin Ahead(s)
    BY <1>2, <1>3 DEF IdleOps
  <2> QED
    BY <1>5, <1>6, <2>1 DEF Plain
<1>14. Rounds'
  BY <1>13, PlainKeeps DEF CarefulInv, Rounds
<1>15. NothingAdded(s)
  BY <1>5 DEF NothingAdded
<1> QED
  BY <1>4, <1>6, <1>8, <1>9, <1>10, <1>11, <1>12, <1>14, <1>15, Together DEF EndOK

\* A transport thread makes its KEXINIT: user messages are stopped, and the
\* end has no keys to switch to.
LEMMA MarkKeeps ==
    ASSUME Typed, Careful, CarefulInv, NEW s \in Side, Mark(s)
    PROVE  CarefulInv'
<1> DEFINE p == Peer(s)
<1>0. /\ p \in Side /\ Peer(p) = s /\ p # s /\ s \in Procs /\ p \in Procs /\ At(s) = s
      /\ \A u \in Side : u = s \/ u = p
  BY Ends
<1>1. Doing(s, "mark") /\ Done(s)
  BY DEF Mark
<1>2. /\ Ahead(s)' = Ahead(s) \ {"mark"}
      /\ \A r \in Procs : r # s => todo'[r] = todo[r]
  BY <1>0, <1>1, Going DEF Ahead
<1>3. "kexinit" \in Ahead(s) /\ "clear" \notin Ahead(s)
  BY <1>1, SideKexInit DEF Doing, Ahead, Typed
<1>4. OpeningOK(s) /\ SwitchingOK(s) /\ SentOK(s) /\ UseOK /\ SendingOK(s)
  BY <1>0 DEF CarefulInv, EndOK
<1>5. /\ exchanged[s] = NoKey /\ ~clear_to_send[s]
      /\ Ahead(s) \cap {"expect_newkeys", "ext_info", "activate", "newkeys", "negotiate"} = {}
  <2>1. exchanged[s] = NoKey /\ ~clear_to_send[s]
    BY <1>0, <1>3, <1>4 DEF SendingOK
  <2> QED
    BY <1>3, <2>1, SideTogether DEF Ahead, Typed
<1>6. /\ in_kex'[s] /\ in_kex'[p] = in_kex[p]
      /\ local_kex_init'[s] # 0 /\ local_kex_init'[p] = local_kex_init[p]
      /\ mine'[s] # 0 /\ \A r \in Procs : r # s => mine'[r] = mine[r]
  BY <1>0 DEF Mark, Typed
<1>7. /\ scenario' = scenario /\ wire' = wire /\ clear_to_send' = clear_to_send
      /\ remote_kex_init' = remote_kex_init /\ exchanged' = exchanged /\ expected' = expected
      /\ completion' = completion /\ out_key' = out_key /\ in_key' = in_key
      /\ need_rekey' = need_rekey /\ sent_packets' = sent_packets
  BY DEF Mark, keys, count
<1>8. SameKex(p)
  BY <1>6, <1>7 DEF SameKex
<1>9. SameEnd(p)
  BY <1>0, <1>2, <1>6, <1>7, <1>8 DEF SameEnd
<1>10. SameThreads
  BY <1>2, <1>6, <1>7, Ends DEF SameThreads
<1>11. OpeningOK(s)'
  BY <1>2, <1>4, <1>5, <1>6, <1>7 DEF OpeningOK
<1>12. SwitchingOK(s)'
  BY <1>2, <1>4, <1>5, <1>6, <1>7 DEF SwitchingOK
<1>13. SentOK(s)'
  BY <1>4, <1>5, <1>7, SentKept
<1>14. SendingOK(s)'
  BY <1>0, <1>5, <1>6, <1>7 DEF SendingOK
<1>15. UseOK'
  BY <1>2, <1>4, <1>7, <1>9, <1>10, UseKept DEF UseOK
<1>16. ~Idle(s) /\ Answers(s) /\ Answers(s)' /\ Ahead(p)' = Ahead(p)
  BY <1>2, <1>3, <1>9 DEF Idle, Answers, SameEnd, Ahead
<1>17. ASSUME First
       PROVE  FirstOf(s)' /\ FirstOf(p)' /\ in_key[s] = NoKey
  <2>1. FirstOf(s) /\ FirstOf(p)
    BY <1>0, <1>17 DEF CarefulInv, FirstOK
  <2>2. in_key[s] = NoKey
    BY <1>16, <2>1 DEF FirstOf
  <2>3. (Idle(p)' <=> Idle(p)) /\ (Met(p)' <=> Met(p)) /\ (Met(s)' <=> Met(s))
    BY <1>7, <1>16 DEF Idle, Met
  <2>4. FirstOf(s)'
    BY <1>0, <1>2, <1>3, <1>5, <1>7, <1>16, <2>1, <2>2, <2>3 DEF FirstOf
  <2>5. FirstOf(p)'
    BY <1>0, <1>2, <1>6, <1>7, <1>16, <2>1, <2>3 DEF FirstOf
  <2> QED
    BY <2>2, <2>4, <2>5
<1>18. ASSUME First, NEW t \in scenario.callers, "kexinit" \in Ahead(t)
       PROVE  /\ in_key'[Home[t]] # NoKey
              /\ ~completion'[Home[t]]
              /\ "mark" \notin Ahead(t) => local_kex_init'[Home[t]] = mine[t]
  <2>1. t \in Threads
    BY RekeyAssumption DEF Typed, Scenario
  <2>2. Home[t] = p
    BY <1>0, <1>17, <1>18, <2>1, Ends DEF CarefulInv, FirstOK
  <2> QED
    BY <1>8, <1>18, <2>2 DEF CarefulInv, FirstOK, SameKex
<1>19. ASSUME NEW t \in Threads, Second(t)
       PROVE  OwnOK(t)'
  <2>1. OwnOK(t)
    BY <1>19 DEF CarefulInv
  <2>2. Home[t] = p
    BY <1>0, <1>16, <2>1, Ends DEF OwnOK, OneRound
  <2>3. Answers(p)' <=> Answers(p)
    BY <1>6, <1>16 DEF Answers
  <2>4. OneRound(p)'
    BY <1>0, <1>7, <1>16, <2>1, <2>2, <2>3 DEF OwnOK, OneRound
  <2>5. mine'[t] = mine[t]
    BY <1>6, Ends
  <2> QED
    BY <1>6, <1>7, <1>16, <2>1, <2>2, <2>4, <2>5 DEF OwnOK, Idle, OwnPart
<1>20. Rounds'
  BY <1>10, <1>17, <1>18, <1>19, RoundsKept
<1>21. NothingAdded(s) /\ exchanged'[s] = NoKey /\ clear_to_send'[s] = clear_to_send[s]
  BY <1>5, <1>7 DEF NothingAdded
<1> QED
  BY <1>9, <1>10, <1>11, <1>12, <1>13, <1>14, <1>15, <1>20, <1>21, Together DEF EndOK

\* A transport thread sends its KEXINIT.
LEMMA SendKexInitKeeps ==
    ASSUME Typed, Careful, CarefulInv, NEW s \in Side, SendKexInit(s)
    PROVE  CarefulInv'
<1> DEFINE p == Peer(s)
<1>0. /\ p \in Side /\ Peer(p) = s /\ p # s /\ s \in Procs /\ p \in Procs /\ At(s) = s
      /\ \A u \in Side : u = s \/ u = p
  BY Ends
<1>1. Doing(s, "kexinit") /\ Done(s)
  BY DEF SendKexInit
<1>2. /\ Ahead(s)' = Ahead(s) \ {"kexinit"} /\ "kexinit" \in Ahead(s)
      /\ \A r \in Procs : r # s => todo'[r] = todo[r]
  BY <1>0, <1>1, Going DEF Ahead
<1>3. Ahead(s) \cap {"clear", "mark", "negotiate"} = {}
  BY <1>1, SideKexInit DEF Doing, Ahead, Typed
<1>4. OpeningOK(s) /\ SwitchingOK(s) /\ SentOK(s) /\ UseOK /\ SendingOK(s)
  BY <1>0 DEF CarefulInv, EndOK
<1>5. /\ exchanged[s] = NoKey /\ ~clear_to_send[s] /\ mine[s] # 0
      /\ Ahead(s) \cap {"expect_newkeys", "ext_info", "activate", "newkeys"} = {}
  <2>1. exchanged[s] = NoKey /\ ~clear_to_send[s] /\ mine[s] # 0
    BY <1>0, <1>2, <1>3, <1>4 DEF SendingOK
  <2>2. "kexinit" \in Range(todo[s]) /\ todo[s] \in SideTodo
    BY <1>2 DEF Ahead, Typed
  <2>3. Range(todo[s]) \cap {"expect_newkeys", "ext_info", "activate", "newkeys"} = {}
    BY <2>2, SideTogether
  <2> QED
    BY <2>1, <2>3 DEF Ahead
<1>6. Sent(s, "kexinit", <<mine[s]>>) /\ Counted(s)
  <2>1. "kexinit" \in Type /\ mine[s] \in Nat
    BY <1>0 DEF Type, Typed
  <2>2. <<mine[s]>> \in Seq(Nat) /\ Len(<<mine[s]>>) = 1
    BY <2>1
  <2> QED
    BY <1>0, <2>1, <2>2, Sending DEF SendKexInit
<1>7. /\ scenario' = scenario /\ mine' = mine /\ clear_to_send' = clear_to_send
      /\ in_kex' = in_kex
      /\ SameKex(s) /\ SameKex(p)
  BY DEF SendKexInit, kex, keys, gate, SameKex
<1>8. SameEnd(p)
  BY <1>0, <1>2, <1>6, <1>7 DEF SameEnd, Counted
<1>9. SameThreads
  BY <1>2, <1>7, Ends DEF SameThreads
<1>10. /\ wire'[s] = wire[s] /\ need_rekey'[p] = need_rekey[p]
       /\ \A ty : Has(wire'[p], ty) => Has(wire[p], ty) \/ ty = "kexinit"
       /\ OneKexInit(wire[p]) /\ ~Has(wire[p], "kexinit") => OneKexInit(wire'[p])
       /\ Quiet(wire[p]) => Quiet(wire'[p])
       /\ Numbers(wire[p]) => Numbers(wire'[p])
       /\ ~scenario.auto => need_rekey'[s] = need_rekey[s]
  BY <1>5, <1>6 DEF Sent, Counted, Payload, Kind
<1>11. OpeningOK(s)'
  BY <1>2, <1>3, <1>4, <1>7 DEF OpeningOK, SameKex
<1>12. SwitchingOK(s)'
  BY <1>2, <1>4, <1>5, <1>7 DEF SwitchingOK, SameKex
<1>13. SentOK(s)'
  BY <1>4, <1>5, <1>7, <1>10 DEF SentOK, SameKex
<1>14. SendingOK(s)'
  BY <1>2 DEF SendingOK
<1>15. UseOK'
  BY <1>0, <1>2, <1>4, <1>8, <1>9, <1>10, UseKept DEF UseOK
<1>16. ~Idle(s) /\ Answers(s) /\ ~Answers(s)' /\ Ahead(p)' = Ahead(p)
  BY <1>2, <1>3, <1>8 DEF Idle, Answers, SameEnd, Ahead
<1>17. ASSUME First
       PROVE  FirstOf(s)' /\ FirstOf(p)'
  <2>1. FirstOf(s) /\ FirstOf(p)
    BY <1>0, <1>17 DEF CarefulInv, FirstOK
  <2>2. in_key[s] = NoKey /\ ~Has(wire[p], "kexinit") /\ ~Met(p)
    BY <1>0, <1>2, <1>16, <2>1 DEF FirstOf
  <2>3. (Idle(p)' <=> Idle(p)) /\ (Met(p)' <=> Met(p)) /\ (Met(s)' <=> Met(s))
    BY <1>7, <1>16 DEF Idle, Met, SameKex
  <2>4. FirstOf(s)'
    BY <1>0, <1>2, <1>3, <1>7, <1>10, <1>16, <2>1, <2>2, <2>3 DEF FirstOf, SameKex
  <2>5. FirstOf(p)'
    BY <1>0, <1>2, <1>7, <1>10, <1>16, <2>1, <2>2, <2>3 DEF FirstOf, SameKex
  <2> QED
    BY <2>4, <2>5
<1>18. First => \A t \in scenario.callers : "kexinit" \in Ahead(t) =>
              /\ in_key'[Home[t]] # NoKey
              /\ ~completion'[Home[t]]
              /\ "mark" \notin Ahead(t) => local_kex_init'[Home[t]] = mine[t]
  BY DEF SendKexInit, kex, keys, CarefulInv, FirstOK
<1>19. ASSUME NEW t \in Threads, Second(t)
       PROVE  OwnOK(t)'
  <2>1. OwnOK(t) /\ scenario.callers # {}
    BY <1>19 DEF CarefulInv, Second
  <2>2. Home[t] = p
    BY <1>0, <1>16, <2>1, Ends DEF OwnOK, OneRound
  <2>3. Answers(p)' <=> Answers(p)
    BY <1>7, <1>16 DEF Answers, SameKex
  <2>4. OneRound(p)'
    BY <1>0, <1>7, <1>10, <1>16, <2>1, <2>2, <2>3 DEF OwnOK, OneRound, SameKex
  <2> QED
    BY <1>7, <1>16, <2>1, <2>2, <2>4 DEF OwnOK, SameKex, Idle, OwnPart
<1>20. Rounds'
  BY <1>9, <1>17, <1>18, <1>19, RoundsKept
<1>21. NothingAdded(s) /\ exchanged'[s] = NoKey /\ clear_to_send'[s] = clear_to_send[s]
  BY <1>5, <1>7, <1>10 DEF NothingAdded, SameKex
<1> QED
  BY <1>8, <1>9, <1>11, <1>12, <1>13, <1>14, <1>15, <1>20, <1>21, Together DEF EndOK
-----------------------------------------------------------------------------
(* The caller of renegotiate_keys *)

\* The invariant, put together after a step of the one caller.
LEMMA CallerTogether ==
    ASSUME Typed, CarefulInv, NEW t \in Threads, scenario' = scenario,
           scenario.callers = {t}, SameEnd(Peer(Home[t])), NothingAdded(Home[t]),
           UseOK', SendingOK(t)', SendingOK(Home[t])', EndOK(Home[t])', Rounds'
    PROVE  CarefulInv'
<1> DEFINE s == Home[t]
           p == Peer(s)
<1>0. /\ s \in Side /\ p \in Side /\ Peer(p) = s /\ p # s /\ p \in Procs /\ At(p) = p
      /\ \A u \in Side : u = s \/ u = p
  BY Ends
<1>1. EndOK(p)'
  BY <1>0, EndFrame DEF CarefulInv
<1>2. \A u \in Side : EndOK(u)'
  BY <1>0, <1>1
<1>3. SendingOK(p)'
  <2>1. SendingOK(p)
    BY <1>0 DEF CarefulInv
  <2> QED
    BY <1>0, <2>1 DEF SendingOK, SameEnd, SameKex, Ahead
<1>4. ASSUME NEW r \in Threads, r # t
      PROVE  SendingOK(r)'
  <2>1. todo'[r] = <<>>
    BY <1>4 DEF UseOK
  <2> QED
    BY <2>1, RangeIs DEF SendingOK, Ahead
<1>5. \A r \in Procs : SendingOK(r)'
  BY <1>0, <1>3, <1>4, Ends
<1> QED
  BY <1>2, <1>5 DEF CarefulInv, Rounds

\* What the caller's steps leave alone.
CallerStep(t) ==
    /\ scenario' = scenario /\ scenario.callers = {t} /\ ~scenario.auto
    /\ \A r \in Procs : r # t => todo'[r] = todo[r] /\ mine'[r] = mine[r]
    /\ SameEnd(Peer(Home[t]))
    /\ wire'[Home[t]] = wire[Home[t]]
    /\ \A x \in Side : \A ty \in {"global_request", "request_success"} :
          Has(wire'[x], ty) => Has(wire[x], ty)
    /\ need_rekey'[Home[t]] = need_rekey[Home[t]]

\* Such a step does not change what the session is used for.
LEMMA CallerUse ==
    ASSUME Typed, UseOK, NEW t \in Threads, CallerStep(t),
           "await" \in Ahead(t)' => "kexinit" \in Ahead(t)' \/ mine'[t] # 0
    PROVE  UseOK'
<1> DEFINE s == Home[t]
           p == Peer(s)
<1>0. /\ s \in Side /\ p \in Side /\ s \in Procs /\ p \in Procs /\ s # t /\ p # t
      /\ \A u \in Side : u = s \/ u = p
  BY Ends
<1>1. \A r \in Threads : r # t => todo'[r] = todo[r] /\ Ahead(r)' = Ahead(r) /\ mine'[r] = mine[r]
  BY Ends DEF CallerStep, Ahead
<1>2. \A u \in Side : Ahead(u)' = Ahead(u) /\ need_rekey'[u] = need_rekey[u]
  BY <1>0, Ends DEF CallerStep, Ahead, SameEnd
<1>3. \A r \in Threads \ scenario'.callers : todo'[r] = <<>>
  BY <1>1 DEF CallerStep, UseOK
<1>4. \A r \in Threads : "await" \in Ahead(r)' /\ "kexinit" \notin Ahead(r)' => mine'[r] # 0
  BY <1>1 DEF UseOK
<1> QED
  BY <1>2, <1>3, <1>4 DEF CallerStep, UseOK

\* Of a caller that has not sent its KEXINIT, the first exchange is as before.
LEMMA CallerFirst ==
    ASSUME Typed, NEW t \in Threads, CallerStep(t), wire' = wire,
           \A u \in Side : FirstOf(u), Idle(Home[t]), in_key[Home[t]] # NoKey,
           remote_kex_init' = remote_kex_init, in_key' = in_key, expected' = expected,
           exchanged' = exchanged, "kexinit" \in Ahead(t)', ~completion'[Home[t]],
           "mark" \notin Ahead(t)' => local_kex_init'[Home[t]] = mine'[t]
    PROVE  Rounds'
<1> DEFINE s == Home[t]
           p == Peer(s)
<1>0. /\ s \in Side /\ p \in Side /\ s \in Procs /\ p \in Procs /\ s # t /\ p # t
      /\ Peer(p) = s /\ \A u \in Side : u = s \/ u = p
  BY Ends
<1>1. Ahead(s)' = Ahead(s) /\ Ahead(p)' = Ahead(p) /\ local_kex_init'[p] = local_kex_init[p]
  BY <1>0 DEF CallerStep, Ahead, SameEnd, SameKex
<1>2. FirstOf(s) /\ FirstOf(p) /\ "negotiate" \notin Ahead(s)
  BY <1>0 DEF Idle
<1>3. \A u \in Side : (Met(u)' <=> Met(u)) /\ (Idle(u)' <=> Idle(u))
  BY <1>0, <1>1 DEF Met, Idle
<1>4. FirstOf(s)'
  BY <1>0, <1>1, <1>2, <1>3 DEF FirstOf
<1>5. FirstOf(p)'
  BY <1>0, <1>1, <1>2, <1>3 DEF FirstOf
<1>6. FirstOK'
  <2>1. \A u \in Side : FirstOf(u)'
    BY <1>0, <1>4, <1>5
  <2>2. scenario'.callers = {t}
    BY DEF CallerStep
  <2> QED
    BY <2>1, <2>2 DEF FirstOK
<1>7. ASSUME NEW r \in Threads
      PROVE  ~Second(r)'
  <2>1. r # t => r \notin scenario'.callers
    BY DEF CallerStep
  <2>2. todo'[t] \notin {<<"await">>, <<>>}
    BY RangeIs DEF Ahead
  <2> QED
    BY <2>1, <2>2 DEF Second
<1> QED
  BY <1>6, <1>7 DEF Rounds

\* renegotiate_keys begins.
LEMMA RenegotiateKeeps ==
    ASSUME Typed, Careful, CarefulInv, NEW t \in Threads, Renegotiate(t)
    PROVE  CarefulInv'
<1> DEFINE s == Home[t]
           p == Peer(s)
<1>0. /\ s \in Side /\ p \in Side /\ Peer(p) = s /\ p # s /\ s \in Procs /\ p \in Procs
      /\ At(s) = s /\ At(t) = s /\ t \in Procs /\ \A u \in Side : u = s \/ u = p
  BY Ends
<1>1. /\ t \in scenario.callers /\ todo[t] = <<>> /\ mine[t] = 0 /\ in_key[s] # NoKey
  BY DEF Renegotiate, Careful
<1>2. scenario.callers = {t} /\ ~scenario.auto
  BY <1>1, OnlyCaller DEF Typed
<1>3. First /\ \A u \in Side : FirstOf(u)
  <2>1. First
    BY <1>1, <1>2 DEF First
  <2> QED
    BY <2>1 DEF CarefulInv, FirstOK
<1>4. Idle(s)
  BY <1>0, <1>1, <1>3 DEF FirstOf
<1>5. /\ todo'[t] = <<"clear", "mark", "kexinit", "await">>
      /\ \A r \in Procs : r # t => todo'[r] = todo[r]
  BY <1>0, OpsTyped, TodoChanged, Ends DEF Renegotiate
<1>6. Ahead(t)' = {"clear", "mark", "kexinit", "await"}
  <2>1. Range(<<"clear", "mark", "kexinit", "await">>) = {"clear", "mark", "kexinit", "await"}
    BY RangeIs
  <2> QED
    BY <1>5, <2>1 DEF Ahead
<1>7. /\ scenario' = scenario /\ wire' = wire /\ clear_to_send' = clear_to_send /\ in_kex' = in_kex
      /\ remote_kex_init' = remote_kex_init /\ exchanged' = exchanged /\ expected' = expected
      /\ local_kex_init' = local_kex_init /\ out_key' = out_key /\ in_key' = in_key
      /\ need_rekey' = need_rekey /\ sent_packets' = sent_packets /\ mine' = mine
      /\ ~completion'[s] /\ completion'[p] = completion[p]
  BY <1>0 DEF Renegotiate, kex, keys, gate, count, Typed
<1>8. SameEnd(p) /\ Ahead(s)' = Ahead(s)
  BY <1>0, <1>5, <1>7, Ends DEF SameEnd, SameKex, Ahead
<1>9. CallerStep(t)
  BY <1>2, <1>5, <1>7, <1>8 DEF CallerStep
<1>10. UseOK'
  BY <1>6, <1>9, CallerUse DEF CarefulInv
<1>11. Rounds'
  BY <1>1, <1>3, <1>4, <1>6, <1>7, <1>9, CallerFirst
<1>12. SendingOK(t)'
  BY <1>0, <1>4, <1>6, <1>7 DEF SendingOK, Idle
<1>13. SendingOK(s)'
  BY <1>4, <1>8 DEF SendingOK, Idle
<1>14. EndOK(s)'
  <2>1. OpeningOK(s) /\ SwitchingOK(s) /\ SentOK(s)
    BY <1>0 DEF CarefulInv, EndOK
  <2>2. OpeningOK(s)' /\ SwitchingOK(s)' /\ SentOK(s)'
    BY <1>7, <1>8, <2>1 DEF OpeningOK, SwitchingOK, SentOK
  <2> QED
    BY <2>2 DEF EndOK
<1> QED
  BY <1>2, <1>7, <1>8, <1>10, <1>11, <1>12, <1>13, <1>14, CallerTogether DEF NothingAdded

\* The caller makes its KEXINIT.
LEMMA CallerMarkKeeps ==
    ASSUME Typed, Careful, CarefulInv, NEW t \in Threads, Mark(t)
    PROVE  CarefulInv'
<1> DEFINE s == Home[t]
           p == Peer(s)
<1>0. /\ s \in Side /\ p \in Side /\ Peer(p) = s /\ p # s /\ s \in Procs /\ p \in Procs
      /\ At(s) = s /\ At(t) = s /\ t \in Procs /\ t # s /\ \A u \in Side : u = s \/ u = p
  BY Ends
<1>1. Doing(t, "mark") /\ Done(t)
  BY DEF Mark
<1>2. /\ Ahead(t)' = Ahead(t) \ {"mark"}
      /\ \A r \in Procs : r # t => todo'[r] = todo[r]
  BY <1>0, <1>1, Going DEF Ahead
<1>3. "kexinit" \in Ahead(t) /\ "clear" \notin Ahead(t)
  BY <1>1, CallerKexInit DEF Doing, Ahead, Typed
<1>4. /\ scenario.callers = {t} /\ ~scenario.auto /\ in_key[s] # NoKey /\ Idle(s)
      /\ ~completion[s] /\ \A u \in Side : FirstOf(u)
  BY <1>3, CallerWaits
<1>5. exchanged[s] = NoKey /\ ~clear_to_send[s]
  BY <1>0, <1>3 DEF CarefulInv, SendingOK
<1>6. /\ in_kex'[s] /\ in_kex'[p] = in_kex[p]
      /\ local_kex_init'[s] # 0 /\ local_kex_init'[p] = local_kex_init[p]
      /\ mine'[t] = local_kex_init'[s] /\ \A r \in Procs : r # t => mine'[r] = mine[r]
  <2>1. /\ in_kex' = [in_kex EXCEPT ![s] = TRUE]
        /\ kexinits' = [kexinits EXCEPT ![s] = @ + 1]
        /\ local_kex_init' = [local_kex_init EXCEPT ![s] = kexinits'[s]]
        /\ mine' = [mine EXCEPT ![t] = kexinits'[s]]
    BY <1>0 DEF Mark
  <2>2. kexinits'[s] = kexinits[s] + 1 /\ kexinits[s] \in Nat
    BY <1>0, <2>1 DEF Typed
  <2>3. kexinits'[s] # 0
    BY <2>2
  <2>4. in_kex'[s] /\ in_kex'[p] = in_kex[p]
    BY <1>0, <2>1 DEF Typed
  <2>5. local_kex_init'[s] = kexinits'[s] /\ local_kex_init'[p] = local_kex_init[p]
    BY <1>0, <2>1 DEF Typed
  <2>6. mine'[t] = kexinits'[s] /\ \A r \in Procs : r # t => mine'[r] = mine[r]
    BY <1>0, <2>1 DEF Typed
  <2> QED
    BY <2>3, <2>4, <2>5, <2>6
<1>7. /\ scenario' = scenario /\ wire' = wire /\ clear_to_send' = clear_to_send
      /\ remote_kex_init' = remote_kex_init /\ exchanged' = exchanged /\ expected' = expected
      /\ completion' = completion /\ out_key' = out_key /\ in_key' = in_key
      /\ need_rekey' = need_rekey /\ sent_packets' = sent_packets
  BY DEF Mark, keys, count
<1>8. SameEnd(p) /\ Ahead(s)' = Ahead(s)
  BY <1>0, <1>2, <1>6, <1>7, Ends DEF SameEnd, SameKex, Ahead
<1>9. CallerStep(t)
  BY <1>2, <1>4, <1>6, <1>7, <1>8 DEF CallerStep
<1>10. UseOK'
  BY <1>2, <1>3, <1>9, CallerUse DEF CarefulInv
<1>11. Rounds'
  BY <1>2, <1>3, <1>4, <1>6, <1>7, <1>9, CallerFirst
<1>12. SendingOK(t)'
  BY <1>0, <1>5, <1>6, <1>7 DEF SendingOK
<1>13. SendingOK(s)'
  BY <1>4, <1>8 DEF SendingOK, Idle
<1>14. EndOK(s)'
  <2>1. OpeningOK(s) /\ SwitchingOK(s) /\ SentOK(s)
    BY <1>0 DEF CarefulInv, EndOK
  <2>2. Ahead(s)' \cap {"start_kex", "expect_newkeys", "ext_info", "activate"} = {}
    BY <1>4, <1>8 DEF Idle
  <2>3. OpeningOK(s)'
    BY <1>4, <1>5, <1>6, <1>7, <2>1, <2>2 DEF OpeningOK, Idle
  <2>4. SwitchingOK(s)'
    BY <1>5, <1>6, <1>7, <2>2 DEF SwitchingOK
  <2>5. SentOK(s)'
    BY <1>0, <1>5, <1>7, <2>1, SentKept
  <2> QED
    BY <2>3, <2>4, <2>5 DEF EndOK
<1> QED
  BY <1>4, <1>7, <1>8, <1>10, <1>11, <1>12, <1>13, <1>14, CallerTogether DEF NothingAdded

\* The caller sends its KEXINIT: both ends are through with the first exchange,
\* so it is the only KEXINIT there is.
LEMMA CallerSendsKeeps ==
    ASSUME Typed, Careful, CarefulInv, NEW t \in Threads, SendKexInit(t)
    PROVE  CarefulInv'
<1> DEFINE s == Home[t]
           p == Peer(s)
<1>0. /\ s \in Side /\ p \in Side /\ Peer(p) = s /\ p # s /\ s \in Procs /\ p \in Procs
      /\ At(s) = s /\ At(t) = s /\ t \in Procs /\ t # s /\ \A u \in Side : u = s \/ u = p
  BY Ends
<1>1. Doing(t, "kexinit") /\ Done(t)
  BY DEF SendKexInit
<1>2. /\ Ahead(t)' = Ahead(t) \ {"kexinit"} /\ "kexinit" \in Ahead(t)
      /\ todo'[t] = Tail(todo[t])
      /\ \A r \in Procs : r # t => todo'[r] = todo[r]
  BY <1>0, <1>1, Going DEF Ahead
<1>3. "mark" \notin Ahead(t) /\ todo'[t] = <<"await">> /\ Ahead(t)' = {"await"}
      /\ "clear" \notin Ahead(t)
  <2>1. "mark" \notin Ahead(t) /\ todo'[t] = <<"await">>
    BY <1>1, <1>2, CallerKexInit DEF Doing, Ahead, Typed
  <2>2. Ahead(t)' = {"await"}
    BY <2>1, RangeIs DEF Ahead
  <2>3. Ahead(t) \ {"kexinit"} = {"await"}
    BY <1>2, <2>2
  <2>4. "clear" \notin Ahead(t)
    BY <2>3
  <2> QED
    BY <2>1, <2>2, <2>4
<1>4. /\ scenario.callers = {t} /\ ~scenario.auto /\ in_key[s] # NoKey /\ Idle(s)
      /\ ~completion[s] /\ ~Has(wire[s], "kexinit") /\ local_kex_init[s] = mine[t]
      /\ FirstOf(s) /\ FirstOf(p)
  BY <1>0, <1>2, <1>3, CallerWaits
<1>5. exchanged[s] = NoKey /\ ~clear_to_send[s] /\ mine[t] # 0
  BY <1>0, <1>2, <1>3 DEF CarefulInv, SendingOK
<1>6. Sent(s, "kexinit", <<mine[t]>>) /\ Counted(s)
  <2>1. "kexinit" \in Type /\ mine[t] \in Nat
    BY <1>0 DEF Type, Typed
  <2>2. <<mine[t]>> \in Seq(Nat) /\ Len(<<mine[t]>>) = 1
    BY <2>1
  <2> QED
    BY <1>0, <2>1, <2>2, Sending DEF SendKexInit
<1>7. /\ scenario' = scenario /\ mine' = mine /\ clear_to_send' = clear_to_send
      /\ in_kex' = in_kex
      /\ SameKex(s) /\ SameKex(p)
  BY DEF SendKexInit, kex, keys, gate, SameKex
<1>8. SameEnd(p) /\ Ahead(s)' = Ahead(s) /\ Ahead(p)' = Ahead(p)
  BY <1>0, <1>2, <1>6, <1>7, Ends DEF SameEnd, Counted, Ahead
<1>9. /\ wire'[s] = wire[s]
      /\ \A ty : Has(wire'[p], ty) => Has(wire[p], ty) \/ ty = "kexinit"
      /\ OneKexInit(wire[p]) /\ ~Has(wire[p], "kexinit") => OneKexInit(wire'[p])
      /\ Quiet(wire[p]) => Quiet(wire'[p])
      /\ Numbers(wire[p]) => Numbers(wire'[p])
      /\ need_rekey'[s] = need_rekey[s]
  BY <1>4, <1>5, <1>6 DEF Sent, Counted, Payload, Kind
<1>10. CallerStep(t)
  BY <1>0, <1>2, <1>4, <1>7, <1>8, <1>9 DEF CallerStep
<1>11. UseOK'
  BY <1>5, <1>7, <1>10, CallerUse DEF CarefulInv
<1>12. SendingOK(t)'
  BY <1>3 DEF SendingOK
<1>13. SendingOK(s)'
  BY <1>4, <1>8 DEF SendingOK, Idle
<1>14. EndOK(s)'
  <2>1. OpeningOK(s) /\ SwitchingOK(s) /\ SentOK(s)
    BY <1>0 DEF CarefulInv, EndOK
  <2>2. "ext_info" \notin Ahead(s)
    BY <1>4 DEF Idle
  <2>3. OpeningOK(s)'
    BY <1>7, <1>8, <2>1 DEF OpeningOK, SameKex
  <2>4. SwitchingOK(s)'
    BY <1>7, <1>8, <1>9, <2>1, <2>2 DEF SwitchingOK, SameKex
  <2>5. SentOK(s)'
    BY <1>5, <1>7, <1>9, <2>1 DEF SentOK, SameKex
  <2> QED
    BY <2>3, <2>4, <2>5 DEF EndOK
<1>15. ~First'
  <2>1. "kexinit" \notin Ahead(t)' /\ mine'[t] # 0 /\ t \in scenario'.callers
    BY <1>3, <1>4, <1>5, <1>7
  <2> QED
    BY <2>1 DEF First
<1>16. ~Has(wire[p], "kexinit") /\ ~Answers(p) /\ ~Answers(s) /\ OneKexInit(wire[p])
       /\ OneKexInit(wire[s])
  <2>1. Met(s) /\ Met(p)
    BY <1>0, <1>4 DEF FirstOf, Met
  <2> QED
    BY <1>0, <1>4, <2>1 DEF FirstOf, Answers, Idle
<1>17. OneRound(s)'
  <2>1. ~Answers(p)' /\ ~Answers(s)'
    BY <1>7, <1>8, <1>16 DEF Answers, SameKex
  <2>2. remote_kex_init'[s] = 0 /\ ~completion'[s]
    BY <1>4, <1>7 DEF Idle, SameKex
  <2> QED
    BY <1>4, <1>9, <1>16, <2>1, <2>2 DEF OneRound
<1>18. OwnOK(t)'
  BY <1>4, <1>5, <1>7, <1>17 DEF OwnOK, SameKex
<1>19. \A r \in Threads : Second(r)' => r = t
  BY <1>4, <1>7 DEF Second
<1>20. Rounds'
  BY <1>15, <1>18, <1>19 DEF Rounds, FirstOK
<1> QED
  BY <1>4, <1>7, <1>8, <1>9, <1>11, <1>12, <1>13, <1>14, <1>20, CallerTogether DEF NothingAdded

\* A thread that waits for completion_event has sent its KEXINIT.
LEMMA AwaitMeans ==
    ASSUME Typed, Careful, CarefulInv, NEW t \in Threads, Doing(t, "await")
    PROVE  /\ todo[t] = <<"await">> /\ Ahead(t) = {"await"} /\ mine[t] # 0
           /\ scenario.callers = {t} /\ ~scenario.auto
           /\ Second(t)
<1>1. todo[t] = <<"await">>
  BY CallerKexInit DEF Doing, Typed
<1>2. Ahead(t) = {"await"}
  BY <1>1, RangeIs DEF Ahead
<1>3. t \in scenario.callers /\ mine[t] # 0
  <2>1. todo[t] # <<>>
    BY DEF Doing
  <2> QED
    BY <1>2, <2>1 DEF CarefulInv, UseOK
<1>4. scenario.callers = {t} /\ ~scenario.auto
  BY <1>3, OnlyCaller DEF Typed
<1> QED
  BY <1>1, <1>2, <1>3, <1>4 DEF Second

\* renegotiate_keys returns.
LEMMA ReturnKeeps ==
    ASSUME Typed, Careful, CarefulInv, NEW t \in Threads, RenegotiateReturns(t)
    PROVE  CarefulInv'
<1> DEFINE s == Home[t]
           p == Peer(s)
<1>0. /\ s \in Side /\ p \in Side /\ Peer(p) = s /\ p # s /\ s \in Procs /\ p \in Procs
      /\ At(s) = s /\ At(t) = s /\ t \in Procs /\ t # s /\ \A u \in Side : u = s \/ u = p
  BY Ends
<1>1. Doing(t, "await") /\ Done(t)
  BY DEF RenegotiateReturns
<1>2. /\ todo[t] = <<"await">> /\ Ahead(t) = {"await"} /\ mine[t] # 0
      /\ scenario.callers = {t} /\ ~scenario.auto /\ Second(t)
  BY <1>1, AwaitMeans
<1>3. todo'[t] = <<>> /\ Ahead(t)' = {} /\ \A r \in Procs : r # t => todo'[r] = todo[r]
  <2>1. todo'[t] = Tail(<<"await">>) /\ \A r \in Procs : r # t => todo'[r] = todo[r]
    BY <1>0, <1>1, <1>2, Going
  <2>2. todo'[t] = <<>>
    BY <2>1, TailIs
  <2> QED
    BY <2>1, <2>2, RangeIs DEF Ahead
<1>4. /\ scenario' = scenario /\ wire' = wire /\ mine' = mine /\ clear_to_send' = clear_to_send
      /\ in_kex' = in_kex /\ need_rekey' = need_rekey /\ sent_packets' = sent_packets
      /\ SameKex(s) /\ SameKex(p)
  BY DEF RenegotiateReturns, kex, keys, gate, count, SameKex
<1>5. SameEnd(s) /\ SameEnd(p) /\ Ahead(s)' = Ahead(s) /\ Ahead(p)' = Ahead(p)
  BY <1>0, <1>3, <1>4, Ends DEF SameEnd, Ahead
<1>6. CallerStep(t)
  BY <1>2, <1>3, <1>4, <1>5 DEF CallerStep
<1>7. UseOK'
  BY <1>3, <1>6, CallerUse DEF CarefulInv
<1>8. SendingOK(t)'
  BY <1>3 DEF SendingOK
<1>9. SendingOK(s)'
  <2>1. SendingOK(s)
    BY <1>0 DEF CarefulInv
  <2> QED
    BY <1>4, <1>5, <2>1, <1>0 DEF SendingOK, SameKex
<1>10. EndOK(s)'
  BY <1>0, <1>4, <1>5, EndFrame DEF CarefulInv, NothingAdded
<1>11. ~First'
  <2>1. "kexinit" \notin Ahead(t)' /\ mine'[t] # 0 /\ t \in scenario'.callers
    BY <1>2, <1>3, <1>4
  <2> QED
    BY <2>1 DEF First
<1>12. OwnOK(t)'
  <2>1. OwnOK(t) /\ scenario.callers # {}
    BY <1>2 DEF CarefulInv, Second
  <2>2. OneRound(s)'
    BY <1>4, <1>5, <2>1 DEF OwnOK, OneRound, Answers, SameKex
  <2> QED
    BY <1>4, <1>5, <2>1, <2>2 DEF OwnOK, SameKex, Idle, OwnPart
<1>13. \A r \in Threads : Second(r)' => r = t
  BY <1>2, <1>4 DEF Second
<1>14. Rounds'
  BY <1>11, <1>12, <1>13 DEF Rounds, FirstOK
<1> QED
  BY <1>2, <1>4, <1>5, <1>7, <1>8, <1>9, <1>10, <1>14, CallerTogether DEF NothingAdded
-----------------------------------------------------------------------------
(* The rest of _parse_newkeys *)

\* Nothing happens that matters to the end s while it settles.
Calm(s) ==
    "reopen" \in Ahead(s)' =>
        /\ "reopen" \in Ahead(s)
        /\ local_kex_init'[s] = local_kex_init[s]
        /\ exchanged'[s] = exchanged[s]
        /\ in_key'[s] = in_key[s]
        /\ clear_to_send'[s] = clear_to_send[s]
        /\ Open(wire'[Peer(s)]) => Open(wire[Peer(s)])
        /\ \A t \in Threads : Home[t] = s /\ "kexinit" \in Ahead(t)' => "kexinit" \in Ahead(t)

LEMMA CalmKeeps ==
    ASSUME NEW s \in Side, SettlingOK(s), Calm(s)
    PROVE  SettlingOK(s)'
BY DEF SettlingOK, Calm

\* While it settles, the transport thread does nothing else.
LEMMA SettlingMeans ==
    ASSUME Typed, NEW s \in Side, "reopen" \in Ahead(s)
    PROVE  /\ todo[s] # <<>> /\ Head(todo[s]) \in {"leave_kex", "reopen"}
           /\ Ahead(s) \subseteq {"leave_kex", "reopen"}
<1>1. todo[s] \in SideTodo /\ Ahead(s) = Range(todo[s])
  BY DEF Typed, Ahead
<1>2. todo[s] # <<>>
  BY <1>1, RangeIs
<1> QED
  BY <1>1, <1>2, SideTogether

\* It settles only after it has read NEWKEYS.
LEMMA SettlingBegins ==
    ASSUME Typed, NEW s \in Side, TransportThread(s), ~ReadNewKeys(s), "reopen" \in Ahead(s)'
    PROVE  LeaveKex(s) /\ "reopen" \in Ahead(s)
<1>0. s \in Procs /\ At(s) = s
  BY Ends
<1>1. CASE "reopen" \in Ahead(s)
  <2>1. todo[s] # <<>> /\ Head(todo[s]) \in {"leave_kex", "reopen"}
    BY <1>1, SettlingMeans
  <2>2. ~Reopen(s)
    <3>1. SUFFICES ASSUME Reopen(s) PROVE FALSE
      OBVIOUS
    <3>2. Doing(s, "reopen") /\ Done(s)
      BY <3>1 DEF Reopen
    <3> QED
      BY <1>0, <3>2, Going DEF Ahead
  <2>3. ~(LoopTop(s) \/ ReadTimeout(s) \/ ReadFails(s) \/ ReadEof(s) \/ ReadKexInit(s)
          \/ Negotiate(s) \/ StartKex(s) \/ ReadKexDh(s) \/ ReadKexReply(s))
    BY <2>1 DEF LoopTop, ReadTimeout, ReadFails, ReadEof, ReadKexInit, Negotiate, StartKex,
       ReadKexDh, ReadKexReply, ReadThen, Reads, Doing
  <2>4. ~(SendDirect(s) \/ ActivateOutbound(s) \/ Expect(s) \/ ReadRequest(s) \/ ReadUnhandled(s)
          \/ ReadOther(s) \/ ReadGlobalReply(s) \/ SendChannelReply(s) \/ ReplyTimesOut(s))
    BY <2>1 DEF SendDirect, ActivateOutbound, Expect, ReadRequest, ReadUnhandled, ReadOther,
       ReadGlobalReply, SendChannelReply, ReplyTimesOut, ReadThen, Reads, Doing
  <2> QED
    BY <1>1, <2>2, <2>3, <2>4 DEF TransportThread
<1>2. CASE "reopen" \notin Ahead(s)
  <2>1. ASSUME NEW op, Doing(s, op), Done(s)
        PROVE  FALSE
    BY <1>0, <1>2, <2>1, Going DEF Ahead
  <2>2. ASSUME NEW q \in SideTodo, todo' = [todo EXCEPT ![s] = q], "reopen" \notin Range(q)
        PROVE  FALSE
    <3>1. todo'[s] = q
      BY <1>0, <2>2, TodoChanged, Ends
    <3> QED
      BY <2>2, <3>1 DEF Ahead
  <2>3. /\ "reopen" \notin Range(<<"clear", "negotiate", "start_kex">>)
        /\ "reopen" \notin Range(<<"kexreply", "newkeys", "activate", "ext_info", "expect_newkeys">>)
        /\ "reopen" \notin Range(<<"newkeys", "activate", "expect_newkeys">>)
        /\ "reopen" \notin Range(<<"clear", "mark", "kexinit", "read">>)
        /\ "reopen" \notin Range(<<"clear", "mark", "kexinit", "start_kex">>)
        /\ \A op : op # "reopen" => "reopen" \notin Range(<<op>>)
        /\ "reopen" \notin Range(<<>>)
    BY RangeIs
  <2>4. ~(ReadTimeout(s) \/ StartKex(s) \/ ActivateOutbound(s) \/ Expect(s)
          \/ LeaveKex(s) \/ Reopen(s) \/ SendChannelReply(s))
    BY <2>1 DEF ReadTimeout, StartKex, ActivateOutbound, Expect, LeaveKex, Reopen, SendChannelReply
  <2>5. ~SendDirect(s)
    BY <2>1 DEF SendDirect
  <2>6. ~(ReadFails(s) \/ ReadEof(s) \/ ReplyTimesOut(s))
    BY <1>2 DEF ReadFails, ReadEof, ReplyTimesOut, Fail, Ahead
  <2>7. ~LoopTop(s)
    BY <2>2, <2>3, OpsTyped DEF LoopTop
  <2>8. ~Negotiate(s)
    BY <2>2, <2>3, OpsTyped, NegotiateTodo
  <2>9. ~(ReadKexInit(s) \/ ReadKexDh(s) \/ ReadKexReply(s) \/ ReadRequest(s) \/ ReadUnhandled(s)
          \/ ReadOther(s) \/ ReadGlobalReply(s))
    BY <2>2, <2>3, OpsTyped DEF ReadKexInit, ReadKexDh, ReadKexReply, ReadRequest, ReadUnhandled,
       ReadOther, ReadGlobalReply, ReadThen
  <2> QED
    BY <2>4, <2>5, <2>6, <2>7, <2>8, <2>9 DEF TransportThread
<1> QED
  BY <1>1, <1>2

\* A transport thread does nothing to what the other end has to itself, and adds
\* nothing to what the other end has sent.
LEMMA TransportLeaves ==
    ASSUME Typed, NEW s \in Side, TransportThread(Peer(s))
    PROVE  Calm(s)
<1> DEFINE u == Peer(s)
<1>0. /\ u \in Side /\ Peer(u) = s /\ u # s /\ s \in Procs /\ At(u) = u /\ At(s) = s /\ u \in Procs
      /\ \A t \in Threads : t \in Procs /\ t # u
  BY Ends
<1>1. \A r \in Procs : r # u => todo'[r] = todo[r]
  <2>1. PICK q : todo' = [todo EXCEPT ![u] = q] \/ todo' = todo
    BY DEF TransportThread, LoopTop, ReadTimeout, ReadFails, ReadEof, Fail, ReadKexInit,
       Negotiate, StartKex, ReadKexDh, ReadKexReply, SendDirect, ActivateOutbound, Expect,
       ReadNewKeys, ActivateInbound, LeaveKex, Reopen, ReadRequest, ReadUnhandled, ReadOther, ReadGlobalReply,
       SendChannelReply, ReplyTimesOut, ReadThen, Done
  <2> QED
    BY <2>1 DEF Typed
<1>2. Ahead(s)' = Ahead(s) /\ \A t \in Threads : Ahead(t)' = Ahead(t)
  BY <1>0, <1>1 DEF Ahead
<1>3. /\ local_kex_init'[s] = local_kex_init[s] /\ exchanged'[s] = exchanged[s]
      /\ in_key'[s] = in_key[s] /\ clear_to_send'[s] = clear_to_send[s]
  BY <1>0 DEF TransportThread, LoopTop, ReadTimeout, ReadFails, ReadEof, Fail, ReadKexInit,
     Negotiate, StartKex, ReadKexDh, ReadKexReply, SendDirect, ActivateOutbound, Expect,
     ReadNewKeys, ActivateInbound, LeaveKex, Reopen, ReadRequest, ReadUnhandled, ReadOther, ReadGlobalReply,
     SendChannelReply, ReplyTimesOut, kex, keys, gate, Typed
<1>4. Open(wire'[u]) => Open(wire[u])
  <2>1. ASSUME NEW ty, Reads(u, ty)
        PROVE  Open(wire'[u]) => Open(wire[u])
    BY <1>0, <2>1, Reading DEF Taking
  <2>2. ASSUME NEW type, NEW val, SendMessage(u, type, val)
        PROVE  wire'[u] = wire[u]
    BY <1>0, <2>2 DEF SendMessage, Typed
  <2>3. CASE ReadKexInit(u) \/ ReadKexDh(u) \/ ReadKexReply(u) \/ ReadNewKeys(u) \/ ReadRequest(u)
             \/ ReadUnhandled(u) \/ ReadOther(u) \/ ReadGlobalReply(u)
    BY <2>1, <2>3 DEF ReadKexInit, ReadKexDh, ReadKexReply, ReadNewKeys, ActivateInbound, ReadRequest,
       ReadUnhandled, ReadOther, ReadGlobalReply, ReadThen
  <2>4. CASE StartKex(u) \/ SendDirect(u) \/ SendChannelReply(u)
    BY <2>2, <2>4 DEF StartKex, SendDirect, SendChannelReply, SendUserMessage
  <2>5. CASE LoopTop(u) \/ ReadTimeout(u) \/ ReadFails(u) \/ ReadEof(u) \/ Negotiate(u)
             \/ ActivateOutbound(u) \/ Expect(u) \/ LeaveKex(u) \/ Reopen(u) \/ ReplyTimesOut(u)
    BY <2>5 DEF LoopTop, ReadTimeout, ReadFails, ReadEof, Fail, Negotiate, ActivateOutbound,
       Expect, LeaveKex, Reopen, ReplyTimesOut
  <2> QED
    BY <2>3, <2>4, <2>5 DEF TransportThread
<1> QED
  BY <1>2, <1>3, <1>4 DEF Calm

\* Neither does a thread of the other end ...
LEMMA OthersLeave ==
    ASSUME Typed, NEW s \in Side, NEW r \in Procs, At(r) = Peer(s),
           \/ SendsKexInit(r)
           \/ /\ r \in Threads
              /\ \/ \E kind \in Kind : UserSends(r, kind)
                 \/ SendGlobalRequest(r) \/ Renegotiate(r)
    PROVE  Calm(s)
<1> DEFINE u == Peer(s)
<1>0. /\ u \in Side /\ Peer(u) = s /\ u # s /\ s \in Procs /\ At(s) = s /\ s # r
      /\ \A t \in Threads : t \in Procs /\ (Home[t] = s => t # r) /\ At(t) = Home[t]
  BY Ends
<1>1. \A x \in Procs : x # r => todo'[x] = todo[x]
  BY DEF SendsKexInit, Clear, Mark, SendKexInit, UserSends, SendGlobalRequest, Renegotiate, Done,
     Typed
<1>2. Ahead(s)' = Ahead(s) /\ \A t \in Threads : Home[t] = s => Ahead(t)' = Ahead(t)
  BY <1>0, <1>1 DEF Ahead
<1>3. /\ local_kex_init'[s] = local_kex_init[s] /\ exchanged'[s] = exchanged[s]
      /\ in_key'[s] = in_key[s] /\ clear_to_send'[s] = clear_to_send[s]
  BY <1>0 DEF SendsKexInit, Clear, Mark, SendKexInit, UserSends, SendGlobalRequest, Renegotiate,
     kex, keys, gate, Typed
<1>4. wire'[u] = wire[u]
  <2>1. ASSUME NEW type, NEW val, SendMessage(u, type, val)
        PROVE  wire'[u] = wire[u]
    BY <1>0, <2>1 DEF SendMessage, Typed
  <2> QED
    BY <1>0, <2>1 DEF SendsKexInit, Clear, Mark, SendKexInit, UserSends, SendGlobalRequest,
       SendUserMessage, Renegotiate
<1> QED
  BY <1>2, <1>3, <1>4 DEF Calm

\* ... and those of its own are stopped, or not yet there.
LEMMA OwnThreadsLeave ==
    ASSUME Typed, Careful, NEW s \in Side, SettlingOK(s), NEW r \in Threads, Home[r] = s,
           \/ SendsKexInit(r)
           \/ \E kind \in Kind : UserSends(r, kind)
           \/ SendGlobalRequest(r)
           \/ Renegotiate(r)
    PROVE  Calm(s)
<1>0. s \in Procs /\ r \in Procs /\ s # r /\ At(r) = s /\ At(s) = s
  BY Ends
<1>1. todo'[s] = todo[s]
  BY <1>0 DEF SendsKexInit, Clear, Mark, SendKexInit, UserSends, SendGlobalRequest, Renegotiate,
     Done, Typed
<1>2. SUFFICES ASSUME "reopen" \in Ahead(s) PROVE FALSE
  BY <1>1 DEF Calm, Ahead
<1>3. ~clear_to_send[s] /\ "kexinit" \notin Ahead(r)
  BY <1>2 DEF SettlingOK
<1>4. ~SendsKexInit(r)
  <2>1. SUFFICES ASSUME todo[r] # <<>>, Head(todo[r]) \in {"clear", "mark", "kexinit"}
                 PROVE  FALSE
    BY DEF SendsKexInit, Clear, Mark, SendKexInit, Doing
  <2>2. todo[r] \in CallerTodo
    BY DEF Typed
  <2>3. todo[r] = <<"await">>
    BY <1>3, <2>1, <2>2, CallerKexInit DEF Ahead
  <2> QED
    BY <2>1, <2>3
<1>5. ~SendGlobalRequest(r) /\ ~\E kind \in Kind : UserSends(r, kind)
  BY <1>3 DEF SendGlobalRequest, UserSends, SendUserMessage
<1>6. ~Renegotiate(r)
  <2>1. SUFFICES ASSUME Renegotiate(r) PROVE FALSE
    OBVIOUS
  <2>2. ~scenario.hasty
    BY <2>1 DEF Renegotiate, Careful
  <2>3. ~Settling(s)
    BY <2>1, <2>2 DEF Renegotiate
  <2> QED
    BY <1>2, <2>3, SettlingMeans DEF Settling
<1> QED
  BY <1>4, <1>5, <1>6

\* So SettlingOK is kept.
LEMMA SettlingStays ==
    ASSUME Typed, Careful, CarefulInv, Next, NEW s \in Side, SettlingOK(s)
    PROVE  SettlingOK(s)'
<1>0. /\ Peer(s) \in Side /\ Peer(s) # s /\ s \in Procs /\ At(s) = s
      /\ \A u \in Side : u = s \/ u = Peer(s)
  BY Ends
<1>1. ASSUME ReadNewKeys(s)
      PROVE  SettlingOK(s)'
  <2>1. Taking(s, "newkeys")
    BY <1>1, Reading DEF ReadNewKeys, ActivateInbound
  <2>2. /\ Ahead(s) = {"read"} /\ exchanged[s] # NoKey /\ wire'[Peer(s)] = wire[Peer(s)]
    BY <2>1 DEF Taking
  <2>3. local_kex_init[s] # 0 /\ ~clear_to_send[s] /\ ~Open(wire[Peer(s)])
    BY <2>2 DEF CarefulInv, EndOK, OpeningOK, SwitchingOK, SentOK
  <2>4. /\ in_key'[s] = exchanged[s] /\ local_kex_init'[s] = 0 /\ exchanged'[s] = NoKey
        /\ clear_to_send'[s] = clear_to_send[s]
    BY <1>1 DEF ReadNewKeys, ActivateInbound, Typed, gate
  <2>5. \A t \in Threads : todo'[t] = todo[t]
    BY <1>1, Ends DEF ReadNewKeys, ActivateInbound, Typed
  <2>6. \A t \in Threads : Home[t] = s => "kexinit" \notin Ahead(t)'
    BY <2>2, <2>5, Ends DEF CarefulInv, SendingOK, Ahead
  <2> QED
    BY <2>2, <2>3, <2>4, <2>6 DEF SettlingOK
<1>2. ASSUME TransportThread(s), ~ReadNewKeys(s)
      PROVE  SettlingOK(s)'
  <2>1. SUFFICES ASSUME "reopen" \in Ahead(s)' PROVE SettlingOK(s)'
    BY DEF SettlingOK
  <2>2. LeaveKex(s) /\ "reopen" \in Ahead(s)
    BY <1>2, <2>1, SettlingBegins
  <2>3. \A t \in Threads : todo'[t] = todo[t]
    BY <2>2, Ends DEF LeaveKex, Done, Typed
  <2> QED
    BY <2>2, <2>3 DEF LeaveKex, SettlingOK, kex, keys, Ahead
<1>3. ASSUME TransportThread(Peer(s))
      PROVE  SettlingOK(s)'
  BY <1>3, TransportLeaves, CalmKeeps
<1>4. ASSUME SendsKexInit(s)
      PROVE  SettlingOK(s)'
  <2>1. SUFFICES ASSUME "reopen" \in Ahead(s)' PROVE FALSE
    BY DEF SettlingOK
  <2>2. PICK op \in {"clear", "mark", "kexinit"} : Doing(s, op) /\ Done(s)
    BY <1>4 DEF SendsKexInit, Clear, Mark, SendKexInit
  <2>3. "reopen" \in Ahead(s) /\ op \in Ahead(s)
    BY <1>0, <2>1, <2>2, Going DEF Ahead
  <2> QED
    BY <2>3, SettlingMeans
<1>5. ASSUME NEW r \in Procs, SendsKexInit(r), r # s
      PROVE  SettlingOK(s)'
  <2>1. CASE At(r) = Peer(s)
    BY <1>5, <2>1, OthersLeave, CalmKeeps
  <2>2. CASE At(r) = s
    <3>1. r \in Threads /\ Home[r] = s
      BY <1>5, <2>2, Ends
    <3> QED
      BY <1>5, <3>1, OwnThreadsLeave, CalmKeeps
  <2> QED
    BY <1>0, <2>1, <2>2, Ends
<1>6. ASSUME NEW t \in Threads,
             (\E kind \in Kind : UserSends(t, kind)) \/ SendGlobalRequest(t) \/ Renegotiate(t)
      PROVE  SettlingOK(s)'
  <2>1. t \in Procs /\ At(t) = Home[t] /\ (Home[t] = s \/ Home[t] = Peer(s))
    BY <1>0, Ends
  <2>2. CASE Home[t] = s
    BY <1>6, <2>2, OwnThreadsLeave, CalmKeeps
  <2>3. CASE Home[t] = Peer(s)
    BY <1>6, <2>1, <2>3, OthersLeave, CalmKeeps
  <2> QED
    BY <2>1, <2>2, <2>3
<1>7. ASSUME NEW t \in Threads, GlobalRequest(t) \/ RenegotiateReturns(t)
      PROVE  SettlingOK(s)'
  <2>1. /\ kex' = kex /\ keys' = keys /\ gate' = gate /\ wire' = wire
        /\ todo' = todo \/ (Doing(t, "await") /\ Done(t))
    BY <1>7 DEF GlobalRequest, RenegotiateReturns
  <2>2. t \in Procs /\ t # s
    BY <1>0, Ends
  <2>3. Ahead(t)' \subseteq Ahead(t) /\ \A x \in Procs : x # t => todo'[x] = todo[x]
    BY <2>1, <2>2, Going DEF Ahead
  <2>4. Ahead(s)' = Ahead(s) /\ \A x \in Threads : Ahead(x)' \subseteq Ahead(x)
    BY <1>0, <2>2, <2>3, Ends DEF Ahead
  <2>5. Calm(s)
    BY <2>1, <2>4 DEF Calm, kex, keys, gate
  <2> QED
    BY <2>5, CalmKeeps
<1> QED
  BY <1>0, <1>1, <1>2, <1>3, <1>4, <1>5, <1>6, <1>7 DEF Next
-----------------------------------------------------------------------------
(* The invariant *)

\* It holds when run() begins.
LEMMA InitInv ==
    ASSUME Init
    PROVE  RekeyInv
<1>1. Typed
  <2>1. <<"clear", "mark", "kexinit", "expect_kexinit">> \in SideTodo /\ <<>> \in CallerTodo
    BY DEF SideTodo, OpeningTodo, KexInitThen, CallerTodo
  <2>2. DOMAIN todo = Procs /\ (\A s \in Side : todo[s] \in SideTodo)
        /\ \A t \in Threads : todo[t] \in CallerTodo
    BY <2>1, Ends DEF Init
  <2>3. <<>> \in Seq(Packet) /\ NoKey \in Key
    BY DEF NoKey, Key
  <2>4. wire \in [Side -> Seq(Packet)]
    BY <2>3 DEF Init
  <2> QED
    BY <2>2, <2>3, <2>4, RekeyAssumption DEF Init, Typed
<1>2. \A t \in Threads : todo[t] = <<>> /\ Ahead(t) = {} /\ mine[t] = 0
  BY Ends, RangeIs DEF Init, Ahead
<1>3. \A s \in Side : Ahead(s) = {"clear", "mark", "kexinit", "expect_kexinit"}
  <2>1. Range(<<"clear", "mark", "kexinit", "expect_kexinit">>)
          = {"clear", "mark", "kexinit", "expect_kexinit"}
    BY RangeIs
  <2> QED
    BY <2>1, Ends DEF Init, Ahead
<1>4. \A s \in Side : wire[s] = <<>>
  BY DEF Init
<1>5. \A s \in Side : /\ (\A ty : ~Has(wire[s], ty)) /\ ~Open(wire[s])
                      /\ OneKexInit(wire[s]) /\ Quiet(wire[s]) /\ Numbers(wire[s])
  BY <1>4 DEF Has, Open, OneKexInit, Quiet, Numbers
<1>6. \A p \in Procs : SendingOK(p)
  <2>1. SUFFICES ASSUME NEW p \in Procs PROVE SendingOK(p)
    OBVIOUS
  <2>2. CASE p \in Threads
    BY <1>2, <2>2 DEF SendingOK
  <2>3. CASE p \in Side
    BY <1>3, <2>3, Ends DEF SendingOK, Init
  <2> QED
    BY <2>2, <2>3, Ends
<1>7. \A s \in Side : EndOK(s)
  <2>1. SUFFICES ASSUME NEW s \in Side PROVE EndOK(s)
    OBVIOUS
  <2>2. OpeningOK(s)
    BY <1>3 DEF OpeningOK, Init
  <2>3. SwitchingOK(s)
    BY <1>3 DEF SwitchingOK, Init
  <2>4. SentOK(s)
    BY <1>5, Ends DEF SentOK, Init
  <2> QED
    BY <2>2, <2>3, <2>4 DEF EndOK
<1>8. UseOK
  <2>1. \A s \in Side : ~need_rekey[s]
    BY DEF Init
  <2>2. \A s \in Side : "read" \notin Ahead(s) /\ "request_success" \notin Ahead(s)
    BY <1>3
  <2> QED
    BY <1>2, <1>5, <2>1, <2>2 DEF UseOK
<1>9. FirstOK
  <2>1. \A s \in Side : FirstOf(s)
    <3>1. SUFFICES ASSUME NEW s \in Side PROVE FirstOf(s)
      OBVIOUS
    <3>2. /\ "expect_kexinit" \in Ahead(s) /\ "negotiate" \notin Ahead(s)
          /\ "request_success" \notin Ahead(s)
      BY <1>3
    <3>3. in_key[s] = NoKey /\ ~Met(s)
      BY DEF Init, Met
    <3> QED
      BY <1>5, <3>2, <3>3 DEF FirstOf
  <2>2. scenario.callers \subseteq Threads
    BY <1>1, RekeyAssumption DEF Typed, Scenario
  <2> QED
    BY <1>2, <2>1, <2>2 DEF FirstOK
<1>10. \A t \in Threads : ~Second(t)
  BY <1>2 DEF Second
<1>11. AskingOK /\ \A s \in Side : SettlingOK(s)
  BY <1>3 DEF Init, AskingOK, SettlingOK
<1> QED
  BY <1>1, <1>6, <1>7, <1>8, <1>9, <1>10, <1>11 DEF RekeyInv, CarefulInv

\* Every step keeps what holds of a careful session.
LEMMA CarefulKept ==
    ASSUME Typed, AskingOK, Careful, CarefulInv, \A s \in Side : SettlingOK(s), Next
    PROVE  CarefulInv'
<1>1. ASSUME NEW p \in Procs, SendsKexInit(p)
      PROVE  CarefulInv'
  BY <1>1, Ends, ClearKeeps, MarkKeeps, SendKexInitKeeps, CallerMarkKeeps, CallerSendsKeeps
  DEF SendsKexInit
<1>2. ASSUME NEW s \in Side, TransportThread(s)
      PROVE  CarefulInv'
  <2>1. CASE ReadFails(s) \/ ReadEof(s) \/ ReplyTimesOut(s)
    BY <2>1, FailKeeps DEF ReadFails, ReadEof, ReplyTimesOut
  <2>2. CASE ReadRequest(s) \/ ReadUnhandled(s) \/ ReadOther(s) \/ ReadGlobalReply(s)
    BY <2>2, ReadsKeep
  <2>3. CASE LoopTop(s) \/ ReadTimeout(s) \/ SendChannelReply(s)
    BY <2>3, LoopTopKeeps, ReadTimeoutKeeps, SendChannelReplyKeeps
  <2>4. CASE ReadKexInit(s) \/ Negotiate(s) \/ StartKex(s) \/ ReadKexDh(s) \/ ReadKexReply(s)
    BY <2>4, ReadKexInitKeeps, NegotiateKeeps, StartKexKeeps, KexReadKeeps
  <2>5. CASE SendDirect(s) \/ ActivateOutbound(s) \/ Expect(s) \/ ReadNewKeys(s)
    BY <2>5, SendDirectKeeps, ActivateKeeps, ExpectKeeps, ReadNewKeysKeeps
  <2>6. CASE LeaveKex(s) \/ Reopen(s)
    BY <2>6, SettlingKeeps
  <2> QED
    BY <1>2, <2>1, <2>2, <2>3, <2>4, <2>5, <2>6 DEF TransportThread
<1>3. ASSUME NEW t \in Threads,
             (\E kind \in Kind : UserSends(t, kind)) \/ GlobalRequest(t) \/ SendGlobalRequest(t)
      PROVE  CarefulInv'
  BY <1>3, UserSendsKeeps, GlobalRequestKeeps
<1>4. ASSUME NEW t \in Threads, Renegotiate(t) \/ RenegotiateReturns(t)
      PROVE  CarefulInv'
  BY <1>4, RenegotiateKeeps, ReturnKeeps
<1> QED
  BY <1>1, <1>2, <1>3, <1>4 DEF Next

\* The scenario does not change.
LEMMA ScenarioKept ==
    ASSUME [Next]_vars
    PROVE  scenario' = scenario
<1>1. ASSUME NEW p \in Procs, SendsKexInit(p)
      PROVE  scenario' = scenario
  BY <1>1 DEF SendsKexInit, Clear, Mark, SendKexInit
<1>2. ASSUME NEW s \in Side, TransportThread(s)
      PROVE  scenario' = scenario
  BY <1>2 DEF TransportThread, LoopTop, ReadTimeout, ReadFails, ReadEof, Fail, ReadKexInit,
     Negotiate, StartKex, ReadKexDh, ReadKexReply, SendDirect, ActivateOutbound, Expect,
     ReadNewKeys, ActivateInbound, LeaveKex, Reopen, ReadRequest, ReadUnhandled, ReadOther, ReadGlobalReply,
     SendChannelReply, ReplyTimesOut
<1>3. ASSUME NEW t \in Threads,
             (\E kind \in Kind : UserSends(t, kind)) \/ GlobalRequest(t) \/ SendGlobalRequest(t)
      PROVE  scenario' = scenario
  BY <1>3 DEF UserSends, GlobalRequest, SendGlobalRequest
<1>4. ASSUME NEW t \in Threads, Renegotiate(t) \/ RenegotiateReturns(t)
      PROVE  scenario' = scenario
  BY <1>4 DEF Renegotiate, RenegotiateReturns
<1>5. CASE UNCHANGED vars
  BY <1>5 DEF vars
<1> QED
  BY <1>1, <1>2, <1>3, <1>4, <1>5 DEF Next

\* A thread is in global_request only where the scenario has global requests.
LEMMA AskingKept ==
    ASSUME AskingOK, [Next]_vars
    PROVE  AskingOK'
<1>1. ASSUME NEW p \in Procs, SendsKexInit(p)
      PROVE  asking' = asking
  BY <1>1 DEF SendsKexInit, Clear, Mark, SendKexInit, sends
<1>2. ASSUME NEW s \in Side, TransportThread(s)
      PROVE  asking' = asking
  BY <1>2 DEF TransportThread, LoopTop, ReadTimeout, ReadFails, ReadEof, Fail, ReadKexInit,
     Negotiate, StartKex, ReadKexDh, ReadKexReply, SendDirect, ActivateOutbound, Expect,
     ReadNewKeys, ActivateInbound, LeaveKex, Reopen, ReadRequest, ReadUnhandled, ReadOther, ReadGlobalReply,
     SendChannelReply, ReplyTimesOut, sends
<1>3. ASSUME NEW t \in Threads,
             \/ \E kind \in Kind : UserSends(t, kind)
             \/ SendGlobalRequest(t) \/ Renegotiate(t) \/ RenegotiateReturns(t)
      PROVE  asking' \subseteq asking
  BY <1>3 DEF UserSends, SendGlobalRequest, Renegotiate, RenegotiateReturns, sends
<1>4. ASSUME NEW t \in Threads, GlobalRequest(t)
      PROVE  "global_request" \in scenario.kinds
  BY <1>4 DEF GlobalRequest
<1>5. CASE UNCHANGED vars
  BY <1>5 DEF vars, sends, AskingOK
<1> QED
  BY <1>1, <1>2, <1>3, <1>4, <1>5, ScenarioKept DEF Next, AskingOK

\* RekeyInv is inductive.
LEMMA InvKept ==
    ASSUME RekeyInv, [Next]_vars
    PROVE  RekeyInv'
<1>1. Typed /\ Typed'
  BY TypedKept DEF RekeyInv
<1>2. Careful' <=> Careful
  BY ScenarioKept DEF Careful
<1>3. ASSUME Careful, Next
      PROVE  CarefulInv' /\ \A s \in Side : SettlingOK(s)'
  BY <1>1, <1>3, CarefulKept, SettlingStays DEF RekeyInv
<1>4. ASSUME Careful, UNCHANGED vars
      PROVE  CarefulInv' /\ \A s \in Side : SettlingOK(s)'
  <2>1. CarefulInv /\ \A s \in Side : SettlingOK(s)
    BY <1>4 DEF RekeyInv
  <2>2. CarefulInv'
    BY <1>1, <1>4, <2>1, NothingKeeps DEF vars
  <2> QED
    BY <1>4, <2>1, <2>2 DEF vars, kex, keys, gate, SettlingOK, Ahead
<1>5. AskingOK'
  BY AskingKept DEF RekeyInv
<1> QED
  BY <1>1, <1>2, <1>3, <1>4, <1>5 DEF RekeyInv

\* Every reachable state satisfies it.
LEMMA RekeyHolds == Spec => []RekeyInv
<1>1. Init => RekeyInv
  BY InitInv
<1>2. RekeyInv /\ [Next]_vars => RekeyInv'
  BY InvKept
<1> QED
  BY <1>1, <1>2, PTL DEF Spec

\* QuietDuringKex: however the threads of a careful session run, no message of
\* an application and no answer to one is on the wire between the KEXINIT and
\* the NEWKEYS of an end, for any number of threads, messages and any limits.
THEOREM QuietKept == Spec => []QuietDuringKex
<1>1. RekeyInv => QuietDuringKex
  <2>1. SUFFICES ASSUME RekeyInv, Careful, NEW s \in Side
                 PROVE  Quiet(wire[s])
    BY DEF QuietDuringKex, BlocksInKex, Quiet
  <2>2. Peer(s) \in Side /\ Peer(Peer(s)) = s
    BY Ends
  <2>3. SentOK(Peer(s))
    BY <2>1, <2>2 DEF RekeyInv, CarefulInv, EndOK
  <2> QED
    BY <2>2, <2>3 DEF SentOK
<1> QED
  BY <1>1, RekeyHolds, PTL

\* SwitchedOnReturn: when renegotiate_keys returns in a careful session, both
\* directions use the keys of the exchange that its own KEXINIT started.
THEOREM KeysSwitched == Spec => SwitchedOnReturn
<1> DEFINE Switched ==
      \A t \in Threads :
          Careful /\ RenegotiateReturns(t) =>
            LET s == Home[t]
                own == IF s = "client" THEN 1 ELSE 2
            IN  in_key[s][own] = mine[t] /\ out_key[s] = in_key[s]
<1>1. RekeyInv /\ [Next]_vars => [Switched]_vars
  <2>1. SUFFICES ASSUME RekeyInv, NEW t \in Threads, Careful, RenegotiateReturns(t)
                 PROVE  /\ in_key[Home[t]][OwnPart(Home[t])] = mine[t]
                        /\ out_key[Home[t]] = in_key[Home[t]]
    BY DEF OwnPart
  <2>2. Doing(t, "await") /\ completion[Home[t]]
    BY <2>1 DEF RenegotiateReturns
  <2>3. Second(t)
    BY <2>1, <2>2, AwaitMeans DEF RekeyInv
  <2>4. OwnOK(t)
    BY <2>1, <2>3 DEF RekeyInv, CarefulInv
  <2> QED
    BY <2>2, <2>4 DEF OwnOK
<1> QED
  BY <1>1, RekeyHolds, PTL DEF Spec, SwitchedOnReturn
=============================================================================
