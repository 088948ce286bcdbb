----------------------------- MODULE SftpProofs -----------------------------
(***************************************************************************)
(* HandleTellTrue and AnsweredOnce for every size of the file, every       *)
(* limit, any number of prefetch threads, calls and failures.              *)
(*                                                                         *)
(* HandleTellTrue: only the server's thread touches the table of open      *)
(* files; of a handle that satisfies the property, Seeked is the offset    *)
(* asked for, whatever was remembered; so a transfer leaves both positions *)
(* at the same place, and a failure leaves nothing remembered.             *)
(*                                                                         *)
(* AnsweredOnce: a number that was not yet given out is nowhere; one that  *)
(* is expected moves from the thread that took it to the server and back,  *)
(* and is in one place at a time, until it is read and no longer expected. *)
(***************************************************************************)
EXTENDS Sftp, FiniteSetTheorems, TLAPS

\* Entries of the table are records of SFTPHandle's three fields.
TableShape ==
    \A h \in DOMAIN file_table :
        file_table[h] = [append |-> file_table[h].append, tell |-> file_table[h].tell,
                         ospos |-> file_table[h].ospos]

TableInv == TableShape /\ HandleTellTrue

\* What TableInv says of one entry.
GoodEntry(f) ==
    /\ f = [append |-> f.append, tell |-> f.tell, ospos |-> f.ospos]
    /\ f.append \/ f.tell \in {NoTell, f.ospos}
-----------------------------------------------------------------------------
(* One handle *)

\* SFTPHandle.read and write seek to where they are asked to be.
LEMMA SeekedIsOffset ==
    ASSUME NEW f, f.tell \in {NoTell, f.ospos}, NEW offset
    PROVE  Seeked(f, offset) = offset
BY DEF Seeked

\* A transfer at the offset asked for leaves a good entry, as does a failure.
LEMMA MovedGood ==
    ASSUME NEW f, GoodEntry(f), NEW offset, NEW n
    PROVE  GoodEntry(Moved(f, offset, Seeked(f, offset), n))
<1>1. CASE f.append
  BY <1>1 DEF GoodEntry, Moved
<1>2. CASE ~f.append
  <2>1. Seeked(f, offset) = offset
    BY <1>2, SeekedIsOffset DEF GoodEntry
  <2> QED
    BY <2>1, <1>2 DEF GoodEntry, Moved
<1> QED
  BY <1>1, <1>2

LEMMA AppendedGood ==
    ASSUME NEW f, GoodEntry(f), f.append, NEW n
    PROVE  GoodEntry(Appended(f, n))
BY DEF GoodEntry, Appended

LEMMA FailedGood ==
    ASSUME NEW f, GoodEntry(f), NEW offset, NEW g \in Failed(f, offset)
    PROVE  GoodEntry(g)
BY DEF GoodEntry, Failed
-----------------------------------------------------------------------------
(* The table *)

\* The invariant is that every entry is good.
LEMMA AllGood ==
    TableInv <=> \A h \in DOMAIN file_table : GoodEntry(file_table[h])
BY DEF TableInv, TableShape, HandleTellTrue, GoodEntry

LEMMA AllGoodPrimed ==
    TableInv' <=> \A h \in DOMAIN file_table' : GoodEntry(file_table'[h])
BY DEF TableInv, TableShape, HandleTellTrue, GoodEntry

\* Replacing one entry by a good one.
LEMMA Replaced ==
    ASSUME TableInv, NEW h, NEW g, GoodEntry(g),
           file_table' = [file_table EXCEPT ![h] = g]
    PROVE  TableInv'
<1>1. ASSUME NEW k \in DOMAIN file_table'
      PROVE  GoodEntry(file_table'[k])
  <2>1. k \in DOMAIN file_table /\ (file_table'[k] = g \/ file_table'[k] = file_table[k])
    BY <1>1
  <2> QED
    BY <2>1, AllGood
<1> QED
  BY <1>1, AllGoodPrimed

\* ServeOpen: a new entry remembers nothing.
LEMMA OpenKeeps == TableInv /\ ServeOpen => TableInv'
<1> SUFFICES ASSUME TableInv, ServeOpen PROVE TableInv'
  OBVIOUS
<1> DEFINE r == Head(requests)
           new == [append |-> r.append, tell |-> NoTell, ospos |-> 0]
<1>1. file_table' = Entered(file_table, new) \/ UNCHANGED file_table
  BY DEF ServeOpen
<1>2. CASE UNCHANGED file_table
  BY <1>2, AllGood, AllGoodPrimed
<1>3. CASE file_table' = Entered(file_table, new)
  <2>1. GoodEntry(new)
    BY DEF GoodEntry
  <2>2. ASSUME NEW k \in DOMAIN file_table'
        PROVE  file_table'[k] = new \/ (k \in DOMAIN file_table /\ file_table'[k] = file_table[k])
    <3> HIDE DEF new
    <3> QED
      BY <1>3 DEF Entered
  <2>3. \A k \in DOMAIN file_table' : GoodEntry(file_table'[k])
    <3> HIDE DEF new
    <3> QED
      BY <2>1, <2>2, AllGood
  <2> QED
    BY <2>3, AllGoodPrimed
<1> QED
  BY <1>1, <1>2, <1>3

\* ServeClose: an entry goes, the others stay.
LEMMA CloseKeeps == TableInv /\ ServeClose => TableInv'
<1> SUFFICES ASSUME TableInv, ServeClose PROVE TableInv'
  OBVIOUS
<1> DEFINE S == DOMAIN file_table \ {Head(requests).handle}
<1>1. file_table' = [k \in S |-> file_table[k]]
  BY DEF ServeClose, Restrict
<1>2. ASSUME NEW k \in DOMAIN file_table'
      PROVE  k \in DOMAIN file_table /\ file_table'[k] = file_table[k]
  BY <1>1
<1> QED
  BY <1>2, AllGood, AllGoodPrimed

\* ServeRead moves the handle, or fails.
LEMMA ReadKeeps == TableInv /\ ServeRead => TableInv'
<1> SUFFICES ASSUME TableInv, ServeRead PROVE TableInv'
  OBVIOUS
<1> DEFINE r == Head(requests)
           f == file_table[r.handle]
<1>1. CASE UnknownHandle(r)
  <2>1. UNCHANGED file_table
    BY <1>1 DEF ServeRead, BadHandle
  <2> QED
    BY <2>1, AllGood, AllGoodPrimed
<1>2. CASE ~UnknownHandle(r)
  <2>1. GoodEntry(f)
    BY <1>2, AllGood DEF UnknownHandle
  <2>2. \/ \E n : file_table' = [file_table EXCEPT
                     ![r.handle] = Moved(f, r.offset, Seeked(f, r.offset), n)]
        \/ \E g \in Failed(f, r.offset) : file_table' = [file_table EXCEPT ![r.handle] = g]
    BY <1>2 DEF ServeRead
  <2> HIDE DEF f, r
  <2>3. \E g : GoodEntry(g) /\ file_table' = [file_table EXCEPT ![r.handle] = g]
    BY <2>1, <2>2, MovedGood, FailedGood
  <2> QED
    BY <2>3, Replaced
<1> QED
  BY <1>1, <1>2

\* ServeWrite moves the handle, appends, or fails.
LEMMA WriteKeeps == TableInv /\ ServeWrite => TableInv'
<1> SUFFICES ASSUME TableInv, ServeWrite PROVE TableInv'
  OBVIOUS
<1> DEFINE r == Head(requests)
           f == file_table[r.handle]
<1>1. CASE UnknownHandle(r)
  <2>1. UNCHANGED file_table
    BY <1>1 DEF ServeWrite, BadHandle
  <2> QED
    BY <2>1, AllGood, AllGoodPrimed
<1>2. CASE ~UnknownHandle(r)
  <2>1. GoodEntry(f)
    BY <1>2, AllGood DEF UnknownHandle
  <2>2. \/ /\ f.append
           /\ file_table' = [file_table EXCEPT ![r.handle] = Appended(f, r.length)]
        \/ file_table' = [file_table EXCEPT
              ![r.handle] = Moved(f, r.offset, Seeked(f, r.offset), r.length)]
        \/ \E g \in Failed(f, r.offset) : file_table' = [file_table EXCEPT ![r.handle] = g]
    BY <1>2 DEF ServeWrite
  <2> HIDE DEF f, r
  <2>3. \E g : GoodEntry(g) /\ file_table' = [file_table EXCEPT ![r.handle] = g]
    BY <2>1, <2>2, MovedGood, AppendedGood, FailedGood
  <2> QED
    BY <2>3, Replaced
<1> QED
  BY <1>1, <1>2

\* The end of the session empties the table.
LEMMA EndKeeps ==
    ASSUME NEW down, ServerEnds(down) PROVE TableInv'
<1>1. DOMAIN file_table' = {}
  BY DEF ServerEnds
<1> QED
  BY <1>1, AllGoodPrimed

\* The other requests leave the table alone.
LEMMA OtherRequestsKeep ==
    ServeInit \/ ServeStat \/ ServeFsetstat \/ ServePath \/ ServeName
        \/ ServeOpendir \/ ServeReaddir => UNCHANGED file_table
BY DEF ServeInit, ServeStat, ServeFsetstat, ServePath, ServeName, ServeOpendir,
       ServeReaddir, tables

\* The server's thread.
LEMMA ServerKeeps == TableInv /\ Server => TableInv'
<1>1. UNCHANGED file_table => (TableInv => TableInv')
  BY AllGood, AllGoodPrimed
<1> QED
  BY <1>1, OpenKeeps, CloseKeeps, ReadKeeps, WriteKeeps, EndKeeps, OtherRequestsKeep
  DEF Server, Serve
-----------------------------------------------------------------------------
(* The client's threads do not touch the table *)

\* The calls the user's thread may begin.
LEMMA CallsKeep == UserCalls => UNCHANGED serverVars
BY DEF UserCalls, CallOpen, CallPath, CallStat, CallChange, CallName, Simple, FileStat,
       FileChange, CallListdir, CallRead, CallWrite, CallSeek, SetPipelined, Prefetch,
       Readv, CallClose, Forget

\* The steps inside a call: those that take the awaited answer, and the others.
LEMMA ReturnsKeep ==
    ReturnsSimple \/ ReturnsOpen \/ ReturnsSize \/ ReturnsRead \/ ReturnsWrite
        \/ ReturnsListdir => UNCHANGED serverVars
BY DEF ReturnsSimple, ReturnsOpen, ReturnsSize, ReturnsRead, ReturnsWrite,
       ReturnsListdir, Returns

LEMMA InCallKeeps == InCall => UNCHANGED serverVars
BY ReturnsKeep
DEF InCall, SendVersion, ReadVersion, UserSend, Dropped, FillDone, FillFromPrefetch,
    FillPoll, FillMiss, FillRequest, Check, FlushChunk, Written, Drain, Advance,
    FlushDone, Finish, AnswerDropped, AnswerSaved, AnswerData, Store, GetSize, Listdir

\* The prefetch threads, parts of requests, and the loss of the channel.
LEMMA OthersKeep ==
    Drop \/ (\E t \in Threads : SendPart(t)) \/ (\E w \in Workers : PrefetchThread(w))
        => UNCHANGED serverVars
BY DEF Drop, SendPart, PrefetchThread, PrefetchNumber, PrefetchSend, PrefetchRecord
-----------------------------------------------------------------------------
\* After any sequence of reads, writes and failures of either, SFTPHandle
\* remembers the position its file really has, or none: for every value of the
\* constants.
THEOREM HandleTold == Spec => []HandleTellTrue
<1>1. Init => TableInv
  <2> SUFFICES ASSUME Init PROVE TableInv
    OBVIOUS
  <2>1. DOMAIN file_table = {}
    BY DEF Init, ServerInit
  <2> QED
    BY <2>1, AllGood
<1>2. TableInv /\ [Next]_vars => TableInv'
  <2> SUFFICES ASSUME TableInv, [Next]_vars PROVE TableInv'
    OBVIOUS
  <2>1. UNCHANGED serverVars => TableInv'
    BY AllGood, AllGoodPrimed DEF serverVars
  <2>2. UNCHANGED vars => UNCHANGED serverVars
    BY DEF vars
  <2> QED
    BY <2>1, <2>2, CallsKeep, InCallKeeps, OthersKeep, ServerKeeps, EndKeeps
    DEF Next, Garbage
<1>3. TableInv => HandleTellTrue
  BY DEF TableInv
<1> QED
  BY <1>1, <1>2, <1>3, PTL DEF Spec
-----------------------------------------------------------------------------
(* Where a number may be *)

\* The positions of a number in a list of packets, and the threads that hold it.
At(s, n) == {i \in DOMAIN s : s[i].num = n}
Once(s, n) == \E i : At(s, n) = {i}
Held(n) == {t \in Threads : out[t] # NoPacket /\ out[t].num = n}

\* Number n is in exactly one place.
OnePlace(n) ==
    \/ At(requests, n) = {} /\ At(responses, n) = {} /\ \E t : Held(n) = {t}
    \/ Held(n) = {} /\ At(responses, n) = {} /\ Once(requests, n)
    \/ Held(n) = {} /\ At(requests, n) = {} /\ Once(responses, n)

Nowhere(n) == Held(n) = {} /\ At(requests, n) = {} /\ At(responses, n) = {}

Listed(s) == \E T : s \in Seq(T)

\* The state of the client's threads: only a call that is about to send holds a
\* request, and nothing is expected before the versions were exchanged.
StageOK ==
    /\ DOMAIN out = Threads
    /\ pc # "send" => out["user"] = NoPacket
    /\ pc \in {"new", "version"} =>
          expecting = {} /\ (\A t \in Threads : out[t] = NoPacket)
          /\ work = [w \in Workers |-> NoWork]
    /\ serving = "new" => pc \in {"new", "version"} /\ responses = <<>>

\* What is expected is in one place, and what was not given out in none.
NumbersOK ==
    sock = "up" /\ ~torn =>
        /\ \A e \in expecting :
              e[1] \in Nat /\ e[1] < request_number /\ OnePlace(e[1])
        /\ \A n \in Nat : n >= request_number => Nowhere(n)

NumberInv ==
    /\ request_number \in Nat \ {0}
    /\ Listed(requests) /\ Listed(responses)
    /\ StageOK /\ NumbersOK

\* A packet more at the end.
LEMMA Longer ==
    ASSUME NEW s, Listed(s), NEW m
    PROVE  /\ Listed(Append(s, m))
           /\ \A n : m.num # n => At(Append(s, m), n) = At(s, n)
           /\ \A n : m.num = n /\ At(s, n) = {} => Once(Append(s, m), n)
<1>1. PICK T : s \in Seq(T)
  BY DEF Listed
<1> DEFINE U == T \cup {m}
<1>2. s \in Seq(U) /\ m \in U
  BY <1>1
<1>3. /\ Append(s, m) \in Seq(U)
      /\ DOMAIN Append(s, m) = DOMAIN s \cup {Len(s) + 1}
      /\ Len(s) + 1 \notin DOMAIN s
      /\ Append(s, m)[Len(s) + 1] = m
      /\ \A i \in DOMAIN s : Append(s, m)[i] = s[i]
  <2> HIDE DEF U
  <2> QED
    BY <1>2
<1>4. ASSUME NEW n, m.num # n PROVE At(Append(s, m), n) = At(s, n)
  BY <1>3, <1>4 DEF At
<1>5. ASSUME NEW n, m.num = n, At(s, n) = {} PROVE At(Append(s, m), n) = {Len(s) + 1}
  BY <1>3, <1>5 DEF At
<1> QED
  BY <1>3, <1>4, <1>5 DEF Listed, Once

\* A packet less at the front.
LEMMA Shorter ==
    ASSUME NEW s, Listed(s), s # <<>>
    PROVE  /\ Listed(Tail(s))
           /\ \A n : Head(s).num # n /\ At(s, n) = {} => At(Tail(s), n) = {}
           /\ \A n : Head(s).num # n /\ Once(s, n) => Once(Tail(s), n)
           /\ \A n : Head(s).num = n /\ Once(s, n) => At(Tail(s), n) = {}
           /\ At(s, Head(s).num) # {}
<1>1. PICK T : s \in Seq(T)
  BY DEF Listed
<1>2. /\ Tail(s) \in Seq(T) /\ Len(s) \in Nat /\ Len(s) # 0
      /\ DOMAIN s = 1 .. Len(s) /\ DOMAIN Tail(s) = 1 .. Len(s) - 1
      /\ \A i \in DOMAIN Tail(s) : Tail(s)[i] = s[i + 1]
      /\ Head(s) = s[1]
  BY <1>1
<1>3. ASSUME NEW n, NEW i \in At(Tail(s), n) PROVE i + 1 \in At(s, n) /\ i \in Nat /\ i # 0
  BY <1>2, <1>3 DEF At
<1>4. ASSUME NEW n, NEW i \in At(s, n), i # 1 PROVE i - 1 \in At(Tail(s), n) /\ i \in Nat
  <2>1. i \in 2 .. Len(s) /\ s[i].num = n
    BY <1>2, <1>4 DEF At
  <2>2. i - 1 \in DOMAIN Tail(s) /\ Tail(s)[i - 1] = s[i]
    BY <2>1, <1>2
  <2> QED
    BY <2>1, <2>2 DEF At
<1>5. 1 \in At(s, Head(s).num)
  BY <1>2 DEF At
<1>6. ASSUME NEW n, Head(s).num # n, At(s, n) = {} PROVE At(Tail(s), n) = {}
  BY <1>3, <1>6
<1>7. ASSUME NEW n, Head(s).num # n, NEW i, At(s, n) = {i} PROVE At(Tail(s), n) = {i - 1}
  <2>1. i # 1
    BY <1>2, <1>7 DEF At
  <2>2. i - 1 \in At(Tail(s), n) /\ i \in Nat
    BY <2>1, <1>4, <1>7
  <2>3. ASSUME NEW j \in At(Tail(s), n) PROVE j = i - 1
    <3>1. j + 1 = i /\ j \in Nat
      BY <1>3, <1>7, <2>3
    <3> QED
      BY <3>1
  <2> QED
    BY <2>2, <2>3
<1>8. ASSUME NEW n, Head(s).num = n, NEW i, At(s, n) = {i} PROVE At(Tail(s), n) = {}
  <2>1. i = 1
    BY <1>5, <1>8
  <2>2. ASSUME NEW j \in At(Tail(s), n) PROVE FALSE
    <3>1. j + 1 = i /\ j \in Nat /\ j # 0
      BY <1>3, <1>8, <2>2
    <3> QED
      BY <3>1, <2>1
  <2> QED
    BY <2>2
<1>9. Listed(Tail(s))
  BY <1>2 DEF Listed
<1> QED
  BY <1>5, <1>6, <1>7, <1>8, <1>9 DEF Once

\* Steps that touch neither the numbers nor where they are.
LEMMA SamePlaces ==
    ASSUME UNCHANGED <<requests, responses, out>>, NEW n
    PROVE  (OnePlace(n)' <=> OnePlace(n)) /\ (Nowhere(n)' <=> Nowhere(n))
BY DEF OnePlace, Nowhere, Held

\* With the channel down, or a request torn, nothing is said of the numbers.
LEMMA Down ==
    ASSUME sock' # "up" \/ torn' PROVE NumbersOK'
BY DEF NumbersOK

\* Numbers move, but those still expected stay in one place.
LEMMA Kept ==
    ASSUME NumbersOK, sock' = sock, ~torn' => ~torn, request_number' = request_number,
           expecting' \subseteq expecting,
           \A e \in expecting' : OnePlace(e[1]) => OnePlace(e[1])',
           \A n \in Nat : Nowhere(n) => Nowhere(n)'
    PROVE  NumbersOK'
BY DEF NumbersOK

\* Nothing moves, and perhaps less is expected.
LEMMA StillThere ==
    ASSUME NumberInv, UNCHANGED <<requests, responses, out, sock, request_number>>,
           ~torn' => ~torn, expecting' \subseteq expecting
    PROVE  NumbersOK'
BY SamePlaces DEF NumberInv, NumbersOK

\* _async_request: a new number is with the thread that took it.
LEMMA Asking ==
    ASSUME NumberInv, NEW t \in Threads, out[t] = NoPacket, NEW f, NEW p,
           AsyncRequest(t, f, p), UNCHANGED <<requests, responses>>
    PROVE  /\ NumbersOK' /\ request_number' \in Nat \ {0}
           /\ DOMAIN out' = Threads /\ \A u \in Threads : u # t => out'[u] = out[u]
<1>0. PICK r : r = request_number
  OBVIOUS
<1>1. /\ DOMAIN out = Threads /\ r \in Nat
      /\ out' = [out EXCEPT ![t] = Numbered(p)]
      /\ expecting' = expecting \cup {<<r, f>>} /\ request_number' = r + 1
      /\ sock' = sock /\ torn' = torn
  BY <1>0 DEF AsyncRequest, NumberInv, StageOK, stream
<1>2. Numbered(p).num = r /\ Numbered(p) # NoPacket
  <2>1. "num" \in DOMAIN Numbered(p) /\ Numbered(p)["num"] = r
    BY <1>0 DEF Numbered
  <2>2. "num" \notin DOMAIN NoPacket
    BY DEF NoPacket
  <2> QED
    BY <2>1, <2>2
<1>3. DOMAIN out' = Threads /\ \A u \in Threads : u # t => out'[u] = out[u]
  BY <1>1
<1>4. out'[t].num = r /\ out'[t] # NoPacket
  BY <1>1, <1>2
<1>5. ASSUME NEW n, n # r PROVE Held(n)' = Held(n)
  BY <1>3, <1>4, <1>5 DEF Held
<1>6. CASE sock = "up" /\ ~torn
  <2>1. Nowhere(r) /\ \A n \in Nat : n >= r => Nowhere(n)
    BY <1>0, <1>1, <1>6 DEF NumberInv, NumbersOK
  <2>2. Held(r)' = {t}
    BY <2>1, <1>3, <1>4 DEF Nowhere, Held
  <2>3. OnePlace(r)'
    BY <2>1, <2>2 DEF Nowhere, OnePlace
  <2>4. ASSUME NEW e \in expecting PROVE e[1] \in Nat /\ e[1] < r + 1 /\ OnePlace(e[1])'
    <3>1. e[1] \in Nat /\ e[1] < r /\ OnePlace(e[1])
      BY <1>0, <1>6 DEF NumberInv, NumbersOK
    <3>2. PICK k : k = e[1]
      OBVIOUS
    <3>3. Held(k)' = Held(k)
      BY <3>1, <3>2, <1>1, <1>5
    <3>4. OnePlace(k)'
      BY <3>1, <3>2, <3>3 DEF OnePlace
    <3> QED
      BY <3>1, <3>2, <3>4, <1>1
  <2>5. ASSUME NEW n \in Nat, n >= r + 1 PROVE Nowhere(n)'
    <3>1. n # r /\ n >= r
      BY <2>5, <1>1
    <3> QED
      BY <3>1, <2>1, <1>5 DEF Nowhere
  <2>6. ASSUME NEW e \in expecting'
        PROVE  (e[1])' \in Nat /\ (e[1])' < request_number' /\ OnePlace(e[1])'
    BY <1>1, <2>3, <2>4, <2>6
  <2> QED
    BY <1>1, <2>5, <2>6 DEF NumbersOK
<1>7. CASE sock # "up" \/ torn
  BY <1>1, <1>7 DEF NumbersOK
<1> QED
  BY <1>1, <1>3, <1>6, <1>7

\* _send_packet: the number goes from the thread to the wire, or the request is torn.
LEMMA Sending ==
    ASSUME NumberInv, NEW t \in Threads, SendPacket(t),
           UNCHANGED <<responses, sock, request_number, expecting>>
    PROVE  /\ NumbersOK' /\ Listed(requests')
           /\ DOMAIN out' = Threads /\ out'[t] = NoPacket
           /\ \A u \in Threads : u # t => out'[u] = out[u]
<1>1. /\ DOMAIN out = Threads /\ Listed(requests)
      /\ out' = [out EXCEPT ![t] = NoPacket] /\ out[t] # NoPacket
      /\ requests' \in {requests, Append(requests, out[t])}
      /\ \/ sock # "up" \/ torn'
         \/ ~torn /\ ~torn' /\ requests' = Append(requests, out[t])
  BY DEF SendPacket, NumberInv, StageOK
<1>0. UNCHANGED responses /\ UNCHANGED sock /\ UNCHANGED request_number /\ UNCHANGED expecting
  OBVIOUS
<1>2. DOMAIN out' = Threads /\ out'[t] = NoPacket /\ \A u \in Threads : u # t => out'[u] = out[u]
  BY <1>1
<1>3. Listed(requests')
  BY <1>1, Longer
<1>4. CASE ~torn /\ ~torn' /\ requests' = Append(requests, out[t])
  <2>1. requests' = Append(requests, out[t])
    BY <1>4
  <2>2. ASSUME NEW n, n # out[t].num
        PROVE  Held(n)' = Held(n) /\ At(requests', n) = At(requests, n)
    BY <1>1, <1>2, <2>1, <2>2, Longer DEF Held
  <2>3. ASSUME NEW n, n = out[t].num, OnePlace(n) PROVE OnePlace(n)'
    <3>1. t \in Held(n)
      BY <1>1, <2>3 DEF Held
    <3>2. Held(n) = {t} /\ At(requests, n) = {} /\ At(responses, n) = {}
      BY <3>1, <2>3 DEF OnePlace
    <3>3. Held(n)' = {}
      BY <3>2, <1>2 DEF Held
    <3>4. Once(Append(requests, out[t]), n)
      BY <3>2, <2>3, <1>1, Longer
    <3> QED
      BY <3>2, <3>3, <3>4, <2>1 DEF OnePlace
  <2>4. ASSUME NEW n, OnePlace(n) PROVE OnePlace(n)'
    <3>1. CASE n # out[t].num
      BY <3>1, <2>2, <2>4 DEF OnePlace, Once
    <3> QED
      BY <3>1, <2>3, <2>4
  <2>5. ASSUME NEW n, Nowhere(n) PROVE Nowhere(n)'
    <3>1. n # out[t].num
      BY <1>1, <2>5 DEF Nowhere, Held
    <3> QED
      BY <3>1, <2>2, <2>5 DEF Nowhere
  <2> QED
    BY <1>0, <1>2, <1>3, <1>4, <2>4, <2>5, Kept DEF NumberInv
<1>5. CASE sock # "up" \/ torn'
  BY <1>0, <1>2, <1>3, <1>5, Down
<1> QED
  BY <1>1, <1>2, <1>3, <1>4, <1>5

\* A request becomes its answer.
LEMMA Answering ==
    ASSUME NumberInv, requests # <<>>, requests' = Tail(requests),
           NEW a, a.num = Head(requests).num, responses' = Append(responses, a),
           UNCHANGED <<out, sock, torn, request_number, expecting>>
    PROVE  NumbersOK' /\ Listed(requests') /\ Listed(responses')
<1>1. Listed(requests) /\ Listed(responses)
  BY DEF NumberInv
<1>2. Listed(requests') /\ Listed(responses')
  BY <1>1, Longer, Shorter
<1>3. \A n : Held(n)' = Held(n)
  BY DEF Held
<1>4. ASSUME NEW n, OnePlace(n), n = a.num PROVE OnePlace(n)'
  <2>1. At(requests, n) # {}
    BY <1>1, <1>4, Shorter
  <2>2. Held(n) = {} /\ At(responses, n) = {} /\ Once(requests, n)
    BY <2>1, <1>4 DEF OnePlace
  <2>3. At(requests', n) = {}
    BY <2>2, <1>1, <1>4, Shorter
  <2>4. Once(Append(responses, a), n)
    BY <2>2, <1>1, <1>4, Longer
  <2> QED
    BY <2>2, <2>3, <2>4, <1>3 DEF OnePlace
<1>5. ASSUME NEW n, OnePlace(n), n # a.num PROVE OnePlace(n)'
  <2>1. At(responses', n) = At(responses, n)
    BY <1>1, <1>5, Longer
  <2>2. /\ At(requests, n) = {} => At(requests', n) = {}
        /\ Once(requests, n) => Once(requests', n)
    BY <1>1, <1>5, Shorter
  <2> QED
    BY <2>1, <2>2, <1>3, <1>5 DEF OnePlace, Once
<1>6. ASSUME NEW n, Nowhere(n) PROVE Nowhere(n)'
  <2>1. n # a.num
    BY <1>1, <1>6, Shorter DEF Nowhere
  <2>2. At(responses', n) = At(responses, n) /\ At(requests', n) = {}
    <3>1. At(Append(responses, a), n) = At(responses, n)
      BY <1>1, <2>1, Longer
    <3>2. At(Tail(requests), n) = {}
      BY <1>1, <1>6, <2>1, Shorter DEF Nowhere
    <3> QED
      BY <3>1, <3>2
  <2> QED
    BY <2>2, <1>3, <1>6 DEF Nowhere
<1> QED
  BY <1>2, <1>4, <1>5, <1>6 DEF NumberInv, NumbersOK

\* _read_response: what was read is no longer expected, the rest stays.
LEMMA Taking ==
    ASSUME NumberInv, TakesAnswer, UNCHANGED <<requests, out, sock, torn, request_number>>
    PROVE  NumbersOK' /\ Listed(responses')
<1>1. /\ Listed(responses) /\ responses # <<>> /\ responses' = Tail(responses)
      /\ expecting' = {e \in expecting : e[1] # Head(responses).num}
  BY DEF NumberInv, TakesAnswer, Answer
<1>2. \A n : Held(n)' = Held(n)
  BY DEF Held
<1>3. ASSUME NEW n, OnePlace(n), n # Head(responses).num PROVE OnePlace(n)'
  <2>1. /\ At(responses, n) = {} => At(responses', n) = {}
        /\ Once(responses, n) => Once(responses', n)
    BY <1>1, <1>3, Shorter
  <2> QED
    BY <2>1, <1>2, <1>3 DEF OnePlace
<1>4. ASSUME NEW n, Nowhere(n) PROVE Nowhere(n)'
  <2>1. n # Head(responses).num
    BY <1>1, <1>4, Shorter DEF Nowhere
  <2>2. At(responses', n) = {}
    BY <1>1, <1>4, <2>1, Shorter DEF Nowhere
  <2> QED
    BY <2>2, <1>2, <1>4 DEF Nowhere
<1>5. Listed(responses')
  BY <1>1, Shorter
<1> QED
  BY <1>1, <1>3, <1>4, <1>5 DEF NumberInv, NumbersOK
-----------------------------------------------------------------------------
(* The steps of the user's thread *)

\* A step inside a session that leaves the server alone.
LEMMA InSession ==
    ASSUME StageOK, pc \notin {"new", "version"}, pc' \notin {"new", "version"},
           serving' = serving, DOMAIN out' = Threads,
           pc' # "send" => out'["user"] = NoPacket
    PROVE  StageOK'
BY DEF StageOK

\* A step that touches neither the wires nor the numbers.
LEMMA UserGoesOn ==
    ASSUME NumberInv, pc \notin {"new", "version", "send"},
           pc' \notin {"new", "version", "send"},
           UNCHANGED <<requests, responses, serverVars, sock, torn, request_number, out>>,
           expecting' \subseteq expecting
    PROVE  NumberInv'
<1>1. NumbersOK'
  BY StillThere
<1>2. StageOK /\ DOMAIN out = Threads /\ out["user"] = NoPacket
  BY DEF NumberInv, StageOK
<1>3. serving' = serving
  BY DEF serverVars
<1>4. StageOK'
  BY <1>2, <1>3, InSession
<1> QED
  BY <1>1, <1>4 DEF NumberInv

\* A request is numbered.
LEMMA UserAsks ==
    ASSUME NumberInv, pc \notin {"new", "version", "send"}, pc' = "send",
           NEW p, AsyncRequest("user", "none", p), UNCHANGED <<requests, responses, serverVars>>
    PROVE  NumberInv'
<1>1. StageOK /\ DOMAIN out = Threads /\ out["user"] = NoPacket /\ "user" \in Threads
  BY DEF NumberInv, StageOK, Threads
<1>2. NumbersOK' /\ request_number' \in Nat \ {0} /\ DOMAIN out' = Threads
  BY <1>1, Asking
<1>3. serving' = serving
  BY DEF serverVars
<1>4. StageOK'
  BY <1>1, <1>2, <1>3, InSession
<1> QED
  BY <1>2, <1>4 DEF NumberInv

\* An answer is read.
LEMMA UserReads ==
    ASSUME NumberInv, TakesAnswer, pc' \notin {"new", "version", "send"},
           UNCHANGED <<requests, serverVars, sock, torn, request_number, out>>
    PROVE  NumberInv'
<1>1. StageOK /\ DOMAIN out = Threads /\ out["user"] = NoPacket /\ pc \in {"wait", "poll"}
  BY DEF NumberInv, StageOK, TakesAnswer
<1>2. NumbersOK' /\ Listed(responses')
  BY Taking
<1>3. serving' = serving
  BY DEF serverVars
<1>4. StageOK'
  BY <1>1, <1>3, InSession
<1> QED
  BY <1>2, <1>4 DEF NumberInv

\* The calls that ask at once.
LEMMA CallsAsk ==
    ASSUME NumberInv
    PROVE  /\ \A m \in Modes : CallOpen(m) => NumberInv'
           /\ \A p : Simple(p) => NumberInv'
           /\ CallListdir => NumberInv'
<1>1. ASSUME NEW m \in Modes, CallOpen(m) PROVE NumberInv'
  <2>1. /\ pc = "idle" /\ pc' = "send" /\ AsyncRequest("user", "none", Open(m))
        /\ UNCHANGED <<requests, responses, serverVars>>
    BY <1>1 DEF CallOpen, Begin, wires
  <2> QED
    BY <2>1, UserAsks
<1>2. ASSUME NEW p, Simple(p) PROVE NumberInv'
  <2>1. /\ pc = "idle" /\ pc' = "send" /\ AsyncRequest("user", "none", p)
        /\ UNCHANGED <<requests, responses, serverVars>>
    BY <1>2 DEF Simple, BeginAside, wires
  <2> QED
    BY <2>1, UserAsks
<1>3. ASSUME CallListdir PROVE NumberInv'
  <2>1. /\ pc = "idle" /\ pc' = "send"
        /\ AsyncRequest("user", "none", [type |-> "opendir"])
        /\ UNCHANGED <<requests, responses, serverVars>>
    BY <1>3 DEF CallListdir, BeginAside, wires
  <2> QED
    BY <2>1, UserAsks
<1> QED
  BY <1>1, <1>2, <1>3

\* What the calls that do not ask leave alone.
Quiet ==
    /\ pc' \notin {"new", "version", "send"}
    /\ UNCHANGED <<requests, responses, serverVars, sock, torn, request_number, out>>
    /\ expecting' \subseteq expecting

LEMMA CallsQuiet ==
    ASSUME UserCalls
    PROVE  \/ \E m \in Modes : CallOpen(m)
           \/ \E p : Simple(p)
           \/ CallListdir
           \/ pc = "idle" /\ Quiet
<1>1. (\E n \in ReadSizes : CallRead(n)) => pc = "idle" /\ Quiet
  BY DEF CallRead, ReadReturns, Quiet, wires, client, stream
<1>2. (\E n \in WriteSizes : CallWrite(n)) => pc = "idle" /\ Quiet
  BY DEF CallWrite, Begin, Quiet, wires, client, stream
<1>3. ASSUME NEW op, NEW n, CallSeek(op, n) PROVE pc = "idle" /\ Quiet
  BY <1>3 DEF CallSeek, Begin, Quiet, wires, client, stream
<1>4. (\E b \in PipelinedArgs : SetPipelined(b)) => pc = "idle" /\ Quiet
  BY DEF SetPipelined, Begin, Quiet, wires, client, stream
<1>5. ASSUME NEW n, Prefetch(n) PROVE pc = "idle" /\ Quiet
  BY <1>5 DEF Prefetch, Begin, Quiet, wires, client, stream
<1>6. ASSUME NEW list, Readv(list) PROVE pc = "idle" /\ Quiet
  BY <1>6 DEF Readv, Begin, Quiet, wires, client, stream
<1>7. ASSUME NEW op, CallClose(op) PROVE pc = "idle" /\ Quiet
  BY <1>7 DEF CallClose, Begin, Quiet, wires, client, stream
<1>8. Forget => pc = "idle" /\ Quiet
  BY DEF Forget, Quiet, wires, stream
<1>9. CallPath \/ CallStat \/ CallChange \/ CallName \/ FileStat \/ FileChange
          => \E p : Simple(p)
  BY DEF CallPath, CallStat, CallChange, CallName, FileStat, FileChange
<1> QED
  BY <1>1, <1>2, <1>3, <1>4, <1>5, <1>6, <1>7, <1>8, <1>9 DEF UserCalls

LEMMA CallsNumber == NumberInv /\ UserCalls => NumberInv'
<1> SUFFICES ASSUME NumberInv, UserCalls PROVE NumberInv'
  OBVIOUS
<1>1. CASE pc = "idle" /\ Quiet
  BY <1>1, UserGoesOn DEF Quiet
<1> QED
  BY <1>1, CallsQuiet, CallsAsk

\* The steps of a call that ask.
LEMMA StepsAsk ==
    ASSUME NumberInv, FillRequest \/ FlushChunk \/ GetSize \/ Listdir
    PROVE  NumberInv'
<1>1. UNCHANGED <<requests, responses, serverVars>>
  BY DEF FillRequest, FlushChunk, GetSize, Listdir, wires
<1>2. pc \in {"fill", "flush", "getsize", "readdir", "closedir"} /\ pc' = "send"
  BY DEF FillRequest, Filling, FlushChunk, GetSize, Listdir, Request
<1>3. \E p : AsyncRequest("user", "none", p)
  BY DEF FillRequest, FlushChunk, GetSize, Listdir, Request
<1> QED
  BY <1>1, <1>2, <1>3, UserAsks

\* The steps of a call that use neither wires nor numbers.
LEMMA StepsQuiet ==
    FillDone \/ FillFromPrefetch \/ FillPoll \/ FillMiss \/ Check \/ Written \/ Drain
        \/ Advance \/ Finish \/ Store \/ Dropped
    => pc \notin {"new", "version", "send"} /\ Quiet
<1>1. FillDone => pc \notin {"new", "version", "send"} /\ Quiet
  BY DEF FillDone, ReadReturns, Quiet, wires, client, stream
<1>2. FillFromPrefetch \/ FillPoll \/ FillMiss => pc \notin {"new", "version", "send"} /\ Quiet
  BY DEF FillFromPrefetch, FillPoll, FillMiss, Filling, Quiet, wires, client, stream
<1>3. Check => pc \notin {"new", "version", "send"} /\ Quiet
  BY DEF Check, ReadReturns, EndCall, Quiet, wires, client, stream
<1>4. Written \/ Drain \/ Advance \/ Finish => pc \notin {"new", "version", "send"} /\ Quiet
  BY DEF Written, Drain, Advance, Finish, Quiet, wires, client, stream
<1>5. Store => pc \notin {"new", "version", "send"} /\ Quiet
  BY DEF Store, Quiet, wires, client, stream
<1>6. Dropped => pc \notin {"new", "version", "send"} /\ Quiet
  BY DEF Dropped, Raise, SizeIs, EndCall, Quiet, wires, client, stream
<1> QED
  BY <1>1, <1>2, <1>3, <1>4, <1>5, <1>6

\* FlushDone ends the call or asks for one thing more.
LEMMA FlushNumbers == NumberInv /\ FlushDone => NumberInv'
<1> SUFFICES ASSUME NumberInv, FlushDone PROVE NumberInv'
  OBVIOUS
<1>1. pc = "flush" /\ UNCHANGED <<requests, responses, serverVars>>
  BY DEF FlushDone, wires
<1>2. \/ pc' = "idle" /\ UNCHANGED client
      \/ pc' = "send" /\ \E p : AsyncRequest("user", "none", p)
  BY DEF FlushDone, Request
<1>3. CASE pc' = "idle" /\ UNCHANGED client
  BY <1>1, <1>3, UserGoesOn DEF client, stream
<1>4. CASE pc' = "send" /\ \E p : AsyncRequest("user", "none", p)
  BY <1>1, <1>4, UserAsks
<1> QED
  BY <1>2, <1>3, <1>4

\* The steps that read an answer.
LEMMA StepsRead ==
    ASSUME NumberInv,
           \/ AnswerDropped \/ AnswerSaved \/ AnswerData
           \/ ReturnsSimple \/ ReturnsOpen \/ ReturnsSize \/ ReturnsRead \/ ReturnsWrite
           \/ ReturnsListdir
    PROVE  NumberInv'
<1> DEFINE Reads ==
      /\ TakesAnswer /\ pc' \notin {"new", "version", "send"}
      /\ UNCHANGED <<requests, serverVars, sock, torn, request_number, out>>
<1>1. AnswerDropped \/ AnswerSaved => Reads
  BY DEF AnswerDropped, AnswerSaved, NotMine, stream
<1>2. AnswerData => Reads
  BY DEF AnswerData, stream
<1>3. ReturnsSimple \/ ReturnsOpen => Reads
  BY DEF ReturnsSimple, ReturnsOpen, Returns, stream
<1>4. ReturnsSize => Reads
  BY DEF ReturnsSize, SizeIs, Returns, stream
<1>5. ReturnsRead => Reads
  BY DEF ReturnsRead, ReadReturns, Returns, stream
<1>6. ReturnsWrite => Reads
  BY DEF ReturnsWrite, EndCall, Returns, stream
<1>7. ReturnsListdir => Reads
  BY DEF ReturnsListdir, Returns, stream
<1>8. Reads
  BY <1>1, <1>2, <1>3, <1>4, <1>5, <1>6, <1>7
<1> QED
  BY <1>8, UserReads

\* _send_packet of the user's thread.
LEMMA UserSends == NumberInv /\ UserSend => NumberInv'
<1> SUFFICES ASSUME NumberInv, UserSend PROVE NumberInv'
  OBVIOUS
<1>1. /\ pc = "send" /\ SendPacket("user") /\ serving' = serving
      /\ responses' = responses /\ sock' = sock /\ request_number' = request_number
      /\ expecting' = expecting
  BY DEF UserSend, serverVars
<1>2. "user" \in Threads
  BY DEF Threads
<1>3. /\ NumbersOK' /\ Listed(requests')
      /\ DOMAIN out' = Threads /\ out'["user"] = NoPacket
  BY <1>1, <1>2, Sending
<1>4. pc' \notin {"new", "version"}
  BY DEF UserSend, Raise, SizeIs, EndCall
<1>5. StageOK'
  BY <1>1, <1>3, <1>4, InSession DEF NumberInv
<1> QED
  BY <1>1, <1>3, <1>5 DEF NumberInv

\* The exchange of versions: numbers begin at 1, these packets have 0.
LEMMA VersionsKeep == NumberInv /\ (SendVersion \/ ReadVersion) => NumberInv'
<1> SUFFICES ASSUME NumberInv, SendVersion \/ ReadVersion PROVE NumberInv'
  OBVIOUS
<1>1. /\ pc \in {"new", "version"} /\ expecting = {} /\ StageOK /\ NumbersOK
      /\ request_number \in Nat \ {0} /\ Listed(requests) /\ Listed(responses)
  BY DEF NumberInv, StageOK, SendVersion, ReadVersion
<1>2. /\ sock' = sock /\ request_number' = request_number /\ expecting' = {}
      /\ out' = out /\ serving' = serving /\ work' = work /\ torn' = torn
  BY <1>1 DEF SendVersion, ReadVersion, client, stream, serverVars
<1>3. \A n : Held(n)' = Held(n)
  BY <1>2 DEF Held
<1>4. CASE SendVersion
  <2> DEFINE m == [type |-> "init", num |-> 0]
  <2>1. requests' = Append(requests, m) /\ responses' = responses /\ pc' = "version"
    BY <1>4 DEF SendVersion
  <2>2. m.num = 0
    OBVIOUS
  <2> HIDE DEF m
  <2>3. Listed(requests') /\ \A n : n # 0 => At(requests', n) = At(requests, n)
    BY <2>1, <2>2, <1>1, Longer
  <2>4. ASSUME sock = "up", ~torn, NEW n \in Nat, n >= request_number PROVE Nowhere(n)'
    <3>1. n # 0 /\ Nowhere(n)
      BY <2>4, <1>1 DEF NumbersOK
    <3> QED
      BY <3>1, <2>1, <2>3, <1>3 DEF Nowhere
  <2>5. NumbersOK'
    BY <1>2, <2>4 DEF NumbersOK
  <2>6. StageOK'
    BY <1>1, <1>2, <2>1 DEF StageOK
  <2> QED
    BY <1>1, <1>2, <2>1, <2>3, <2>5, <2>6 DEF NumberInv
<1>5. CASE ReadVersion
  <2>1. /\ requests' = requests /\ responses # <<>> /\ responses' = Tail(responses)
        /\ pc' \in {"idle", "failed"}
    BY <1>5 DEF ReadVersion
  <2>2. Listed(responses')
    BY <1>1, <2>1, Shorter
  <2>3. ASSUME NEW n, Nowhere(n) PROVE Nowhere(n)'
    <3>1. Head(responses).num # n
      BY <2>3, <2>1, <1>1, Shorter DEF Nowhere
    <3>2. At(responses', n) = {}
      BY <2>3, <3>1, <2>1, <1>1, Shorter DEF Nowhere
    <3> QED
      BY <2>3, <3>2, <2>1, <1>3 DEF Nowhere
  <2>4. NumbersOK'
    BY <1>1, <1>2, <2>3 DEF NumbersOK
  <2>5. serving # "new"
    BY <1>1, <2>1 DEF StageOK
  <2>6. StageOK'
    BY <1>1, <1>2, <2>1, <2>5 DEF StageOK
  <2> QED
    BY <1>1, <1>2, <2>1, <2>2, <2>4, <2>6 DEF NumberInv
<1> QED
  BY <1>4, <1>5

LEMMA StepsNumber == NumberInv /\ InCall => NumberInv'
<1> SUFFICES ASSUME NumberInv, InCall PROVE NumberInv'
  OBVIOUS
<1>1. CASE pc \notin {"new", "version", "send"} /\ Quiet
  BY <1>1, UserGoesOn DEF Quiet
<1> QED
  BY <1>1, StepsAsk, StepsQuiet, FlushNumbers, StepsRead, UserSends, VersionsKeep DEF InCall
-----------------------------------------------------------------------------
(* The prefetch threads, the server and the channel *)

\* A prefetch thread numbers, sends and records.
LEMMA PrefetchNumbers ==
    ASSUME NumberInv, NEW w \in Workers, PrefetchThread(w)
    PROVE  NumberInv'
<1>1. /\ StageOK /\ DOMAIN out = Threads /\ w \in Threads /\ w # "user" /\ "user" \in Threads
      /\ pc' = pc /\ serving' = serving
  BY SftpAssumption DEF NumberInv, StageOK, Threads, PrefetchThread, PrefetchNumber,
     PrefetchSend, PrefetchRecord, serverVars
<1>2. pc \notin {"new", "version"}
  <2>1. pc \in {"new", "version"} => work[w] = NoWork /\ out[w] = NoPacket
    BY <1>1 DEF StageOK
  <2>2. PrefetchNumber(w) => work[w] # NoWork
    BY DEF PrefetchNumber, NoWork
  <2>3. PrefetchSend(w) => out[w] # NoPacket
    BY DEF PrefetchSend, SendPacket
  <2>4. PrefetchRecord(w) => work[w] # NoWork
    BY DEF PrefetchRecord, NoWork
  <2> QED
    BY <2>1, <2>2, <2>3, <2>4 DEF PrefetchThread
<1>3. CASE PrefetchNumber(w)
  <2>1. /\ out[w] = NoPacket /\ UNCHANGED <<requests, responses>>
        /\ \E p : AsyncRequest(w, "file", p)
    BY <1>3 DEF PrefetchNumber, wires
  <2>2. /\ NumbersOK' /\ request_number' \in Nat \ {0}
        /\ DOMAIN out' = Threads /\ out'["user"] = out["user"]
    BY <1>1, <2>1, Asking
  <2>3. StageOK'
    BY <1>1, <1>2, <2>2, InSession DEF StageOK
  <2> QED
    BY <2>1, <2>2, <2>3 DEF NumberInv
<1>4. CASE PrefetchSend(w)
  <2>1. /\ SendPacket(w) /\ responses' = responses /\ sock' = sock
        /\ request_number' = request_number /\ expecting' = expecting
    BY <1>4 DEF PrefetchSend
  <2>2. /\ NumbersOK' /\ Listed(requests')
        /\ DOMAIN out' = Threads /\ out'["user"] = out["user"]
    BY <1>1, <2>1, Sending
  <2>3. StageOK'
    BY <1>1, <1>2, <2>2, InSession DEF StageOK
  <2> QED
    BY <2>1, <2>2, <2>3 DEF NumberInv
<1>5. CASE PrefetchRecord(w)
  <2>1. /\ UNCHANGED <<requests, responses, out, sock, torn, request_number>>
        /\ expecting' = expecting
    BY <1>5 DEF PrefetchRecord, wires, client, stream
  <2>2. NumbersOK'
    BY <2>1, StillThere
  <2>3. StageOK'
    BY <1>1, <1>2, <2>1, InSession DEF StageOK
  <2> QED
    BY <2>1, <2>2, <2>3 DEF NumberInv
<1> QED
  BY <1>3, <1>4, <1>5 DEF PrefetchThread

\* Every request but INIT is answered at once, under its own number.
LEMMA RequestAnswered ==
    ASSUME Serve, ~ServeInit
    PROVE  /\ serving = "running" /\ serving' = serving
           /\ requests # <<>> /\ requests' = Tail(requests)
           /\ \E a : a.num = Head(requests).num /\ responses' = Append(responses, a)
<1> DEFINE r == Head(requests)
           Answered == \E a : a.num = r.num /\ responses' = Append(responses, a)
           Taken == /\ serving = "running" /\ serving' = serving
                    /\ requests # <<>> /\ requests' = Tail(requests)
<1>1. /\ \A c : Respond(Status(r.num, c)) => Answered
      /\ \A h : Respond(Handle(r.num, h)) => Answered
      /\ \A b : Respond(Data(r.num, b)) => Answered
      /\ \A c : Respond(Name(r.num, c)) => Answered
      /\ \A l : Respond(Attrs(r.num, l)) => Answered
      /\ Respond([type |-> "read", num |-> r.num]) => Answered
  BY DEF Respond, Status, Handle, Data, Name, Attrs
<1> HIDE DEF Answered
<1>2. ServeOpen => Taken /\ Answered
  BY <1>1 DEF ServeOpen, Takes
<1>3. ServeClose => Taken /\ Answered
  BY <1>1 DEF ServeClose, Takes
<1>4. ServeRead => Taken /\ Answered
  BY <1>1 DEF ServeRead, Takes, BadHandle
<1>5. ServeWrite => Taken /\ Answered
  BY <1>1 DEF ServeWrite, Takes, BadHandle
<1>6. ServeStat => Taken /\ Answered
  BY <1>1 DEF ServeStat, Takes
<1>7. ServeFsetstat => Taken /\ Answered
  BY <1>1 DEF ServeFsetstat, Takes
<1>8. ServePath \/ ServeName => Taken /\ Answered
  BY <1>1 DEF ServePath, ServeName, Takes
<1>9. ServeOpendir => Taken /\ Answered
  BY <1>1 DEF ServeOpendir, Takes
<1>10. ServeReaddir => Taken /\ Answered
  BY <1>1 DEF ServeReaddir, Takes
<1>11. Taken /\ Answered
  BY <1>2, <1>3, <1>4, <1>5, <1>6, <1>7, <1>8, <1>9, <1>10 DEF Serve
<1> QED
  BY <1>11 DEF Answered

\* The server's thread.
LEMMA ServerNumbers == NumberInv /\ Server => NumberInv'
<1> SUFFICES ASSUME NumberInv, Server PROVE NumberInv'
  OBVIOUS
<1>1. /\ StageOK /\ NumbersOK /\ request_number \in Nat \ {0}
      /\ Listed(requests) /\ Listed(responses)
      /\ pc' = pc /\ work' = work /\ out' = out /\ expecting' = expecting
      /\ sock' = sock /\ torn' = torn /\ request_number' = request_number
  BY DEF Server, NumberInv, client, stream
<1>2. CASE Serve /\ ~ServeInit
  <2>1. PICK a : a.num = Head(requests).num /\ responses' = Append(responses, a)
    BY <1>2, RequestAnswered
  <2>2. /\ serving = "running" /\ serving' = serving
        /\ requests # <<>> /\ requests' = Tail(requests)
    BY <1>2, RequestAnswered
  <2>3. NumbersOK' /\ Listed(requests') /\ Listed(responses')
    BY <1>1, <2>1, <2>2, Answering
  <2>4. StageOK'
    BY <1>1, <2>2 DEF StageOK
  <2> QED
    BY <1>1, <2>3, <2>4 DEF NumberInv
<1>3. CASE ServeInit
  <2> DEFINE m == [type |-> "version", num |-> 0]
  <2>1. /\ serving = "new" /\ requests # <<>> /\ requests' = Tail(requests)
        /\ serving' \in {"running", "ended"}
        /\ responses' = responses \/ responses' = Append(responses, m)
    BY <1>3 DEF ServeInit, Respond
  <2>2. m.num = 0
    OBVIOUS
  <2> HIDE DEF m
  <2>3. expecting = {}
    BY <1>1, <2>1 DEF StageOK
  <2>4. Listed(requests') /\ Listed(responses')
    <3>1. Listed(Tail(requests))
      BY <1>1, <2>1, Shorter
    <3>2. Listed(Append(responses, m))
      BY <1>1, Longer
    <3> QED
      BY <1>1, <2>1, <3>1, <3>2
  <2>5. ASSUME NEW n \in Nat, n # 0, Nowhere(n) PROVE Nowhere(n)'
    <3>1. Head(requests).num # n
      BY <2>5, <2>1, <1>1, Shorter DEF Nowhere
    <3>2. At(requests', n) = {}
      BY <2>5, <3>1, <2>1, <1>1, Shorter DEF Nowhere
    <3>3. At(Append(responses, m), n) = At(responses, n)
      BY <2>2, <2>5, <1>1, Longer
    <3>4. At(responses', n) = {}
      BY <3>3, <2>1, <2>5 DEF Nowhere
    <3>5. Held(n)' = Held(n)
      BY <1>1 DEF Held
    <3> QED
      BY <3>2, <3>4, <3>5, <2>5 DEF Nowhere
  <2>6. NumbersOK'
    BY <1>1, <2>3, <2>5 DEF NumbersOK
  <2>7. StageOK'
    BY <1>1, <2>1 DEF StageOK
  <2> QED
    BY <1>1, <2>4, <2>6, <2>7 DEF NumberInv
<1>4. CASE ServerEnds(sock = "down")
  <2>1. serving' = "ended" /\ UNCHANGED <<requests, responses>>
    BY <1>4 DEF ServerEnds
  <2>2. NumbersOK'
    BY <1>1, <2>1, StillThere
  <2>3. StageOK'
    BY <1>1, <2>1 DEF StageOK
  <2> QED
    BY <1>1, <2>1, <2>2, <2>3 DEF NumberInv
<1> QED
  BY <1>2, <1>3, <1>4 DEF Server

\* A part of a request goes out.
LEMMA PartNumbers ==
    ASSUME NumberInv, NEW t \in Threads, SendPart(t) PROVE NumberInv'
<1>1. /\ UNCHANGED <<requests, responses, out, sock, request_number>>
      /\ expecting' = expecting /\ pc' = pc /\ serving' = serving /\ work' = work
      /\ ~torn' => ~torn
  BY DEF SendPart, wires, serverVars
<1>2. NumbersOK'
  BY <1>1, StillThere
<1>3. StageOK'
  BY <1>1 DEF NumberInv, StageOK
<1> QED
  BY <1>1, <1>2, <1>3 DEF NumberInv

\* The server ends at a torn request.
LEMMA GarbageNumbers == NumberInv /\ Garbage => NumberInv'
<1> SUFFICES ASSUME NumberInv, Garbage PROVE NumberInv'
  OBVIOUS
<1>1. /\ UNCHANGED <<requests, responses, out, request_number>> /\ sock' = "down"
      /\ expecting' = expecting /\ pc' = pc /\ serving' = "ended" /\ work' = work
  BY DEF Garbage, ServerEnds
<1>2. NumbersOK'
  BY <1>1, Down
<1>3. StageOK'
  BY <1>1 DEF NumberInv, StageOK
<1> QED
  BY <1>1, <1>2, <1>3 DEF NumberInv

\* The channel goes down.
LEMMA DropNumbers == NumberInv /\ Drop => NumberInv'
<1> SUFFICES ASSUME NumberInv, Drop PROVE NumberInv'
  OBVIOUS
<1>1. /\ pc \notin {"new", "version"} /\ pc' = pc /\ serving' = serving /\ out' = out
      /\ sock' = "down" /\ requests' = <<>> /\ request_number' = request_number
  BY DEF Drop, serverVars
<1>2. PICK n \in 0 .. Len(responses) : responses' = SubSeq(responses, 1, n)
  BY DEF Drop
<1>3. PICK T : responses \in Seq(T)
  BY DEF NumberInv, Listed
<1>4. responses' \in Seq(T) /\ requests' \in Seq(T)
  BY <1>1, <1>2, <1>3
<1>5. NumbersOK'
  BY <1>1, Down
<1>6. StageOK'
  BY <1>1, InSession DEF NumberInv, StageOK
<1> QED
  BY <1>1, <1>4, <1>5, <1>6 DEF NumberInv, Listed
-----------------------------------------------------------------------------
\* Exactly one place is what the property counts.
LEMMA OnePlaceCounted ==
    ASSUME NEW n, OnePlace(n) PROVE Places(n) = 1
<1>1. Cardinality({}) = 0
  BY FS_EmptySet
<1>2. \A x : Cardinality({x}) = 1
  BY FS_Singleton
<1>3. Places(n) = Cardinality(Held(n)) + Cardinality(At(requests, n))
                  + Cardinality(At(responses, n))
  BY DEF Places, Held, At
<1>4. CASE At(requests, n) = {} /\ At(responses, n) = {} /\ \E t : Held(n) = {t}
  BY <1>1, <1>2, <1>3, <1>4
<1>5. CASE Held(n) = {} /\ At(responses, n) = {} /\ Once(requests, n)
  <2>1. Cardinality(At(requests, n)) = 1
    BY <1>2, <1>5 DEF Once
  <2>2. Cardinality(Held(n)) = 0 /\ Cardinality(At(responses, n)) = 0
    BY <1>1, <1>5
  <2> QED
    BY <1>3, <2>1, <2>2
<1>6. CASE Held(n) = {} /\ At(requests, n) = {} /\ Once(responses, n)
  <2>1. Cardinality(At(responses, n)) = 1
    BY <1>2, <1>6 DEF Once
  <2>2. Cardinality(Held(n)) = 0 /\ Cardinality(At(requests, n)) = 0
    BY <1>1, <1>6
  <2> QED
    BY <1>3, <2>1, <2>2
<1> QED
  BY <1>4, <1>5, <1>6 DEF OnePlace

\* While the channel is up and no request was torn, every number that the user's
\* thread or a prefetch thread expects is in exactly one place: held, on its way to
\* the server, or on its way back; for any number of threads, calls and failures,
\* and however the requests are cut into parts.
THEOREM NoAnswerLost == Spec => []AnsweredOnce
<1>1. Init => NumberInv
  <2> SUFFICES ASSUME Init PROVE NumberInv
    OBVIOUS
  <2>1. /\ requests = <<>> /\ responses = <<>> /\ request_number = 1 /\ expecting = {}
        /\ pc = "new" /\ serving = "new" /\ work = [w \in Workers |-> NoWork]
        /\ out = [t \in Threads |-> NoPacket] /\ "user" \in Threads
    BY DEF Init, ServerInit, Threads
  <2>2. Listed(<<>>)
    <3>1. <<>> \in Seq({})
      OBVIOUS
    <3> QED
      BY <3>1 DEF Listed
  <2>3. StageOK
    BY <2>1 DEF StageOK
  <2>4. \A n : Nowhere(n)
    BY <2>1 DEF Nowhere, Held, At
  <2>5. NumbersOK
    BY <2>1, <2>4 DEF NumbersOK
  <2> QED
    BY <2>1, <2>2, <2>3, <2>5 DEF NumberInv
<1>2. NumberInv /\ [Next]_vars => NumberInv'
  <2> SUFFICES ASSUME NumberInv, [Next]_vars PROVE NumberInv'
    OBVIOUS
  <2>1. CASE UNCHANGED vars
    <3>1. /\ UNCHANGED <<requests, responses, out, sock, torn, request_number>>
          /\ expecting' = expecting /\ pc' = pc /\ serving' = serving /\ work' = work
      BY <2>1 DEF vars, wires, serverVars, client, stream
    <3>2. NumbersOK'
      BY <3>1, StillThere
    <3>3. StageOK'
      BY <3>1 DEF NumberInv, StageOK
    <3> QED
      BY <3>1, <3>2, <3>3 DEF NumberInv
  <2> QED
    BY <2>1, CallsNumber, StepsNumber, PrefetchNumbers, ServerNumbers, DropNumbers,
       PartNumbers, GarbageNumbers DEF Next
<1>3. NumberInv => AnsweredOnce
  BY OnePlaceCounted DEF NumberInv, NumbersOK, AnsweredOnce
<1> QED
  BY <1>1, <1>2, <1>3, PTL DEF Spec
=============================================================================
