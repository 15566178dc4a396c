--------------------------- MODULE DriverLogProofs ---------------------------
(***************************************************************************)
(* Proofs about DriverLog, for every number of messages, lines and         *)
(* attempts to connect: types; one connection at a time; a stop that has   *)
(* been answered is followed by one line at most; and the lines of a       *)
(* reader are shown in the order of the file with none left out between    *)
(* two of them.                                                            *)
(***************************************************************************)
EXTENDS DriverLog, SequenceTheorems, FiniteSetTheorems, TLAPS

(***************************************************************************)
(* Lines on a connection                                                   *)
(*                                                                         *)
(* q is what is on its way to the browser and d what the modal shows of    *)
(* reader r.  The numbers of the last line shown and of the lines on their *)
(* way are in a row when they come in order and leave no number out.       *)
(***************************************************************************)
Marks(q, r) == {i \in 1 .. Len(q) : q[i].to = r /\ q[i].result > 0}

Top(d) == {d[i] : i \in {j \in 1 .. Len(d) : j = Len(d)}}

Numbers(q, d, r) == Top(d) \cup {q[i].result : i \in Marks(q, r)}

InOrder(q, d, r) ==
  /\ \A i, j \in Marks(q, r) : i < j => q[i].result < q[j].result
  /\ \A i \in Marks(q, r), n \in Top(d) : n < q[i].result

InRow(q, d, r) ==
  \A a, b \in Numbers(q, d, r), n \in Nat : a <= n /\ n <= b => n \in Numbers(q, d, r)

\* The next number is n.
UpTo(q, d, r, n) ==
  /\ \A a \in Numbers(q, d, r) : a < n
  /\ Numbers(q, d, r) # {} => n - 1 \in Numbers(q, d, r)

LEMMA NumbersAre ==
  ASSUME NEW q \in Seq(Reply), NEW d \in Seq(Nat), NEW r
  PROVE  Numbers(q, d, r) \subseteq Nat
<1>1. ASSUME NEW i \in 1 .. Len(q) PROVE q[i].result \in Nat
  <2>1. q[i] \in Reply
    BY ElementOfSeq
  <2> QED BY <2>1 DEF Reply
<1>2. \A i \in 1 .. Len(d) : d[i] \in Nat
  BY ElementOfSeq
<1> QED BY <1>1, <1>2 DEF Numbers, Marks, Top

\* A message that is no line of r is written.
LEMMA OtherWritten ==
  ASSUME NEW q \in Seq(Reply), NEW m \in Reply, NEW d, NEW r, m.to # r \/ m.result = 0
  PROVE  /\ Marks(Append(q, m), r) = Marks(q, r)
         /\ Numbers(Append(q, m), d, r) = Numbers(q, d, r)
         /\ InOrder(q, d, r) => InOrder(Append(q, m), d, r)
<1> DEFINE p == Append(q, m)
<1>1. /\ Len(p) = Len(q) + 1 /\ p[Len(q) + 1] = m /\ Len(q) \in Nat
      /\ \A i \in 1 .. Len(q) : p[i] = q[i]
  BY AppendProperties, LenProperties
<1>2. ~(m.to = r /\ m.result > 0)
  BY DEF Reply
<1>3. Marks(p, r) = Marks(q, r)
  BY <1>1, <1>2 DEF Marks
<1>4. \A i \in Marks(q, r) : p[i].result = q[i].result
  BY <1>1 DEF Marks
<1>5. Numbers(p, d, r) = Numbers(q, d, r)
  BY <1>3, <1>4 DEF Numbers
<1> QED BY <1>3, <1>4, <1>5 DEF InOrder

\* The next line of r is written.
LEMMA LineWritten ==
  ASSUME NEW q \in Seq(Reply), NEW m \in Reply, NEW d \in Seq(Nat), NEW r,
         m.to = r, m.result > 0,
         InOrder(q, d, r), InRow(q, d, r), UpTo(q, d, r, m.result)
  PROVE  LET p == Append(q, m)
         IN  InOrder(p, d, r) /\ InRow(p, d, r) /\ UpTo(p, d, r, m.result + 1)
<1> DEFINE p == Append(q, m)
<1>1. /\ Len(p) = Len(q) + 1 /\ p[Len(q) + 1] = m /\ Len(q) \in Nat
      /\ \A i \in 1 .. Len(q) : p[i] = q[i]
  BY AppendProperties, LenProperties
<1>2. m.result \in Nat /\ m.result > 0
  BY DEF Reply
<1>3. Marks(p, r) = Marks(q, r) \cup {Len(q) + 1}
  BY <1>1 DEF Marks
<1>4. /\ \A i \in Marks(q, r) : i < Len(q) + 1 /\ p[i].result = q[i].result
      /\ p[Len(q) + 1].result = m.result
  BY <1>1 DEF Marks
<1>5. Numbers(p, d, r) = Numbers(q, d, r) \cup {m.result}
  <2>1. ASSUME NEW i \in Marks(p, r)
        PROVE  p[i].result \in {q[j].result : j \in Marks(q, r)} \cup {m.result}
    BY <1>3, <1>4
  <2>2. ASSUME NEW i \in Marks(q, r) PROVE q[i].result \in {p[j].result : j \in Marks(p, r)}
    <3>1. i \in Marks(p, r) /\ q[i].result = p[i].result
      BY <1>3, <1>4
    <3> QED BY <3>1
  <2>3. m.result \in {p[j].result : j \in Marks(p, r)}
    <3>1. Len(q) + 1 \in Marks(p, r) /\ m.result = p[Len(q) + 1].result
      BY <1>3, <1>4
    <3> QED BY <3>1
  <2> HIDE DEF p
  <2> QED BY <2>1, <2>2, <2>3 DEF Numbers
<1>6. \A a \in Numbers(q, d, r) : a < m.result /\ a \in Nat
  BY NumbersAre DEF UpTo
<1>7. InOrder(p, d, r)
  <2>1. \A i \in Marks(q, r) : q[i].result < m.result
    BY <1>6 DEF Numbers
  <2>2. \A n \in Top(d) : n < m.result
    BY <1>6 DEF Numbers
  <2>3. ASSUME NEW i \in Marks(p, r), NEW j \in Marks(p, r), i < j
        PROVE  p[i].result < p[j].result
    <3>1. i # Len(q) + 1
      BY <1>1, <1>3, <1>4, <2>3 DEF Marks
    <3> QED BY <1>3, <1>4, <2>1, <2>3, <3>1 DEF InOrder
  <2>4. ASSUME NEW i \in Marks(p, r), NEW n \in Top(d)
        PROVE  n < p[i].result
    BY <1>3, <1>4, <2>2 DEF InOrder
  <2> QED BY <2>3, <2>4 DEF InOrder
<1>8. InRow(p, d, r)
  <2> SUFFICES ASSUME NEW a \in Numbers(p, d, r), NEW b \in Numbers(p, d, r), NEW n \in Nat,
                      a <= n, n <= b
               PROVE  n \in Numbers(p, d, r)
    BY DEF InRow
  <2>1. CASE n = m.result
    BY <1>5, <2>1
  <2>2. CASE n # m.result
    <3>1. n < m.result /\ a \in Numbers(q, d, r) /\ n <= m.result - 1
      BY <1>2, <1>5, <1>6, <2>2
    <3>2. m.result - 1 \in Numbers(q, d, r)
      BY <3>1 DEF UpTo
    <3> QED BY <1>5, <3>1, <3>2 DEF InRow
  <2> QED BY <2>1, <2>2
<1>9. UpTo(p, d, r, m.result + 1)
  BY <1>2, <1>5, <1>6 DEF UpTo
<1> QED BY <1>7, <1>8, <1>9

\* A message comes to the browser.
LEMMA TailIs ==
  ASSUME NEW q \in Seq(Reply), q # <<>>
  PROVE  /\ Head(q) = q[1] /\ Head(q) \in Reply /\ Tail(q) \in Seq(Reply)
         /\ Len(q) \in Nat /\ Len(q) > 0
         /\ Len(Tail(q)) = Len(q) - 1
         /\ \A i \in 1 .. Len(Tail(q)) : Tail(q)[i] = q[i + 1]
<1>1. Head(q) = q[1]
  OBVIOUS
<1>2. Len(q) \in Nat \ {0}
  BY EmptySeq
<1> QED BY <1>1, <1>2, HeadTailProperties

LEMMA MarksOfTail ==
  ASSUME NEW q \in Seq(Reply), q # <<>>, NEW r
  PROVE  /\ \A i \in Marks(Tail(q), r) : i + 1 \in Marks(q, r) /\ Tail(q)[i] = q[i + 1]
         /\ \A i \in Marks(q, r) : i # 1 => i - 1 \in Marks(Tail(q), r) /\ Tail(q)[i - 1] = q[i]
         /\ \A i \in Marks(Tail(q), r) : i \in Nat
BY TailIs DEF Marks

\* It is no line of r.
LEMMA OtherCame ==
  ASSUME NEW q \in Seq(Reply), q # <<>>, NEW d, NEW r,
         Head(q).to # r \/ Head(q).result = 0
  PROVE  /\ Numbers(Tail(q), d, r) = Numbers(q, d, r)
         /\ InOrder(q, d, r) => InOrder(Tail(q), d, r)
<1> DEFINE p == Tail(q)
<1>1. 1 \notin Marks(q, r)
  BY TailIs DEF Marks, Reply
<1>2. {p[i].result : i \in Marks(p, r)} = {q[i].result : i \in Marks(q, r)}
  <2>1. ASSUME NEW i \in Marks(p, r) PROVE p[i].result \in {q[j].result : j \in Marks(q, r)}
    <3>1. i + 1 \in Marks(q, r) /\ p[i] = q[i + 1]
      BY MarksOfTail
    <3> QED BY <3>1
  <2>2. ASSUME NEW i \in Marks(q, r) PROVE q[i].result \in {p[j].result : j \in Marks(p, r)}
    <3>1. i - 1 \in Marks(p, r) /\ p[i - 1] = q[i]
      BY <1>1, MarksOfTail
    <3> QED BY <3>1
  <2> QED BY <2>1, <2>2
<1>3. Numbers(p, d, r) = Numbers(q, d, r)
  BY <1>2 DEF Numbers
<1>4. ASSUME InOrder(q, d, r) PROVE InOrder(p, d, r)
  <2>1. ASSUME NEW i \in Marks(p, r), NEW j \in Marks(p, r), i < j
        PROVE  p[i].result < p[j].result
    <3>1. /\ i + 1 \in Marks(q, r) /\ p[i] = q[i + 1] /\ i \in Nat
          /\ j + 1 \in Marks(q, r) /\ p[j] = q[j + 1] /\ j \in Nat
      BY MarksOfTail
    <3>2. i + 1 < j + 1
      BY <2>1, <3>1
    <3> QED BY <1>4, <3>1, <3>2 DEF InOrder
  <2>2. ASSUME NEW i \in Marks(p, r), NEW n \in Top(d) PROVE n < p[i].result
    <3>1. i + 1 \in Marks(q, r) /\ p[i] = q[i + 1]
      BY MarksOfTail
    <3> QED BY <1>4, <3>1 DEF InOrder
  <2> QED BY <2>1, <2>2 DEF InOrder
<1> QED BY <1>3, <1>4

\* It is a line of r: it is the next one, and is shown.
LEMMA LineCame ==
  ASSUME NEW q \in Seq(Reply), q # <<>>, NEW d \in Seq(Nat), NEW r,
         Head(q).to = r, Head(q).result > 0,
         InOrder(q, d, r), InRow(q, d, r)
  PROVE  LET p == Tail(q)
             e == Append(d, Head(q).result)
         IN  /\ d # <<>> => Head(q).result = d[Len(d)] + 1
             /\ InOrder(p, e, r) /\ InRow(p, e, r)
             /\ \A n \in Nat : UpTo(q, d, r, n) => UpTo(p, e, r, n)
<1> DEFINE p == Tail(q)
           h == Head(q).result
           e == Append(d, h)
<1>1. h \in Nat /\ h > 0 /\ h = q[1].result /\ 1 \in Marks(q, r)
  <2>1. Head(q) = q[1] /\ Head(q) \in Reply /\ 1 \in 1 .. Len(q)
    BY TailIs
  <2> QED BY <2>1 DEF Marks, Reply
<1>2. /\ Len(e) = Len(d) + 1 /\ e[Len(d) + 1] = h /\ Len(d) \in Nat
  BY <1>1, AppendProperties, LenProperties
<1>3. Top(e) = {h}
  BY <1>2 DEF Top
<1>4. \A i \in Marks(p, r) : i + 1 \in Marks(q, r) /\ p[i] = q[i + 1] /\ i \in Nat /\ 1 < i + 1
  <2> SUFFICES ASSUME NEW i \in Marks(p, r)
               PROVE  i + 1 \in Marks(q, r) /\ p[i] = q[i + 1] /\ i \in Nat /\ 1 < i + 1
    OBVIOUS
  <2>1. i + 1 \in Marks(q, r) /\ p[i] = q[i + 1] /\ i \in Nat
    BY MarksOfTail
  <2>2. i >= 1
    BY DEF Marks
  <2>3. 1 < i + 1
    BY <2>1, <2>2
  <2> HIDE DEF p
  <2> QED BY <2>1, <2>3
<1>5. \A i \in Marks(q, r) : i # 1 => i - 1 \in Marks(p, r) /\ p[i - 1] = q[i]
  BY MarksOfTail
<1>6. \A i \in Marks(p, r) : h < p[i].result
  BY <1>1, <1>4 DEF InOrder
<1>7. /\ Numbers(p, e, r) \subseteq Numbers(q, d, r)
      /\ Numbers(q, d, r) \subseteq Top(d) \cup Numbers(p, e, r)
  <2>1. {p[i].result : i \in Marks(p, r)} \subseteq {q[i].result : i \in Marks(q, r)}
    BY <1>4
  <2>2. ASSUME NEW i \in Marks(q, r) PROVE q[i].result \in {h} \cup {p[j].result : j \in Marks(p, r)}
    BY <1>1, <1>5
  <2>3. h \in {q[i].result : i \in Marks(q, r)}
    BY <1>1
  <2> QED BY <1>3, <2>1, <2>2, <2>3 DEF Numbers
<1>8. \A a \in Numbers(p, e, r) : h <= a /\ a \in Nat
  <2>1. Numbers(q, d, r) \subseteq Nat
    BY NumbersAre
  <2>2. ASSUME NEW a \in Numbers(p, e, r) PROVE h <= a
    <3>1. a \in Nat
      BY <1>7, <2>1
    <3>2. a = h \/ \E i \in Marks(p, r) : a = p[i].result
      BY <1>3 DEF Numbers
    <3>3. a = h \/ h < a
      BY <1>6, <3>2
    <3> QED BY <1>1, <3>1, <3>3
  <2> QED BY <1>7, <2>1, <2>2
<1>9. \A n \in Top(d) : n < h
  BY <1>1 DEF InOrder
<1>10. InOrder(p, e, r)
  <2>1. ASSUME NEW i \in Marks(p, r), NEW j \in Marks(p, r), i < j
        PROVE  p[i].result < p[j].result
    <3>1. i + 1 < j + 1
      BY <1>4, <2>1
    <3> QED BY <1>4, <3>1 DEF InOrder
  <2>2. ASSUME NEW i \in Marks(p, r), NEW n \in Top(e) PROVE n < p[i].result
    BY <1>3, <1>6
  <2> QED BY <2>1, <2>2 DEF InOrder
<1>11. InRow(p, e, r)
  <2> SUFFICES ASSUME NEW a \in Numbers(p, e, r), NEW b \in Numbers(p, e, r), NEW n \in Nat,
                      a <= n, n <= b
               PROVE  n \in Numbers(p, e, r)
    BY DEF InRow
  <2>1. n \in Numbers(q, d, r)
    BY <1>7 DEF InRow
  <2>2. n \notin Top(d)
    <3>1. h <= n /\ h \in Nat
      BY <1>1, <1>8
    <3> QED BY <1>9, <3>1
  <2> QED BY <1>7, <2>1, <2>2
<1>12. ASSUME NEW n \in Nat, UpTo(q, d, r, n) PROVE UpTo(p, e, r, n)
  <2>1. \A a \in Numbers(p, e, r) : a < n
    BY <1>7, <1>12 DEF UpTo
  <2>2. h \in Numbers(p, e, r)
    BY <1>3 DEF Numbers
  <2>3. n - 1 \in Numbers(q, d, r) /\ h <= n - 1
    BY <1>1, <1>7, <1>12, <2>1, <2>2 DEF UpTo
  <2>4. n - 1 \notin Top(d)
    BY <1>1, <1>9, <2>3
  <2> QED BY <1>7, <2>1, <2>3, <2>4 DEF UpTo
<1>13. ASSUME d # <<>> PROVE h = d[Len(d)] + 1
  <2>1. Len(d) \in 1 .. Len(d) /\ d[Len(d)] \in Nat
    <3>1. Len(d) \in Nat \ {0}
      BY <1>13, EmptySeq
    <3> QED BY <3>1, ElementOfSeq
  <2> DEFINE last == d[Len(d)]
  <2>2. last \in Top(d)
    BY <2>1 DEF Top
  <2>3. last < h /\ last + 1 <= h
    BY <1>1, <1>9, <2>1, <2>2
  <2>4. last \in Numbers(q, d, r) /\ h \in Numbers(q, d, r)
    BY <1>1, <2>2 DEF Numbers
  <2>5. last + 1 \in Numbers(q, d, r)
    BY <2>1, <2>3, <2>4 DEF InRow
  <2>6. last + 1 \notin Top(d)
    BY <2>1 DEF Top
  <2>7. h <= last + 1
    BY <1>7, <1>8, <2>5, <2>6
  <2> QED BY <1>1, <2>1, <2>3, <2>7
<1> QED BY <1>10, <1>11, <1>12, <1>13

\* The modal forgets the lines it has shown.
LEMMA Forgotten ==
  ASSUME NEW q \in Seq(Reply), NEW d \in Seq(Nat), NEW r,
         InOrder(q, d, r), InRow(q, d, r)
  PROVE  /\ InOrder(q, <<>>, r) /\ InRow(q, <<>>, r)
         /\ \A n \in Nat : UpTo(q, d, r, n) => UpTo(q, <<>>, r, n)
<1>1. Top(<<>>) = {}
  BY DEF Top
<1> DEFINE N == {q[i].result : i \in Marks(q, r)}
<1>2. Numbers(q, <<>>, r) = N /\ Numbers(q, d, r) = Top(d) \cup N /\ N \subseteq Nat
  BY <1>1, NumbersAre DEF Numbers
<1>3. \A a \in N, n \in Top(d) : n < a
  BY DEF InOrder
<1>4. InOrder(q, <<>>, r)
  BY <1>1 DEF InOrder
<1>5. InRow(q, <<>>, r)
  <2> SUFFICES ASSUME NEW a \in N, NEW b \in N, NEW n \in Nat, a <= n, n <= b
               PROVE  n \in N
    BY <1>2 DEF InRow
  <2>1. n \in Top(d) \cup N
    BY <1>2 DEF InRow
  <2>2. ASSUME n \in Top(d) PROVE FALSE
    <3>1. n < a /\ a \in Nat
      BY <1>2, <1>3, <2>2
    <3> QED BY <3>1
  <2> QED BY <2>1, <2>2
<1>6. ASSUME NEW n \in Nat, UpTo(q, d, r, n) PROVE UpTo(q, <<>>, r, n)
  <2>1. \A a \in N : a < n
    BY <1>2, <1>6 DEF UpTo
  <2>2. ASSUME N # {} PROVE n - 1 \in N
    <3>1. PICK a \in N : TRUE
      BY <2>2
    <3>2. n - 1 \in Top(d) \cup N /\ a < n /\ a \in Nat
      BY <1>2, <1>6, <2>1 DEF UpTo
    <3>3. ASSUME n - 1 \in Top(d) PROVE FALSE
      <4>1. n - 1 < a
        BY <1>3, <3>1, <3>3
      <4> QED BY <3>2, <4>1
    <3> QED BY <3>2, <3>3
  <2> QED BY <1>2, <2>1, <2>2 DEF UpTo
<1> QED BY <1>4, <1>5, <1>6

\* Nothing of r is shown or on its way.
LEMMA Nothing ==
  ASSUME NEW q, NEW r, Marks(q, r) = {}, NEW n
  PROVE  InOrder(q, <<>>, r) /\ InRow(q, <<>>, r) /\ UpTo(q, <<>>, r, n)
<1>1. Top(<<>>) = {}
  BY DEF Top
<1>2. Numbers(q, <<>>, r) = {}
  BY <1>1 DEF Numbers
<1> QED BY <1>1, <1>2 DEF InOrder, InRow, UpTo

(***************************************************************************)
(* The inductive invariant                                                 *)
(*                                                                         *)
(* A message reaches one handler, once: it is on its way over one open     *)
(* connection and its handler has not begun.  A reader's lines go over the *)
(* connection its start came by, one after the other.  What a stop has     *)
(* been answered for is dead.                                              *)
(***************************************************************************)
Types ==
  /\ sock \in [Socket -> SocketState]
  /\ reconnectionAttempts \in Nat
  /\ websocket = reconnectionAttempts + 1
  /\ outbox \in [Socket -> SUBSET Request]
  /\ inbox \in [Socket -> Seq(Reply)]
  /\ data \in [Request -> Seq(Nat)]
  /\ about \in [Request -> {"unused", "start", "stop"}]
  /\ writePump \in [Socket -> PumpState]
  /\ handler \in [Request -> HandlerState]
  /\ via \in [Request -> Socket]
  /\ say \in [Request -> Seq(BOOLEAN)]
  /\ stops \in [Request -> Request \cup {NoRequest}]
  /\ hpcloudMap \in Request \cup {NoRequest}
  /\ tail \in [Request -> TailState]
  /\ lines \in [Request -> Nat]
  /\ late \in [Request -> Nat]

Begun == {"none", "begun"}
Unopened == {"none", "connecting"}
Reading(r) == handler[r] \in {"reading", "holding"}

\* The number of the line that the handler of r writes next.
Upcoming(r) == lines[r] + (IF tail[r] = "offering" THEN 0 ELSE 1)
                        - (IF handler[r] = "holding" THEN 1 ELSE 0)

NewestSocket == \A s \in Socket : s > websocket => sock[s] = "none"

Route(s, r) ==
  r \in outbox[s] =>
    /\ about[r] # "unused" /\ handler[r] = "none"
    /\ sock[s] \notin Unopened
    /\ \A t \in Socket : r \in outbox[t] => t = s

Early(r) ==
  /\ about[r] = "unused" => handler[r] = "none"
  /\ handler[r] \in Begun =>
        tail[r] = "none" /\ stops[r] = NoRequest /\ lines[r] = 0 /\ data[r] = <<>>
  /\ handler[r] # "none" => sock[via[r]] \notin Unopened
  /\ handler[r] = "answering" => say[r] # <<>>

Stopped(r) ==
  stops[r] # NoRequest =>
    /\ handler[r] \in {"stopping", "answering", "done"}
    /\ handler[r] # "stopping" => tail[stops[r]] = "dead"

LateOnce(r) ==
  late[r] # 0 => late[r] = 1 /\ tail[r] = "dead" /\ handler[r] # "holding"

Called(r) ==
  /\ about[r] = "start" \/ Reading(r) => successCallback
  /\ Reading(r) => Upcoming(r) > 0

\* A message on its way over connection s, if it is a line.
Proper(s, m) ==
  m.result > 0 => s = via[m.to] /\ handler[m.to] \notin Begun /\ successCallback /\ m.ok

Flight(s) == \A i \in 1 .. Len(inbox[s]) : Proper(s, inbox[s][i])

Chain(r) ==
  sock[via[r]] = "open" =>
    /\ InOrder(inbox[via[r]], data[r], r)
    /\ InRow(inbox[via[r]], data[r], r)
    /\ Reading(r) /\ writePump[via[r]] = "running"
          => UpTo(inbox[via[r]], data[r], r, Upcoming(r))

Shown(r) == \A i \in 1 .. Len(data[r]) - 1 : data[r][i + 1] = data[r][i] + 1

StopInv(r) == Early(r) /\ Stopped(r) /\ LateOnce(r) /\ Called(r)
LineInv(r) == Chain(r) /\ Shown(r)

Inv ==
  /\ Types
  /\ NewestSocket
  /\ \A s \in Socket : Flight(s) /\ \A r \in Request : Route(s, r)
  /\ \A r \in Request : StopInv(r) /\ LineInv(r)

\* What Inv depends on.
logVars == <<sock, websocket, reconnectionAttempts, outbox, inbox, data, successCallback,
             about, writePump, handler, via, say, stops, hpcloudMap, tail, lines, late>>

LEMMA Rests == ASSUME Inv, UNCHANGED logVars PROVE Inv'
BY DEF Inv, logVars, Types, NewestSocket, Route, StopInv, LineInv, Early, Stopped, LateOnce,
       Called, Reading, Upcoming, Proper, Flight, Chain, Shown

LEMMA HoldsFirst == Init => Inv
<1> SUFFICES ASSUME Init PROVE Inv
  OBVIOUS
<1>1. 1 \in Socket /\ Socket \subseteq Nat
  BY MaxAttemptsAssumption DEF Socket
<1>2. Types
  <2>1. <<>> \in Seq(Nat) /\ <<>> \in Seq(Reply) /\ <<>> \in Seq(BOOLEAN)
    BY EmptySeq
  <2>2. /\ sock \in [Socket -> SocketState] /\ reconnectionAttempts = 0 /\ websocket = 1
        /\ outbox \in [Socket -> SUBSET Request] /\ inbox \in [Socket -> Seq(Reply)]
    BY <2>1 DEF Init, WsInit, SocketState
  <2> QED BY <1>1, <2>1, <2>2 DEF Init, Types, PumpState, HandlerState, TailState
<1>3. NewestSocket
  BY <1>1 DEF NewestSocket, Init, WsInit
<1>4. ASSUME NEW s \in Socket PROVE Flight(s) /\ \A r \in Request : Route(s, r)
  BY DEF Flight, Route, Init, WsInit
<1>5. ASSUME NEW r \in Request PROVE StopInv(r) /\ LineInv(r)
  <2>1. sock[via[r]] # "open"
    BY <1>1 DEF Init, WsInit
  <2> QED BY <2>1 DEF StopInv, LineInv, Early, Stopped, LateOnce, Called, Reading, Chain, Shown,
                      Init
<1> QED BY <1>2, <1>3, <1>4, <1>5 DEF Inv

(***************************************************************************)
(* The sockets                                                             *)
(***************************************************************************)
\* Sockets move, none opens but from connecting, and what was on its way over one that
\* broke is lost or still with the server.
LEMMA SocketsMove ==
  ASSUME Inv, Types', NewestSocket',
         UNCHANGED <<data, successCallback, about, handler, via, say, stops, tail, lines, late>>,
         \A s \in Socket :
            /\ writePump'[s] = "running" => writePump[s] = "running"
            /\ outbox'[s] \subseteq outbox[s]
            /\ inbox'[s] = inbox[s] \/ inbox'[s] = <<>>
            /\ sock[s] \notin Unopened => sock'[s] \notin Unopened
            /\ sock'[s] = "open" => inbox'[s] = inbox[s] /\ sock[s] \in {"open", "connecting"}
  PROVE  Inv'
<1>1. ASSUME NEW s \in Socket PROVE Flight(s)'
  BY DEF Inv, Flight, Proper
<1>2. ASSUME NEW s \in Socket, NEW r \in Request PROVE Route(s, r)'
  BY DEF Inv, Route
<1>3. ASSUME NEW r \in Request PROVE StopInv(r)' /\ Shown(r)'
  <2>1. StopInv(r) /\ Shown(r) /\ via[r] \in Socket
    BY DEF Inv, LineInv, Types
  <2> QED BY <2>1 DEF StopInv, Early, Stopped, LateOnce, Called, Reading, Upcoming, Shown
<1>4. ASSUME NEW r \in Request PROVE Chain(r)'
  <2>1. via[r] \in Socket /\ via' = via /\ Chain(r) /\ Early(r) /\ Flight(via[r])
    BY DEF Inv, Types, LineInv, StopInv
  <2>2. CASE sock[via[r]] = "open"
    BY <2>1, <2>2 DEF Chain, Reading, Upcoming
  <2>3. CASE sock[via[r]] = "connecting" /\ sock'[via[r]] = "open"
    <3>1. handler[r] = "none" /\ data[r] = <<>>
      BY <2>1, <2>3 DEF Early, Begun, Unopened
    <3>2. Marks(inbox[via[r]], r) = {}
      BY <2>1, <3>1 DEF Flight, Proper, Marks, Begun
    <3>3. inbox'[via[r]] = inbox[via[r]] /\ data'[r] = <<>>
      BY <2>1, <2>3, <3>1
    <3>4. \A n : /\ InOrder(inbox[via[r]], <<>>, r) /\ InRow(inbox[via[r]], <<>>, r)
                 /\ UpTo(inbox[via[r]], <<>>, r, n)
      BY <3>2, Nothing
    <3> QED BY <2>1, <3>3, <3>4 DEF Chain
  <2>4. CASE sock'[via[r]] # "open"
    BY <2>1, <2>4 DEF Chain
  <2> QED BY <2>1, <2>2, <2>3, <2>4
<1> QED BY <1>1, <1>2, <1>3, <1>4 DEF Inv, LineInv

LEMMA SocketsRest ==
  ASSUME UNCHANGED <<modalVars, serverVars>>
  PROVE  UNCHANGED <<data, successCallback, about, writePump, handler, via, say, stops,
                     hpcloudMap, tail, lines, late>>
BY DEF modalVars, serverVars, hubVars, handlerVars, tailVars

LEMMA SocketKeeps == Inv /\ SocketEvent => Inv'
<1> SUFFICES ASSUME Inv, SocketEvent PROVE Inv'
  OBVIOUS
<1>0. /\ Types /\ NewestSocket /\ Socket \subseteq Nat
      /\ UNCHANGED <<data, successCallback, about, writePump, handler, via, say, stops,
                     hpcloudMap, tail, lines, late>>
  BY SocketsRest, MaxAttemptsAssumption DEF Inv, SocketEvent, Socket
<1>1. ASSUME NEW s \in Socket, onopen(s) PROVE Inv'
  <2>1. Types'
    BY <1>0, <1>1 DEF onopen, Types, SocketState
  <2>2. NewestSocket'
    BY <1>0, <1>1 DEF onopen, Types, NewestSocket
  <2> QED BY <1>0, <1>1, <2>1, <2>2, SocketsMove DEF onopen, Types, Unopened
<1>2. ASSUME NEW s \in Socket, onerror(s) \/ onclose(s) PROVE Inv'
  <2>1. /\ UNCHANGED <<websocket, reconnectionAttempts>>
        /\ sock[s] # "none" /\ Break(s)
        /\ sock' = [sock EXCEPT ![s] = "failed"] \/ sock' = [sock EXCEPT ![s] = "lost"]
    BY <1>2 DEF onerror, onclose
  <2>2. outbox' \in [Socket -> SUBSET Request] /\ inbox' \in [Socket -> Seq(Reply)]
    <3>1. <<>> \in Seq(Reply)
      BY EmptySeq
    <3> QED BY <1>0, <2>1, <3>1 DEF Break, Types
  <2>3. Types'
    BY <1>0, <2>1, <2>2 DEF Types, SocketState
  <2>4. NewestSocket'
    BY <1>0, <2>1 DEF Types, NewestSocket
  <2>5. ASSUME NEW t \in Socket
        PROVE  /\ outbox'[t] \subseteq outbox[t]
               /\ inbox'[t] = inbox[t] \/ inbox'[t] = <<>>
               /\ sock[t] \notin Unopened => sock'[t] \notin Unopened
               /\ sock'[t] = "open" => inbox'[t] = inbox[t] /\ sock[t] = "open"
    BY <1>0, <2>1 DEF Break, Types, Unopened
  <2> QED BY <1>0, <2>3, <2>4, <2>5, SocketsMove
<1>3. CASE reconnect
  BY <1>0, <1>3, Rests DEF reconnect, logVars
<1>4. CASE NewSocket
  <2>1. /\ UNCHANGED <<outbox, inbox>>
        /\ reconnectionAttempts' = reconnectionAttempts + 1
        /\ websocket' = reconnectionAttempts + 2
        /\ sock' = [sock EXCEPT ![reconnectionAttempts + 2] = "connecting"]
    BY <1>4 DEF NewSocket
  <2>2. Types'
    <3>1. sock' \in [Socket -> SocketState]
      BY <1>0, <2>1 DEF Types, SocketState
    <3>2. reconnectionAttempts' \in Nat /\ websocket' = reconnectionAttempts' + 1
      BY <1>0, <2>1 DEF Types
    <3> QED BY <1>0, <2>1, <3>1, <3>2 DEF Types
  <2>3. NewestSocket'
    BY <1>0, <2>1 DEF Types, NewestSocket
  <2>4. \A s \in Socket : sock[s] \notin Unopened => s # reconnectionAttempts + 2
    BY <1>0 DEF Types, NewestSocket, Unopened
  <2> QED BY <1>0, <2>1, <2>2, <2>3, <2>4, SocketsMove DEF Types, Unopened
<1> QED BY <1>1, <1>2, <1>3, <1>4 DEF SocketEvent

(***************************************************************************)
(* The hub's goroutines                                                    *)
(***************************************************************************)
\* A writePump ends, or begins on a connection that has not opened yet.
LEMMA PumpsKeep ==
  ASSUME Inv, NEW s \in Socket, Handle(s) \/ ReadFails(s) \/ Ping(s)
  PROVE  Inv'
<1>1. /\ UNCHANGED <<sock, websocket, reconnectionAttempts, outbox, inbox, data,
                     successCallback, about, handler, via, say, stops, hpcloudMap, tail,
                     lines, late>>
      /\ \/ writePump' = writePump
         \/ writePump' = [writePump EXCEPT ![s] = "ended"]
         \/ writePump' = [writePump EXCEPT ![s] = "running"] /\ sock[s] = "connecting"
  BY DEF Handle, ReadFails, Ping, wsVars, socketVars, modalVars, handlerVars, tailVars
<1>2. Types'
  BY <1>1 DEF Inv, Types, PumpState
<1>3. \A t \in Socket : writePump'[t] = "running" => writePump[t] = "running" \/ sock[t] # "open"
  BY <1>1 DEF Inv, Types
<1>4. NewestSocket' /\ \A t \in Socket : Flight(t)' /\ \A r \in Request : Route(t, r)'
  BY <1>1 DEF Inv, NewestSocket, Flight, Proper, Route
<1>5. ASSUME NEW r \in Request PROVE StopInv(r)' /\ Shown(r)'
  <2>1. StopInv(r) /\ Shown(r)
    BY DEF Inv, LineInv
  <2> QED BY <1>1, <2>1 DEF StopInv, Early, Stopped, LateOnce, Called, Reading, Upcoming, Shown
<1>6. ASSUME NEW r \in Request PROVE Chain(r)'
  <2>1. via[r] \in Socket /\ Chain(r)
    BY DEF Inv, Types, LineInv
  <2> QED BY <1>1, <1>3, <2>1 DEF Chain, Reading, Upcoming
<1> QED BY <1>2, <1>4, <1>5, <1>6 DEF Inv, LineInv

\* readPump takes a message: its handler begins.
LEMMA ReadKeeps ==
  ASSUME Inv, NEW s \in Socket, NEW r \in Request, ReadMessage(s, r)
  PROVE  Inv'
<1>1. /\ UNCHANGED <<sock, websocket, reconnectionAttempts, inbox, data, successCallback,
                     about, writePump, say, stops, hpcloudMap, tail, lines, late>>
      /\ outbox' = [outbox EXCEPT ![s] = @ \ {r}]
      /\ handler' = [handler EXCEPT ![r] = "begun"]
      /\ via' = [via EXCEPT ![r] = s]
      /\ r \in outbox[s]
  BY DEF ReadMessage, socketVars, modalVars, hubVars, tailVars
<1>2. Types /\ Route(s, r) /\ Early(r)
  BY DEF Inv, StopInv
<1>3. handler[r] = "none" /\ about[r] # "unused" /\ sock[s] \notin Unopened
      /\ \A t \in Socket : r \in outbox[t] => t = s
  BY <1>1, <1>2 DEF Route
<1>4. /\ handler'[r] = "begun" /\ via'[r] = s
      /\ \A q \in Request : q # r => handler'[q] = handler[q] /\ via'[q] = via[q]
      /\ \A t \in Socket : outbox'[t] \subseteq outbox[t] /\ r \notin outbox'[t]
  BY <1>1, <1>2, <1>3 DEF Types
<1>5. Types'
  BY <1>1, <1>2 DEF Types, HandlerState
<1>6. NewestSocket'
  BY <1>1 DEF Inv, NewestSocket
<1>7. ASSUME NEW t \in Socket PROVE Flight(t)'
  <2>1. ASSUME NEW i \in 1 .. Len(inbox[t]) PROVE Proper(t, inbox[t][i])'
    <3>1. inbox[t][i] \in Reply
      <4>1. inbox[t] \in Seq(Reply)
        BY <1>2 DEF Types
      <4> QED BY <4>1, ElementOfSeq
    <3>2. inbox[t][i].to \in Request /\ Proper(t, inbox[t][i])
      BY <3>1 DEF Reply, Inv, Flight
    <3> QED BY <1>1, <1>3, <1>4, <3>2 DEF Proper, Begun
  <2> QED BY <1>1, <2>1 DEF Flight
<1>8. ASSUME NEW t \in Socket, NEW q \in Request PROVE Route(t, q)'
  <2>1. Route(t, q)
    BY DEF Inv
  <2> QED BY <1>1, <1>4, <2>1 DEF Route
<1>9. ASSUME NEW q \in Request PROVE StopInv(q)' /\ Shown(q)'
  <2>1. StopInv(q) /\ Shown(q)
    BY DEF Inv, LineInv
  <2>2. Early(q)'
    BY <1>1, <1>3, <1>4, <2>1 DEF StopInv, Early, Begun
  <2> QED BY <1>1, <1>3, <1>4, <2>1, <2>2
        DEF StopInv, Stopped, LateOnce, Called, Reading, Upcoming, Shown
<1>10. ASSUME NEW q \in Request PROVE Chain(q)'
  <2>1. CASE q # r
    BY <1>1, <1>4, <2>1 DEF Inv, LineInv, Chain, Reading, Upcoming
  <2>2. CASE q = r
    <3>1. data[r] = <<>>
      BY <1>2, <1>3 DEF Early, Begun
    <3>2. Marks(inbox[s], r) = {}
      BY <1>3 DEF Inv, Flight, Proper, Marks, Begun
    <3>3. InOrder(inbox[s], <<>>, r) /\ InRow(inbox[s], <<>>, r)
      BY <3>2, Nothing
    <3> QED BY <1>1, <1>4, <2>2, <3>1, <3>3 DEF Chain, Reading
  <2> QED BY <2>1, <2>2
<1> QED BY <1>5, <1>6, <1>7, <1>8, <1>9, <1>10 DEF Inv, LineInv

(***************************************************************************)
(* Handlers and readers                                                    *)
(***************************************************************************)
\* What a step of a handler or a reader that writes nothing may do.
Moves(q) ==
  /\ handler[q] = "none" <=> handler'[q] = "none"
  /\ handler'[q] \in Begun =>
        /\ handler[q] \in Begun
        /\ tail'[q] = "none" /\ stops'[q] = NoRequest /\ lines'[q] = 0
  /\ handler'[q] = "answering" => say'[q] # <<>>
  /\ tail[q] = "dead" => tail'[q] = "dead" /\ (handler'[q] = "holding" => handler[q] = "holding")
  /\ Reading(q)' =>
        \/ Reading(q) /\ Upcoming(q)' = Upcoming(q)
        \/ handler[q] = "begun" /\ about[q] = "start" /\ Upcoming(q)' = 1

LEMMA HandlersMove ==
  ASSUME Inv, Types',
         UNCHANGED <<sock, websocket, reconnectionAttempts, outbox, inbox, data,
                     successCallback, about, writePump, via, late>>,
         \A q \in Request : Moves(q) /\ Stopped(q)'
  PROVE  Inv'
<1>1. NewestSocket'
  BY DEF Inv, NewestSocket
<1>2. ASSUME NEW t \in Socket PROVE Flight(t)'
  <2>1. ASSUME NEW i \in 1 .. Len(inbox[t]) PROVE Proper(t, inbox[t][i])'
    <3>1. inbox[t][i] \in Reply
      <4>1. inbox[t] \in Seq(Reply)
        BY DEF Inv, Types
      <4> QED BY <4>1, ElementOfSeq
    <3>2. inbox[t][i].to \in Request /\ Proper(t, inbox[t][i])
      BY <3>1 DEF Reply, Inv, Flight
    <3> QED BY <3>2 DEF Proper, Moves
  <2> QED BY <2>1 DEF Flight
<1>3. ASSUME NEW t \in Socket, NEW q \in Request PROVE Route(t, q)'
  <2>1. Route(t, q) /\ Moves(q)
    BY DEF Inv
  <2> QED BY <2>1 DEF Route, Moves
<1>4. ASSUME NEW q \in Request PROVE StopInv(q)' /\ Shown(q)'
  <2>1. StopInv(q) /\ Shown(q) /\ Moves(q) /\ Stopped(q)'
    BY DEF Inv, LineInv
  <2>2. Early(q)'
    BY <2>1 DEF StopInv, Early, Moves
  <2>3. LateOnce(q)'
    BY <2>1 DEF StopInv, LateOnce, Moves
  <2>4. Called(q)'
    BY <2>1 DEF StopInv, Called, Moves
  <2>5. Shown(q)'
    BY <2>1 DEF Shown
  <2> QED BY <2>1, <2>2, <2>3, <2>4, <2>5 DEF StopInv
<1>5. ASSUME NEW q \in Request PROVE Chain(q)'
  <2>1. Chain(q) /\ Moves(q) /\ StopInv(q) /\ Flight(via[q])
    BY DEF Inv, LineInv, Types
  <2>2. CASE Reading(q)' => Reading(q) /\ Upcoming(q)' = Upcoming(q)
    BY <2>1, <2>2 DEF Chain
  <2>3. CASE handler[q] = "begun" /\ Upcoming(q)' = 1
    <3>1. data[q] = <<>>
      BY <2>1, <2>3 DEF StopInv, Early, Begun
    <3>2. Marks(inbox[via[q]], q) = {}
      BY <2>1, <2>3 DEF Flight, Proper, Marks, Begun
    <3>3. UpTo(inbox[via[q]], <<>>, q, 1)
      BY <3>2, Nothing
    <3> QED BY <2>1, <2>3, <3>1, <3>3 DEF Chain
  <2> QED BY <2>1, <2>2, <2>3 DEF Moves
<1> QED BY <1>1, <1>2, <1>3, <1>4, <1>5 DEF Inv, LineInv

\* The variables that those steps leave alone.
LEMMA HandlersLeave ==
  ASSUME UNCHANGED <<wsVars, modalVars, hubVars, via, late>>
  PROVE  UNCHANGED <<sock, websocket, reconnectionAttempts, outbox, inbox, data,
                     successCallback, about, writePump, via, late>>
BY DEF wsVars, socketVars, modalVars, hubVars

\* What Inv says of one handler.
LEMMA OfHandler ==
  ASSUME Inv, NEW q \in Request
  PROVE  /\ Types /\ Early(q) /\ Stopped(q) /\ LateOnce(q) /\ Called(q)
         /\ handler[q] \in HandlerState /\ tail[q] \in TailState /\ lines[q] \in Nat
         /\ stops[q] \in Request \cup {NoRequest} /\ say[q] \in Seq(BOOLEAN)
BY DEF Inv, StopInv, Types

LEMMA RefusesKeeps ==
  ASSUME Inv, NEW r \in Request, Refuses(r)
  PROVE  Inv'
<1>1. /\ UNCHANGED <<wsVars, modalVars, hubVars, via, stops, hpcloudMap, tail, lines, late>>
      /\ handler[r] = "begun" /\ handler' = [handler EXCEPT ![r] = "answering"]
      /\ say' = [say EXCEPT ![r] = <<FALSE>>]
  BY DEF Refuses, tailVars
<1>2. Types'
  <2>1. <<FALSE>> \in Seq(BOOLEAN)
    OBVIOUS
  <2> QED BY <1>1, <2>1, HandlersLeave DEF Inv, Types, HandlerState
<1>3. ASSUME NEW q \in Request PROVE Moves(q) /\ Stopped(q)'
  BY <1>1, OfHandler DEF Moves, Types, Early, Stopped, Begun, Reading, Upcoming
<1> QED BY <1>1, <1>2, <1>3, HandlersLeave, HandlersMove

LEMMA StartKeeps ==
  ASSUME Inv, NEW r \in Request, StartRead(r)
  PROVE  Inv'
<1>1. /\ UNCHANGED <<wsVars, modalVars, hubVars, via, say, stops, lines, late>>
      /\ handler[r] = "begun" /\ about[r] = "start"
      /\ handler' = [handler EXCEPT ![r] = "reading"]
      /\ tail' = [tail EXCEPT ![r] = "tailing"]
      /\ hpcloudMap' = r
  BY DEF StartRead
<1>2. Types'
  BY <1>1, HandlersLeave DEF Inv, Types, HandlerState, TailState
<1>3. tail[r] = "none" /\ stops[r] = NoRequest /\ lines[r] = 0
  BY <1>1, OfHandler DEF Early, Begun
<1>4. ASSUME NEW q \in Request PROVE Moves(q)
  BY <1>1, <1>3, OfHandler DEF Moves, Types, Early, Begun, Reading, Upcoming
<1>5. ASSUME NEW q \in Request PROVE Stopped(q)'
  BY <1>1, <1>3, OfHandler DEF Types, Stopped
<1> QED BY <1>1, <1>2, <1>4, <1>5, HandlersLeave, HandlersMove

LEMMA TakeKeeps ==
  ASSUME Inv, NEW r \in Request, TakeLine(r)
  PROVE  Inv'
<1>1. /\ UNCHANGED <<wsVars, modalVars, hubVars, via, say, stops, hpcloudMap, lines, late>>
      /\ handler[r] = "reading" /\ tail[r] = "offering"
      /\ handler' = [handler EXCEPT ![r] = "holding"]
      /\ tail' = [tail EXCEPT ![r] = "tailing"]
  BY DEF TakeLine
<1>2. Types'
  BY <1>1, HandlersLeave DEF Inv, Types, HandlerState, TailState
<1>3. ASSUME NEW q \in Request PROVE Moves(q)
  <2>1. CASE q = r
    <3>1. handler'[r] = "holding" /\ tail'[r] = "tailing" /\ lines'[r] = lines[r] /\ lines[r] \in Nat
      BY <1>1, OfHandler DEF Types
    <3>2. Upcoming(r)' = Upcoming(r)
      BY <1>1, <3>1 DEF Upcoming
    <3> QED BY <1>1, <2>1, <3>1, <3>2 DEF Moves, Reading, Begun
  <2>2. CASE q # r
    BY <1>1, <2>2, OfHandler DEF Moves, Types, Early, Reading, Upcoming
  <2> QED BY <2>1, <2>2
<1>4. ASSUME NEW q \in Request PROVE Stopped(q)'
  BY <1>1, OfHandler DEF Types, Stopped
<1> QED BY <1>1, <1>2, <1>3, <1>4, HandlersLeave, HandlersMove

LEMMA EndsKeeps ==
  ASSUME Inv, NEW r \in Request, ReadEnds(r)
  PROVE  Inv'
<1>1. /\ UNCHANGED <<wsVars, modalVars, hubVars, via, say, stops, hpcloudMap, tail, lines, late>>
      /\ handler[r] = "reading"
      /\ handler' = [handler EXCEPT ![r] = "done"]
  BY DEF ReadEnds, tailVars
<1>2. Types'
  BY <1>1, HandlersLeave DEF Inv, Types, HandlerState
<1>3. ASSUME NEW q \in Request PROVE Moves(q) /\ Stopped(q)'
  BY <1>1, OfHandler DEF Moves, Types, Early, Stopped, Begun, Reading, Upcoming
<1> QED BY <1>1, <1>2, <1>3, HandlersLeave, HandlersMove

LEMMA StopKeeps ==
  ASSUME Inv, NEW r \in Request, StopRead(r)
  PROVE  Inv'
<1>1. /\ UNCHANGED <<wsVars, modalVars, hubVars, via, hpcloudMap, tail, lines, late>>
      /\ handler[r] = "begun"
  BY DEF StopRead
<1>2. UNCHANGED <<sock, websocket, reconnectionAttempts, outbox, inbox, data,
                  successCallback, about, writePump, via, late>>
  BY <1>1, HandlersLeave
<1>3. stops[r] = NoRequest /\ Types
  BY <1>1, OfHandler DEF Early, Begun
<1>4. CASE /\ handler' = [handler EXCEPT ![r] = "answering"]
           /\ say' = [say EXCEPT ![r] = <<FALSE, TRUE>>]
           /\ stops' = stops
  <2>1. <<FALSE, TRUE>> \in Seq(BOOLEAN)
    OBVIOUS
  <2>2. Types'
    BY <1>1, <1>2, <1>3, <1>4, <2>1 DEF Types, HandlerState
  <2>3. ASSUME NEW q \in Request PROVE Moves(q) /\ Stopped(q)'
    BY <1>1, <1>3, <1>4, OfHandler DEF Moves, Types, Early, Stopped, Begun, Reading, Upcoming
  <2> QED BY <1>2, <2>2, <2>3, HandlersMove
<1>5. CASE /\ handler' = [handler EXCEPT ![r] = "stopping"]
           /\ stops' = [stops EXCEPT ![r] = hpcloudMap]
           /\ say' = say
  <2>1. Types'
    BY <1>1, <1>2, <1>3, <1>5 DEF Types, HandlerState
  <2>2. ASSUME NEW q \in Request PROVE Moves(q)
    BY <1>1, <1>3, <1>5, OfHandler DEF Moves, Types, Early, Begun, Reading, Upcoming
  <2>3. ASSUME NEW q \in Request PROVE Stopped(q)'
    BY <1>1, <1>3, <1>5, OfHandler DEF Types, Stopped
  <2> QED BY <1>2, <2>1, <2>2, <2>3, HandlersMove
<1> QED BY <1>4, <1>5 DEF StopRead

LEMMA WaitKeeps ==
  ASSUME Inv, NEW r \in Request, StopWaits(r)
  PROVE  Inv'
<1>1. /\ UNCHANGED <<wsVars, modalVars, hubVars, via, stops, hpcloudMap, tail, lines, late>>
      /\ handler[r] = "stopping" /\ tail[stops[r]] = "dead"
      /\ handler' = [handler EXCEPT ![r] = "answering"]
      /\ say' = [say EXCEPT ![r] = <<TRUE>>]
  BY DEF StopWaits, TailStopped, tailVars
<1>2. Types'
  <2>1. <<TRUE>> \in Seq(BOOLEAN)
    OBVIOUS
  <2> QED BY <1>1, <2>1, HandlersLeave DEF Inv, Types, HandlerState
<1>3. ASSUME NEW q \in Request PROVE Moves(q)
  BY <1>1, OfHandler DEF Moves, Types, Early, Begun, Reading, Upcoming
<1>4. ASSUME NEW q \in Request PROVE Stopped(q)'
  BY <1>1, OfHandler DEF Types, Stopped
<1> QED BY <1>1, <1>2, <1>3, <1>4, HandlersLeave, HandlersMove

LEMMA TailKeeps ==
  ASSUME Inv, NEW r \in Request, TailOffers(r) \/ TailDies(r)
  PROVE  Inv'
<1>1. /\ UNCHANGED <<wsVars, modalVars, hubVars, via, handler, say, stops, hpcloudMap, late>>
      /\ tail[r] = "tailing"
  BY DEF TailOffers, TailDies, handlerVars
<1>2. UNCHANGED <<sock, websocket, reconnectionAttempts, outbox, inbox, data,
                  successCallback, about, writePump, via, late>>
  BY <1>1, HandlersLeave
<1>3. handler[r] \notin Begun /\ Types
  BY <1>1, OfHandler DEF Early
<1>4. PICK t \in {"offering", "dead"} :
         /\ tail' = [tail EXCEPT ![r] = t]
         /\ lines' = IF t = "offering" THEN [lines EXCEPT ![r] = @ + 1] ELSE lines
  BY DEF TailOffers, TailDies
<1>5. Types'
  <2>1. lines' \in [Request -> Nat]
    BY <1>3, <1>4 DEF Types
  <2>2. tail' \in [Request -> TailState]
    BY <1>3, <1>4 DEF Types, TailState
  <2> QED BY <1>1, <1>2, <1>3, <2>1, <2>2 DEF Types
<1>6. ASSUME NEW q \in Request PROVE Moves(q)
  <2>1. Types /\ Early(q) /\ tail[q] \in TailState
    BY OfHandler
  <2>2. handler'[q] = handler[q] /\ stops'[q] = stops[q] /\ say'[q] = say[q]
    BY <1>1
  <2>3. q # r => tail'[q] = tail[q] /\ lines'[q] = lines[q]
    BY <1>3, <1>4 DEF Types
  <2>4. Upcoming(q)' = Upcoming(q)
    <3>1. CASE q = r
      <4>1. tail'[r] = t /\ lines'[r] = IF t = "offering" THEN lines[r] + 1 ELSE lines[r]
        BY <1>3, <1>4 DEF Types
      <4>2. lines[r] \in Nat /\ handler'[r] = handler[r]
        BY <1>1, <1>3 DEF Types
      <4> QED BY <1>1, <3>1, <4>1, <4>2 DEF Upcoming
    <3> QED BY <2>2, <2>3, <3>1 DEF Upcoming
  <2> QED BY <1>1, <1>3, <2>1, <2>2, <2>3, <2>4 DEF Moves, Early, Reading
<1>7. ASSUME NEW q \in Request PROVE Stopped(q)'
  BY <1>1, <1>3, <1>4, OfHandler DEF Types, Stopped
<1> QED BY <1>2, <1>5, <1>6, <1>7, HandlersMove

LEMMA RaceKeeps == Inv /\ MapRace => Inv'
<1> SUFFICES ASSUME Inv, MapRace PROVE Inv'
  OBVIOUS
<1>1. /\ UNCHANGED <<wsVars, modalVars, via, lines, late>>
      /\ writePump' = [s \in Socket |-> IF writePump[s] = "none" THEN "none" ELSE "ended"]
      /\ handler' = [r \in Request |-> IF handler[r] = "none" THEN "none" ELSE "done"]
      /\ say' = [r \in Request |-> <<>>]
      /\ stops' = [r \in Request |-> NoRequest]
      /\ hpcloudMap' = NoRequest
      /\ tail' = [r \in Request |-> IF tail[r] = "none" THEN "none" ELSE "dead"]
  BY DEF MapRace
<1>2. UNCHANGED <<sock, websocket, reconnectionAttempts, outbox, inbox, data,
                  successCallback, about, via, lines, late>>
  BY <1>1 DEF wsVars, socketVars, modalVars
<1>3. Types'
  <2>1. <<>> \in Seq(BOOLEAN)
    BY EmptySeq
  <2> QED BY <1>1, <1>2, <2>1 DEF Inv, Types, HandlerState, TailState, PumpState
<1>4. NewestSocket'
  BY <1>2 DEF Inv, NewestSocket
<1>5. \A q \in Request : /\ handler'[q] = IF handler[q] = "none" THEN "none" ELSE "done"
                         /\ tail'[q] = IF tail[q] = "none" THEN "none" ELSE "dead"
                         /\ stops'[q] = NoRequest
  BY <1>1
<1>6. ASSUME NEW t \in Socket PROVE Flight(t)'
  <2>1. ASSUME NEW i \in 1 .. Len(inbox[t]) PROVE Proper(t, inbox[t][i])'
    <3>1. inbox[t][i] \in Reply
      <4>1. inbox[t] \in Seq(Reply)
        BY DEF Inv, Types
      <4> QED BY <4>1, ElementOfSeq
    <3>2. inbox[t][i].to \in Request /\ Proper(t, inbox[t][i])
      BY <3>1 DEF Reply, Inv, Flight
    <3> QED BY <1>2, <1>5, <3>2 DEF Proper, Begun
  <2> QED BY <1>2, <2>1 DEF Flight
<1>7. ASSUME NEW t \in Socket, NEW q \in Request PROVE Route(t, q)'
  <2>1. Route(t, q)
    BY DEF Inv
  <2> QED BY <1>2, <1>5, <2>1 DEF Route
<1>8. ASSUME NEW q \in Request PROVE StopInv(q)' /\ Shown(q)'
  <2>1. StopInv(q) /\ Shown(q)
    BY DEF Inv, LineInv
  <2>2. Early(q)'
    BY <1>2, <1>5, <2>1 DEF StopInv, Early, Begun
  <2>3. Stopped(q)' /\ LateOnce(q)'
    BY <1>2, <1>5, <2>1 DEF StopInv, Stopped, LateOnce
  <2>4. Called(q)' /\ Shown(q)'
    BY <1>2, <1>5, <2>1 DEF StopInv, Called, Reading, Shown
  <2> QED BY <2>2, <2>3, <2>4 DEF StopInv
<1>9. ASSUME NEW q \in Request PROVE Chain(q)'
  BY <1>2, <1>5 DEF Inv, LineInv, Chain, Reading
<1> QED BY <1>3, <1>4, <1>6, <1>7, <1>8, <1>9 DEF Inv, LineInv

(***************************************************************************)
(* Writing                                                                 *)
(***************************************************************************)
LEMMA OneCode == LogCode \in Code
<1>1. Code # {}
  BY LogAssumption, FS_EmptySet
<1> QED BY <1>1 DEF LogCode

\* A message is written on an open connection, or into the void, or the writePump ends.
LEMMA Written ==
  ASSUME Inv, NEW s \in Socket, NEW m, Write(s, m)
  PROVE  /\ writePump[s] = "running"
         /\ UNCHANGED <<sock, websocket, reconnectionAttempts, outbox, data, successCallback, about>>
         /\ \/ /\ sock[s] = "open" /\ writePump' = writePump
               /\ inbox' = [inbox EXCEPT ![s] = Append(@, m)]
            \/ sock[s] # "open" /\ writePump' = writePump /\ inbox' = inbox
            \/ writePump' = [writePump EXCEPT ![s] = "ended"] /\ inbox' = inbox
BY DEF Write, socketVars, modalVars

LEMMA WrittenTypes ==
  ASSUME Inv, NEW s \in Socket, NEW m \in Reply, Write(s, m)
  PROVE  /\ inbox' \in [Socket -> Seq(Reply)]
         /\ writePump' \in [Socket -> PumpState]
<1>1. Append(inbox[s], m) \in Seq(Reply)
  BY AppendProperties DEF Inv, Types
<1>2. Types
  BY DEF Inv
<1>3. /\ inbox' = inbox \/ inbox' = [inbox EXCEPT ![s] = Append(@, m)]
      /\ writePump' = writePump \/ writePump' = [writePump EXCEPT ![s] = "ended"]
  BY Written
<1>4. inbox' \in [Socket -> Seq(Reply)]
  BY <1>1, <1>2, <1>3 DEF Types
<1>5. writePump' \in [Socket -> PumpState]
  BY <1>2, <1>3 DEF Types, PumpState
<1> QED BY <1>4, <1>5

\* On the messages there were, and on the one that was written.
LEMMA WrittenFlight ==
  ASSUME Inv, NEW s \in Socket, NEW m \in Reply, Write(s, m),
         UNCHANGED via, Proper(s, m)',
         \A q \in Request : handler'[q] \in Begun => handler[q] \in Begun
  PROVE  \A t \in Socket : Flight(t)'
<1> SUFFICES ASSUME NEW t \in Socket PROVE Flight(t)'
  OBVIOUS
<1>0. inbox[t] \in Seq(Reply) /\ inbox \in [Socket -> Seq(Reply)] /\ successCallback' = successCallback
  BY Written DEF Inv, Types
<1>1. ASSUME NEW i \in 1 .. Len(inbox[t]), NEW w, w = inbox[t][i]
      PROVE  Proper(t, w)'
  <2>1. w \in Reply
    BY <1>0, <1>1, ElementOfSeq
  <2>2. w.to \in Request /\ Proper(t, w)
    BY <1>1, <2>1 DEF Reply, Inv, Flight
  <2>3. handler'[w.to] \in Begun => handler[w.to] \in Begun
    BY <2>2
  <2> QED BY <1>0, <2>2, <2>3 DEF Proper
<1>2. CASE inbox'[t] = inbox[t]
  BY <1>1, <1>2 DEF Flight
<1>3. CASE t = s /\ inbox' = [inbox EXCEPT ![s] = Append(@, m)]
  <2>1. /\ inbox'[s] = Append(inbox[s], m) /\ Len(inbox'[s]) = Len(inbox[s]) + 1
        /\ Len(inbox[s]) \in Nat
        /\ inbox'[s][Len(inbox[s]) + 1] = m
        /\ \A i \in 1 .. Len(inbox[s]) : inbox'[s][i] = inbox[s][i]
    BY <1>0, <1>3, AppendProperties, LenProperties
  <2> QED BY <1>1, <1>3, <2>1 DEF Flight
<1> QED BY <1>0, <1>2, <1>3, Written

\* For a reader whose line it is not.
LEMMA ChainOther ==
  ASSUME Inv, NEW s \in Socket, NEW m \in Reply, Write(s, m), via' = via,
         NEW q \in Request, m.to # q \/ m.result = 0,
         Reading(q)' => Reading(q) /\ Upcoming(q)' = Upcoming(q)
  PROVE  Chain(q)'
<1>0. /\ Types /\ Chain(q) /\ via[q] \in Socket /\ via'[q] = via[q]
      /\ inbox[s] \in Seq(Reply) /\ data[q] \in Seq(Nat)
      /\ sock' = sock /\ data' = data
  BY Written DEF Inv, LineInv, Types
<1>1. \A t \in Socket : writePump'[t] = "running" => writePump[t] = "running"
  BY <1>0, Written DEF Types
<1>2. CASE inbox'[via[q]] = inbox[via[q]]
  BY <1>0, <1>1, <1>2 DEF Chain
<1>3. CASE via[q] = s /\ inbox'[s] = Append(inbox[s], m) /\ sock[s] = "open"
  <2>1. InOrder(inbox[s], data[q], q) /\ InRow(inbox[s], data[q], q)
    BY <1>0, <1>3 DEF Chain
  <2>2. /\ InOrder(inbox'[s], data[q], q)
        /\ Numbers(inbox'[s], data[q], q) = Numbers(inbox[s], data[q], q)
    BY <1>0, <1>3, <2>1, OtherWritten
  <2> QED BY <1>0, <1>1, <1>3, <2>1, <2>2 DEF Chain, InRow, UpTo
<1>4. \/ inbox' = inbox
      \/ sock[s] = "open" /\ inbox' = [inbox EXCEPT ![s] = Append(@, m)]
  BY Written
<1> QED BY <1>0, <1>2, <1>3, <1>4 DEF Types

LEMMA SendLineKeeps ==
  ASSUME Inv, NEW r \in Request, SendLine(r)
  PROVE  Inv'
<1>0. PICK m : m = [code |-> LogCode, to |-> r, ok |-> TRUE, result |-> InHand(r)]
  OBVIOUS
<1>1. /\ UNCHANGED <<via, say, stops, hpcloudMap, tail, lines>>
      /\ handler[r] = "holding" /\ handler' = [handler EXCEPT ![r] = "reading"]
      /\ late' = IF Answered(r) THEN [late EXCEPT ![r] = @ + 1] ELSE late
      /\ Write(via[r], m)
  BY <1>0 DEF SendLine, NextOfReader, tailVars
<1>2. Types /\ Early(r) /\ Stopped(r) /\ LateOnce(r) /\ Called(r) /\ lines[r] \in Nat
  BY OfHandler
<1>3. PICK s \in Socket : s = via[r]
  BY <1>2 DEF Types
<1>4. /\ InHand(r) = Upcoming(r) /\ Upcoming(r) \in Nat /\ Upcoming(r) > 0 /\ successCallback
  BY <1>1, <1>2 DEF InHand, Upcoming, Called, Reading
<1>5. /\ m \in Reply /\ m.to = r /\ m.ok /\ m.result = Upcoming(r) /\ Write(s, m)
  BY <1>0, <1>1, <1>3, <1>4, OneCode DEF Reply
<1>6. /\ UNCHANGED <<sock, websocket, reconnectionAttempts, outbox, data, successCallback, about>>
      /\ writePump[s] = "running"
  BY <1>5, Written
<1>7. handler'[r] = "reading" /\ \A q \in Request : q # r => handler'[q] = handler[q]
  BY <1>1, <1>2 DEF Types
<1>8. Upcoming(r)' = Upcoming(r) + 1 /\ \A q \in Request : q # r => Upcoming(q)' = Upcoming(q)
  BY <1>1, <1>2, <1>7 DEF Upcoming
<1>9. Types'
  <2>1. inbox' \in [Socket -> Seq(Reply)] /\ writePump' \in [Socket -> PumpState]
    BY <1>5, WrittenTypes
  <2>2. late' \in [Request -> Nat] /\ handler' \in [Request -> HandlerState]
    BY <1>1, <1>2 DEF Types, HandlerState
  <2> QED BY <1>1, <1>2, <1>6, <2>1, <2>2 DEF Types
<1>10. NewestSocket' /\ \A t \in Socket, q \in Request : Route(t, q)'
  BY <1>1, <1>6, <1>7 DEF Inv, NewestSocket, Route
<1>11. \A t \in Socket : Flight(t)'
  <2>1. Proper(s, m)'
    BY <1>1, <1>3, <1>4, <1>5, <1>6, <1>7 DEF Proper, Begun
  <2>2. \A q \in Request : handler'[q] \in Begun => handler[q] \in Begun
    BY <1>7 DEF Begun
  <2> QED BY <1>1, <1>5, <2>1, <2>2, WrittenFlight
<1>12. ASSUME NEW q \in Request PROVE StopInv(q)' /\ Shown(q)'
  <2>1. Types /\ Early(q) /\ Stopped(q) /\ LateOnce(q) /\ Called(q) /\ Shown(q)
    BY OfHandler DEF Inv, LineInv
  <2>2. Early(q)' /\ Stopped(q)'
    BY <1>1, <1>6, <1>7, <2>1 DEF Early, Stopped, Begun
  <2>3. Called(q)'
    BY <1>1, <1>2, <1>4, <1>6, <1>7, <1>8, <2>1 DEF Called, Reading
  <2>4. LateOnce(q)'
    <3>1. CASE q = r /\ Answered(r)
      <4>1. PICK a \in Request : stops[a] = r /\ handler[a] = "done"
        BY <3>1 DEF Answered
      <4>2. tail[r] = "dead"
        BY <4>1, OfHandler, NoRequestAssumption DEF Stopped
      <4>3. late[r] = 0
        BY <1>1, <1>2 DEF LateOnce
      <4>4. late'[r] = 1
        BY <1>1, <1>2, <3>1, <4>3 DEF Types
      <4> QED BY <1>1, <1>7, <3>1, <4>2, <4>4 DEF LateOnce
    <3>2. CASE late'[q] = late[q]
      BY <1>1, <1>7, <2>1, <3>2 DEF LateOnce
    <3> QED BY <1>1, <1>2, <3>1, <3>2 DEF Types
  <2>5. Shown(q)'
    BY <1>6, <2>1 DEF Shown
  <2> QED BY <2>2, <2>3, <2>4, <2>5 DEF StopInv
<1>13. Chain(r)'
  <2>0. Chain(r) /\ inbox[s] \in Seq(Reply) /\ data[r] \in Seq(Nat) /\ via'[r] = s
    BY <1>1, <1>2, <1>3 DEF Inv, LineInv, Types
  <2>1. CASE /\ sock[s] = "open" /\ writePump' = writePump
             /\ inbox' = [inbox EXCEPT ![s] = Append(@, m)]
    <3>1. inbox'[s] = Append(inbox[s], m)
      BY <1>2, <2>1 DEF Types
    <3>2. /\ InOrder(inbox[s], data[r], r) /\ InRow(inbox[s], data[r], r)
          /\ UpTo(inbox[s], data[r], r, m.result)
      BY <1>1, <1>3, <1>5, <1>6, <2>0, <2>1 DEF Chain, Reading
    <3>3. /\ InOrder(inbox'[s], data[r], r) /\ InRow(inbox'[s], data[r], r)
          /\ UpTo(inbox'[s], data[r], r, m.result + 1)
      BY <1>4, <1>5, <2>0, <3>1, <3>2, LineWritten
    <3> QED BY <1>5, <1>6, <1>8, <2>0, <3>3 DEF Chain
  <2>2. CASE sock[s] # "open"
    BY <1>6, <2>0, <2>2 DEF Chain
  <2>3. CASE writePump' = [writePump EXCEPT ![s] = "ended"] /\ inbox' = inbox
    <3>1. writePump'[s] # "running"
      BY <1>2, <2>3 DEF Types
    <3> QED BY <1>3, <1>6, <2>0, <2>3, <3>1 DEF Chain
  <2> QED BY <1>5, <2>1, <2>2, <2>3, Written
<1>14. ASSUME NEW q \in Request, q # r PROVE Chain(q)'
  BY <1>1, <1>5, <1>7, <1>8, <1>14, ChainOther DEF Reading
<1> QED BY <1>9, <1>10, <1>11, <1>12, <1>13, <1>14 DEF Inv, LineInv

LEMMA SendAnswerKeeps ==
  ASSUME Inv, NEW r \in Request, SendAnswer(r)
  PROVE  Inv'
<1>0. PICK m : m = [code |-> LogCode, to |-> r, ok |-> Head(say[r]), result |-> 0]
  OBVIOUS
<1>1. /\ UNCHANGED <<via, stops, hpcloudMap, tail, lines, late>>
      /\ handler[r] = "answering" /\ say' = [say EXCEPT ![r] = Tail(@)]
      /\ handler' = [handler EXCEPT ![r] = IF Len(say[r]) = 1 THEN "done" ELSE @]
      /\ Write(via[r], m)
  BY <1>0 DEF SendAnswer, tailVars
<1>2. Types /\ Early(r) /\ Stopped(r) /\ LateOnce(r) /\ Called(r) /\ say[r] \in Seq(BOOLEAN)
  BY OfHandler
<1>3. PICK s \in Socket : s = via[r]
  BY <1>2 DEF Types
<1>4. /\ say[r] # <<>> /\ Head(say[r]) \in BOOLEAN /\ Tail(say[r]) \in Seq(BOOLEAN)
      /\ Len(say[r]) # 1 => Tail(say[r]) # <<>>
  <2>1. say[r] # <<>>
    BY <1>1, <1>2 DEF Early
  <2>2. /\ Head(say[r]) \in BOOLEAN /\ Tail(say[r]) \in Seq(BOOLEAN)
        /\ Len(Tail(say[r])) = Len(say[r]) - 1 /\ Len(say[r]) \in Nat
    BY <1>2, <2>1, HeadTailProperties, LenProperties
  <2>3. ASSUME Tail(say[r]) = <<>> PROVE Len(say[r]) = 1
    <3>1. Len(Tail(say[r])) = 0
      BY <2>3, EmptySeq
    <3> QED BY <2>2, <3>1
  <2> QED BY <2>1, <2>2, <2>3
<1>5. m \in Reply /\ m.result = 0 /\ Write(s, m)
  BY <1>0, <1>1, <1>3, <1>4, OneCode DEF Reply
<1>6. UNCHANGED <<sock, websocket, reconnectionAttempts, outbox, data, successCallback, about>>
  BY <1>5, Written
<1>7. /\ handler'[r] = IF Len(say[r]) = 1 THEN "done" ELSE "answering"
      /\ \A q \in Request : q # r => handler'[q] = handler[q] /\ say'[q] = say[q]
      /\ say'[r] = Tail(say[r])
  BY <1>1, <1>2 DEF Types
<1>8. \A q \in Request : Upcoming(q)' = Upcoming(q) /\ (Reading(q)' <=> Reading(q))
  BY <1>1, <1>7 DEF Upcoming, Reading
<1>9. Types'
  <2>1. inbox' \in [Socket -> Seq(Reply)] /\ writePump' \in [Socket -> PumpState]
    BY <1>5, WrittenTypes
  <2>2. say' \in [Request -> Seq(BOOLEAN)] /\ handler' \in [Request -> HandlerState]
    BY <1>1, <1>2, <1>4 DEF Types, HandlerState
  <2> QED BY <1>1, <1>2, <1>6, <2>1, <2>2 DEF Types
<1>10. NewestSocket' /\ \A t \in Socket, q \in Request : Route(t, q)'
  BY <1>1, <1>6, <1>7 DEF Inv, NewestSocket, Route
<1>11. \A t \in Socket : Flight(t)'
  <2>1. Proper(s, m)'
    BY <1>5 DEF Proper
  <2>2. \A q \in Request : handler'[q] \in Begun => handler[q] \in Begun
    BY <1>7 DEF Begun
  <2> QED BY <1>1, <1>5, <2>1, <2>2, WrittenFlight
<1>12. ASSUME NEW q \in Request PROVE StopInv(q)' /\ Shown(q)'
  <2>1. Types /\ Early(q) /\ Stopped(q) /\ LateOnce(q) /\ Called(q) /\ Shown(q)
    BY OfHandler DEF Inv, LineInv
  <2>2. Early(q)'
    BY <1>1, <1>4, <1>6, <1>7, <2>1 DEF Early, Begun
  <2>3. Stopped(q)' /\ LateOnce(q)'
    BY <1>1, <1>7, <2>1 DEF Stopped, LateOnce
  <2>4. Called(q)' /\ Shown(q)'
    BY <1>6, <1>8, <2>1 DEF Called, Shown
  <2> QED BY <2>2, <2>3, <2>4 DEF StopInv
<1>13. \A q \in Request : Chain(q)'
  BY <1>1, <1>5, <1>8, ChainOther
<1> QED BY <1>9, <1>10, <1>11, <1>12, <1>13 DEF Inv, LineInv

(***************************************************************************)
(* The modal                                                               *)
(***************************************************************************)
\* A message is made and sent, or not sent; Cancel forgets what was shown as well.
LEMMA Sent ==
  ASSUME Inv, NEW r \in Request, about[r] = "unused", Transmit(r),
         NEW kind \in {"start", "stop"}, about' = [about EXCEPT ![r] = kind],
         successCallback \/ kind = "start" => successCallback',
         data' = data \/ data' = [q \in Request |-> <<>>],
         UNCHANGED <<sock, websocket, reconnectionAttempts, inbox, serverVars>>
  PROVE  Inv'
<1>1. UNCHANGED <<writePump, handler, via, say, stops, hpcloudMap, tail, lines, late>>
  BY DEF serverVars, hubVars, handlerVars, tailVars
<1>2. Types /\ Early(r)
  BY OfHandler
<1>3. handler[r] = "none"
  BY <1>2 DEF Early
<1>4. \A q \in Request : data'[q] = data[q] \/ data'[q] = <<>>
  OBVIOUS
<1>5. Types'
  <2>1. data' \in [Request -> Seq(Nat)]
    <3>1. <<>> \in Seq(Nat)
      BY EmptySeq
    <3> QED BY <1>2, <3>1 DEF Types
  <2>2. outbox' \in [Socket -> SUBSET Request]
    BY <1>2 DEF Types, Transmit
  <2> QED BY <1>1, <1>2, <2>1, <2>2 DEF Types
<1>6. NewestSocket' /\ \A t \in Socket : Flight(t)'
  BY <1>1 DEF Inv, NewestSocket, Flight, Proper
<1>7. ASSUME NEW t \in Socket, NEW q \in Request PROVE Route(t, q)'
  <2>1. about'[q] = IF q = r THEN kind ELSE about[q]
    BY <1>2 DEF Types
  <2>2. \A u \in Socket : r \notin outbox[u]
    BY DEF Inv, Route
  <2>3. \A u \in Socket : \/ outbox'[u] = outbox[u]
                          \/ u = websocket /\ sock[u] = "open" /\ outbox'[u] = outbox[u] \cup {r}
    BY <1>2 DEF Types, Transmit
  <2>4. Route(t, q)
    BY DEF Inv
  <2> QED BY <1>1, <1>3, <2>1, <2>2, <2>3, <2>4 DEF Route, Unopened
<1>8. ASSUME NEW q \in Request PROVE StopInv(q)'
  <2>1. Types /\ Early(q) /\ Stopped(q) /\ LateOnce(q) /\ Called(q)
    BY OfHandler
  <2>2. about'[q] = IF q = r THEN kind ELSE about[q]
    BY <1>2 DEF Types
  <2>3. Early(q)'
    BY <1>1, <1>3, <1>4, <2>1, <2>2 DEF Early
  <2>4. Stopped(q)' /\ LateOnce(q)'
    BY <1>1, <2>1 DEF Stopped, LateOnce
  <2>5. Called(q)'
    BY <1>1, <2>1, <2>2 DEF Called, Reading, Upcoming
  <2> QED BY <2>3, <2>4, <2>5 DEF StopInv
<1>9. ASSUME NEW q \in Request PROVE LineInv(q)'
  <2>1. /\ Chain(q) /\ Shown(q) /\ via[q] \in Socket /\ lines[q] \in Nat /\ Called(q)
        /\ inbox[via[q]] \in Seq(Reply) /\ data[q] \in Seq(Nat)
    BY DEF Inv, LineInv, StopInv, Types
  <2>2. CASE data'[q] = data[q]
    BY <1>1, <2>1, <2>2 DEF LineInv, Chain, Shown, Reading, Upcoming
  <2>3. CASE data'[q] = <<>>
    <3>1. Shown(q)'
      BY <2>3, EmptySeq DEF Shown
    <3>2. CASE sock[via[q]] = "open"
      <4>1. /\ InOrder(inbox[via[q]], <<>>, q) /\ InRow(inbox[via[q]], <<>>, q)
            /\ \A n \in Nat : UpTo(inbox[via[q]], data[q], q, n)
                                 => UpTo(inbox[via[q]], <<>>, q, n)
        BY <2>1, <3>2, Forgotten DEF Chain
      <4>2. Reading(q) => Upcoming(q) \in Nat
        BY <2>1 DEF Called, Upcoming
      <4> QED BY <1>1, <2>1, <2>3, <3>1, <4>1, <4>2 DEF LineInv, Chain, Reading, Upcoming
    <3> QED BY <1>1, <3>1, <3>2 DEF LineInv, Chain
  <2> QED BY <1>4, <2>2, <2>3
<1> QED BY <1>5, <1>6, <1>7, <1>8, <1>9 DEF Inv

LEMMA StartSent ==
  ASSUME Inv, NEW r \in NextRequest, handleStart(r), UNCHANGED <<data, serverVars>>
  PROVE  Inv'
BY Sent DEF handleStart, sendSync, socketVars, NextRequest, Fresh

LEMMA StopSent ==
  ASSUME Inv, NEW r \in NextRequest, handleStop(r), UNCHANGED serverVars,
         data' = data \/ data' = [q \in Request |-> <<>>]
  PROVE  Inv'
BY Sent DEF handleStop, send, socketVars, NextRequest, Fresh

LEMMA ModalKeeps == Inv /\ (OpenModal \/ ClickButton \/ Cancel) => Inv'
BY StartSent, StopSent DEF OpenModal, ClickButton, Cancel

\* A message comes: if it is a line, it is the next one of its reader.
LEMMA MessageKeeps ==
  ASSUME Inv, NEW s \in Socket, Message(s)
  PROVE  Inv'
<1>1. PICK m : m = Head(inbox[s])
  OBVIOUS
<1>2. /\ sock[s] = "open" /\ inbox[s] # <<>> /\ inbox' = [inbox EXCEPT ![s] = Tail(@)]
      /\ UNCHANGED <<sock, websocket, reconnectionAttempts, outbox, successCallback, about,
                     writePump, handler, via, say, stops, hpcloudMap, tail, lines, late>>
      /\ data' = IF m.ok /\ successCallback /\ m.result > 0
                 THEN [data EXCEPT ![m.to] = Append(@, m.result)]
                 ELSE data
  BY <1>1 DEF Message, onmessage, serverVars, hubVars, handlerVars, tailVars
<1>3. Types /\ Flight(s) /\ inbox[s] \in Seq(Reply)
  BY DEF Inv, Types
<1>4. /\ m = inbox[s][1] /\ m \in Reply /\ Tail(inbox[s]) \in Seq(Reply)
      /\ Len(inbox[s]) \in Nat /\ Len(inbox[s]) > 0
      /\ Len(Tail(inbox[s])) = Len(inbox[s]) - 1
      /\ \A i \in 1 .. Len(Tail(inbox[s])) : Tail(inbox[s])[i] = inbox[s][i + 1]
  BY <1>1, <1>2, <1>3, TailIs
<1>5. m.to \in Request /\ m.result \in Nat
  BY <1>4 DEF Reply
<1>6. m.result > 0 => m.ok /\ successCallback /\ via[m.to] = s /\ handler[m.to] \notin Begun
  BY <1>3, <1>4 DEF Flight, Proper
<1>7. \/ m.result > 0 /\ data' = [data EXCEPT ![m.to] = Append(@, m.result)]
      \/ m.result = 0 /\ data' = data
  BY <1>2, <1>5, <1>6
<1>8. \A q \in Request : m.to # q \/ m.result = 0 => data'[q] = data[q]
  <2>1. CASE data' = data
    BY <2>1
  <2>2. CASE m.result > 0 /\ data' = [data EXCEPT ![m.to] = Append(@, m.result)]
    <3>1. m.result # 0
      BY <1>5, <2>2
    <3>2. data \in [Request -> Seq(Nat)]
      BY <1>3 DEF Types
    <3> QED BY <2>2, <3>1, <3>2
  <2> QED BY <1>7, <2>1, <2>2
<1>9. Types'
  <2>1. inbox' \in [Socket -> Seq(Reply)]
    BY <1>2, <1>3, <1>4 DEF Types
  <2>2. Append(data[m.to], m.result) \in Seq(Nat)
    BY <1>3, <1>5, AppendProperties DEF Types
  <2>3. data' \in [Request -> Seq(Nat)]
    BY <1>3, <1>7, <2>2 DEF Types
  <2> QED BY <1>2, <1>3, <2>1, <2>3 DEF Types
<1>10. NewestSocket' /\ \A t \in Socket, q \in Request : Route(t, q)'
  BY <1>2 DEF Inv, NewestSocket, Route
<1>11. ASSUME NEW t \in Socket PROVE Flight(t)'
  <2>1. CASE t # s
    <3>1. inbox'[t] = inbox[t] /\ Flight(t)
      BY <1>2, <1>3, <2>1 DEF Types, Inv
    <3> QED BY <1>2, <3>1 DEF Flight, Proper
  <2>2. CASE t = s
    <3>1. inbox'[s] = Tail(inbox[s])
      BY <1>2, <1>3 DEF Types
    <3>2. \A i \in 1 .. Len(Tail(inbox[s])) : i + 1 \in 1 .. Len(inbox[s])
      BY <1>4
    <3> QED BY <1>2, <1>3, <1>4, <2>2, <3>1, <3>2 DEF Flight, Proper
  <2> QED BY <2>1, <2>2
<1>12. ASSUME NEW q \in Request PROVE StopInv(q)'
  <2>1. StopInv(q)
    BY DEF Inv
  <2>2. handler[q] \in Begun => data'[q] = data[q]
    BY <1>6, <1>8, <1>5
  <2> QED BY <1>2, <2>1, <2>2
        DEF StopInv, Early, Stopped, LateOnce, Called, Reading, Upcoming
<1>13. ASSUME NEW q \in Request, m.to # q \/ m.result = 0 PROVE LineInv(q)'
  <2>1. Chain(q) /\ Shown(q) /\ via[q] \in Socket /\ data'[q] = data[q]
    BY <1>3, <1>8, <1>13 DEF Inv, LineInv, Types
  <2>2. Shown(q)'
    BY <2>1 DEF Shown
  <2>3. CASE via[q] # s
    <3>1. inbox'[via[q]] = inbox[via[q]]
      BY <1>2, <1>3, <2>1, <2>3 DEF Types
    <3> QED BY <1>2, <2>1, <2>2, <3>1 DEF LineInv, Chain, Reading, Upcoming
  <2>4. CASE via[q] = s
    <3>1. InOrder(inbox[s], data[q], q) /\ InRow(inbox[s], data[q], q)
      BY <1>2, <2>1, <2>4 DEF Chain
    <3>2. /\ Numbers(inbox'[s], data[q], q) = Numbers(inbox[s], data[q], q)
          /\ InOrder(inbox'[s], data[q], q)
      <4>1. inbox'[s] = Tail(inbox[s])
        BY <1>2, <1>3 DEF Types
      <4> QED BY <1>1, <1>2, <1>3, <1>13, <3>1, <4>1, OtherCame
    <3>3. InRow(inbox'[s], data[q], q)
      BY <3>1, <3>2 DEF InRow
    <3>4. Reading(q) /\ writePump[s] = "running" => UpTo(inbox'[s], data[q], q, Upcoming(q))
      BY <1>2, <2>1, <2>4, <3>2 DEF Chain, UpTo
    <3> QED BY <1>2, <2>1, <2>2, <2>4, <3>2, <3>3, <3>4 DEF LineInv, Chain, Reading, Upcoming
  <2> QED BY <2>3, <2>4
<1>14. ASSUME m.result > 0 PROVE LineInv(m.to)'
  <2> DEFINE q == m.to
             d == data[q]
             e == Append(d, m.result)
  <2>1. /\ Chain(q) /\ Shown(q) /\ via[q] = s /\ d \in Seq(Nat) /\ Called(q)
        /\ lines[q] \in Nat
    BY <1>3, <1>5, <1>6, <1>14 DEF Inv, LineInv, StopInv, Types
  <2>2. data'[q] = e /\ inbox'[s] = Tail(inbox[s])
    <3>1. data' = [data EXCEPT ![m.to] = Append(@, m.result)]
      BY <1>5, <1>7, <1>14
    <3>2. data \in [Request -> Seq(Nat)] /\ inbox \in [Socket -> Seq(Reply)]
      BY <1>3 DEF Types
    <3> QED BY <1>2, <1>5, <3>1, <3>2
  <2>3. InOrder(inbox[s], d, q) /\ InRow(inbox[s], d, q)
    BY <1>2, <2>1 DEF Chain
  <2>4. /\ d # <<>> => m.result = d[Len(d)] + 1
        /\ InOrder(inbox'[s], e, q) /\ InRow(inbox'[s], e, q)
        /\ \A n \in Nat : UpTo(inbox[s], d, q, n) => UpTo(inbox'[s], e, q, n)
    <3>1. inbox[s] # <<>> /\ Head(inbox[s]).to = q /\ Head(inbox[s]).result = m.result
      BY <1>1, <1>2
    <3> HIDE DEF q, d
    <3> QED BY <1>3, <1>14, <2>1, <2>2, <2>3, <3>1, LineCame
  <2>5. Chain(q)'
    <3>1. Reading(q) => Upcoming(q) \in Nat
      BY <2>1 DEF Called, Upcoming
    <3> HIDE DEF e
    <3> QED BY <1>2, <2>1, <2>2, <2>4, <3>1 DEF Chain, Reading, Upcoming
  <2>6. Shown(q)'
    <3>1. /\ Len(e) = Len(d) + 1 /\ e[Len(d) + 1] = m.result /\ Len(d) \in Nat
          /\ \A i \in 1 .. Len(d) : e[i] = d[i]
      BY <1>5, <2>1, AppendProperties, LenProperties
    <3>2. Len(d) > 0 => d # <<>>
      BY EmptySeq
    <3>3. ASSUME NEW i \in 1 .. Len(e) - 1 PROVE e[i + 1] = e[i] + 1
      <4>1. CASE i = Len(d)
        BY <2>4, <3>1, <3>2, <4>1
      <4>2. CASE i # Len(d)
        <5>1. i \in 1 .. Len(d) - 1 /\ i + 1 \in 1 .. Len(d) /\ i \in 1 .. Len(d)
          BY <3>1, <4>2
        <5> QED BY <2>1, <3>1, <5>1 DEF Shown
      <4> QED BY <4>1, <4>2
    <3> QED BY <2>2, <3>3 DEF Shown
  <2> QED BY <2>5, <2>6 DEF LineInv
<1>15. ASSUME NEW q \in Request PROVE LineInv(q)'
  BY <1>5, <1>13, <1>14
<1> QED BY <1>9, <1>10, <1>11, <1>12, <1>15 DEF Inv

LEMMA Step == Inv /\ [Next]_vars => Inv'
<1> SUFFICES ASSUME Inv, [Next]_vars PROVE Inv'
  OBVIOUS
<1>1. ASSUME NEW r \in Request, Handler(r) PROVE Inv'
  BY <1>1, RefusesKeeps, StartKeeps, TakeKeeps, SendLineKeeps, EndsKeeps, StopKeeps, WaitKeeps,
     SendAnswerKeeps DEF Handler
<1>2. CASE UNCHANGED vars
  BY <1>2, Rests DEF vars, wsVars, socketVars, modalVars, serverVars, hubVars, handlerVars,
                     tailVars, logVars
<1> QED BY <1>1, <1>2, ModalKeeps, MessageKeeps, PumpsKeep, ReadKeeps, TailKeeps, RaceKeeps,
           SocketKeeps DEF Next

\* The lines of a reader are shown one after the other, from the file to the modal
\* (deviceservicelog.go:103, server.go's writePump, LogModal.tsx:31).
THEOREM LinesInOrder == Spec => []LogInOrder
<1>1. Inv => LogInOrder
  BY DEF Inv, LineInv, Shown, LogInOrder
<1> QED BY <1>1, HoldsFirst, Step, PTL DEF Spec

\* One line at most follows the answer of a stop: the one its handler held
\* (deviceservicelog.go:117, the library's Stop waits for its goroutine).
THEOREM LateAtMostOnce == Spec => []AtMostOneLate
<1>1. Inv => AtMostOneLate
  <2> SUFFICES ASSUME Inv, NEW r \in Request PROVE late[r] <= 1
    BY DEF AtMostOneLate
  <2>1. late[r] \in Nat /\ (late[r] # 0 => late[r] = 1)
    BY DEF Inv, Types, StopInv, LateOnce
  <2> QED BY <2>1
<1> QED BY <1>1, HoldsFirst, Step, PTL DEF Spec

(***************************************************************************)
(* The sockets of the modal's page                                         *)
(*                                                                         *)
(* The class's own steps keep one line to the server, whatever the modal   *)
(* and the server do: an attempt is under way only for the newest socket,  *)
(* and only while there are attempts left to make.                         *)
(***************************************************************************)
SocketTypes ==
  /\ sock \in [Socket -> SocketState]
  /\ websocket \in Socket
  /\ lockReconnect \in BOOLEAN
  /\ reconnectionAttempts \in 0 .. MaxAttempts
  /\ errorTimers \in Nat
  /\ reconnectTimers \in Nat

AttemptsLeft == errorTimers + reconnectTimers > 0 => reconnectionAttempts < MaxAttempts

SocketInv == SocketTypes /\ OneConnection /\ KeepsTrying /\ AttemptsLeft

LEMMA Sockets ==
  /\ MaxAttempts \in Nat
  /\ 1 \in Socket
  /\ \A n \in 0 .. MaxAttempts : n < MaxAttempts => n + 2 \in Socket
BY MaxAttemptsAssumption DEF Socket

LEMMA SocketInit == WsInit => SocketInv
<1> SUFFICES ASSUME WsInit PROVE SocketInv
  OBVIOUS
<1>0. sock \in [Socket -> SocketState]
  BY DEF WsInit, SocketState
<1>1. SocketTypes
  <2>1. 0 \in 0 .. MaxAttempts /\ 0 \in Nat /\ 1 \in Socket
    BY Sockets
  <2> QED BY <1>0, <2>1 DEF WsInit, SocketTypes
<1>2. sock[websocket] = "connecting" /\ \A s \in Socket : s # websocket => sock[s] = "none"
  BY Sockets DEF WsInit
<1>3. errorTimers = 0 /\ reconnectTimers = 0
  BY DEF WsInit
<1> QED BY <1>1, <1>2, <1>3 DEF SocketInv, OneConnection, KeepsTrying, AttemptsLeft, Ended

\* A step that leaves the sockets alone, but for a message that locks reconnect.
LEMMA SocketAlone ==
  ASSUME SocketInv,
         UNCHANGED <<sock, websocket, reconnectionAttempts, errorTimers, reconnectTimers>>,
         lockReconnect' \in {lockReconnect, TRUE}
  PROVE  SocketInv'
BY DEF SocketInv, SocketTypes, OneConnection, KeepsTrying, AttemptsLeft

\* A socket that has not ended is the newest one, and no attempt is under way.
LEMMA TheNewest ==
  ASSUME SocketInv, NEW s \in Socket, sock[s] \notin Ended
  PROVE  s = websocket /\ errorTimers = 0 /\ reconnectTimers = 0
BY DEF SocketInv, SocketTypes, OneConnection, Ended

LEMMA SocketOpens ==
  ASSUME SocketInv, NEW s \in Socket, onopen(s)
  PROVE  SocketInv'
<1>1. s = websocket /\ errorTimers = 0 /\ reconnectTimers = 0
  BY TheNewest DEF onopen, Ended
<1>2. sock'[websocket] = "open" /\ \A q \in Socket : q # websocket => sock'[q] = sock[q]
  BY <1>1 DEF onopen, SocketInv, SocketTypes
<1>3. SocketTypes'
  BY DEF onopen, SocketInv, SocketTypes, SocketState
<1> QED BY <1>1, <1>2, <1>3 DEF onopen, SocketInv, OneConnection, KeepsTrying, AttemptsLeft

LEMMA SocketFails ==
  ASSUME SocketInv, NEW s \in Socket, onerror(s)
  PROVE  SocketInv'
<1>1. s = websocket /\ errorTimers = 0 /\ reconnectTimers = 0
  BY TheNewest DEF onerror, Ended
<1>2. sock'[websocket] = "failed" /\ \A q \in Socket : q # websocket => sock'[q] = sock[q]
  BY <1>1 DEF onerror, SocketInv, SocketTypes
<1>3. errorTimers' = (IF reconnectionAttempts < MaxAttempts THEN 1 ELSE 0) /\ reconnectTimers' = 0
  BY <1>1 DEF onerror, WillRetry
<1>4. SocketTypes'
  BY <1>3 DEF onerror, SocketInv, SocketTypes, SocketState
<1> QED BY <1>2, <1>3, <1>4 DEF onerror, SocketInv, OneConnection, KeepsTrying, AttemptsLeft

LEMMA SocketCloses ==
  ASSUME SocketInv, NEW s \in Socket, onclose(s)
  PROVE  SocketInv'
<1>1. s = websocket /\ errorTimers = 0 /\ reconnectTimers = 0
  BY TheNewest DEF onclose, Ended
<1>2. sock'[websocket] = "lost" /\ \A q \in Socket : q # websocket => sock'[q] = sock[q]
  BY <1>1 DEF onclose, SocketInv, SocketTypes
<1>3. SocketTypes'
  BY DEF onclose, AfterClose, SocketInv, SocketTypes, SocketState
<1> QED BY <1>1, <1>2, <1>3
    DEF onclose, AfterClose, SocketInv, OneConnection, KeepsTrying, AttemptsLeft

LEMMA SocketReconnects ==
  ASSUME SocketInv, reconnect
  PROVE  SocketInv'
<1>1. /\ errorTimers \in Nat /\ reconnectTimers \in Nat /\ errorTimers > 0
      /\ errorTimers' = errorTimers - 1
      /\ reconnectTimers' = reconnectTimers + (IF lockReconnect THEN 0 ELSE 1)
      /\ UNCHANGED <<sock, websocket, lockReconnect, reconnectionAttempts>>
  BY DEF reconnect, SocketInv, SocketTypes
<1>2. SocketTypes'
  BY <1>1 DEF SocketInv, SocketTypes
<1> QED BY <1>1, <1>2 DEF SocketInv, OneConnection, KeepsTrying, AttemptsLeft

LEMMA SocketRenewed ==
  ASSUME SocketInv, NewSocket
  PROVE  SocketInv'
<1>1. /\ errorTimers \in Nat /\ reconnectTimers \in Nat /\ reconnectTimers > 0
      /\ errorTimers' = errorTimers /\ reconnectTimers' = reconnectTimers - 1
      /\ reconnectionAttempts \in 0 .. MaxAttempts
      /\ reconnectionAttempts' = reconnectionAttempts + 1
      /\ websocket' = reconnectionAttempts + 2
      /\ lockReconnect' = FALSE
  BY DEF NewSocket, SocketInv, SocketTypes
<1>2. reconnectionAttempts < MaxAttempts
  BY <1>1 DEF SocketInv, AttemptsLeft
<1>3. sock[websocket] = "failed" /\ errorTimers = 0 /\ reconnectTimers = 1
  BY <1>1 DEF SocketInv, OneConnection
<1>4. websocket' \in Socket
  BY <1>1, <1>2, Sockets
<1>5. /\ sock' = [sock EXCEPT ![websocket'] = "connecting"]
      /\ sock \in [Socket -> SocketState]
  BY <1>1 DEF NewSocket, SocketInv, SocketTypes
<1>6. \A q \in Socket : sock[q] \in Ended
  BY <1>3 DEF SocketInv, OneConnection, Ended
<1>7. sock'[websocket'] = "connecting" /\ \A q \in Socket : q # websocket' => sock'[q] \in Ended
  BY <1>4, <1>5, <1>6
<1>8. SocketTypes'
  <2>1. sock' \in [Socket -> SocketState]
    BY <1>5 DEF SocketState
  <2>2. reconnectionAttempts' \in 0 .. MaxAttempts
    BY <1>1, <1>2, Sockets
  <2>3. errorTimers' = 0 /\ reconnectTimers' = 0
    BY <1>1, <1>3
  <2>4. lockReconnect' \in BOOLEAN
    BY <1>1
  <2> QED BY <1>4, <2>1, <2>2, <2>3, <2>4 DEF SocketTypes
<1> QED BY <1>1, <1>3, <1>7, <1>8 DEF SocketInv, OneConnection, KeepsTrying, AttemptsLeft

\* No step of the modal or of the server touches the sockets.
LEMMA SocketStep == SocketInv /\ [Next]_vars => SocketInv'
<1> SUFFICES ASSUME SocketInv, [Next]_vars PROVE SocketInv'
  OBVIOUS
<1>1. ASSUME OpenModal \/ ClickButton \/ Cancel PROVE UNCHANGED socketVars
  BY <1>1 DEF OpenModal, ClickButton, Cancel, handleStart, handleStop, send, sendSync
<1>2. ASSUME NEW s \in Socket, Message(s) PROVE SocketInv'
  BY <1>2, SocketAlone DEF Message, onmessage
<1>3. ASSUME NEW s \in Socket,
             Handle(s) \/ ReadFails(s) \/ Ping(s) \/ \E r \in Request : ReadMessage(s, r)
      PROVE  UNCHANGED socketVars
  BY <1>3 DEF Handle, ReadFails, Ping, ReadMessage, wsVars
<1>4. ASSUME NEW r \in Request, SendLine(r) \/ SendAnswer(r) PROVE UNCHANGED socketVars
  BY <1>4 DEF SendLine, SendAnswer, Write
<1>5. ASSUME NEW r \in Request, Handler(r) PROVE UNCHANGED socketVars
  BY <1>4, <1>5 DEF Handler, Refuses, StartRead, TakeLine, ReadEnds, StopRead, StopWaits, wsVars
<1>6. ASSUME NEW r \in Request, TailOffers(r) \/ TailDies(r) PROVE UNCHANGED socketVars
  BY <1>6 DEF TailOffers, TailDies, wsVars
<1>7. MapRace \/ UNCHANGED vars => UNCHANGED socketVars
  BY DEF MapRace, vars, wsVars
<1>8. CASE SocketEvent
  BY <1>8, SocketOpens, SocketFails, SocketCloses, SocketReconnects, SocketRenewed DEF SocketEvent
<1>9. UNCHANGED socketVars => SocketInv'
  BY SocketAlone DEF socketVars
<1> QED BY <1>1, <1>2, <1>3, <1>5, <1>6, <1>7, <1>8, <1>9 DEF Next

\* The modal's page, too, never has two lines to the server (web-socket.ts).
THEOREM OneLine == Spec => []OneConnection
<1>1. Init => SocketInv
  BY SocketInit DEF Init
<1>2. SocketInv => OneConnection
  BY DEF SocketInv
<1> QED BY <1>1, <1>2, SocketStep, PTL DEF Spec

(***************************************************************************)
(* Types                                                                   *)
(*                                                                         *)
(* That no number of a line exceeds what the log has to offer is not a     *)
(* matter of one step: the line was counted when it was offered, and what  *)
(* is written is the one in hand, which is the next one (Inv).             *)
(***************************************************************************)
Settling == {"none", "pending", "resolved", "rejected"}

PageTypes ==
  /\ resolveMap \in [Code -> Seq(Request)]
  /\ isModalOpen \in BOOLEAN /\ loading \in BOOLEAN /\ successCallback \in BOOLEAN
  /\ promise \in [Request -> Settling]

ServerTypes ==
  /\ clients \subseteq Socket
  /\ readPump \in [Socket -> PumpState]
  /\ killed \in [Request -> BOOLEAN]

\* What the server may write: an answer, or a line that the log has.
Sayable == {m \in Reply : m.result <= MaxLines}

Bounded ==
  /\ lines \in [Request -> 0 .. MaxLines]
  /\ inbox \in [Socket -> Seq(Sayable)]
  /\ data \in [Request -> Seq(1 .. MaxLines)]

TypeInv == Inv /\ SocketInv /\ PageTypes /\ ServerTypes /\ Bounded

LEMMA TypesFirst == Init => TypeInv
<1> SUFFICES ASSUME Init PROVE TypeInv
  OBVIOUS
<1>1. Inv /\ SocketInv
  BY HoldsFirst, SocketInit DEF Init
<1>2. <<>> \in Seq(Request) /\ <<>> \in Seq(Sayable) /\ <<>> \in Seq(1 .. MaxLines)
  BY EmptySeq
<1>3. PageTypes
  BY <1>2 DEF Init, WsInit, PageTypes, Settling
<1>4. ServerTypes
  BY DEF Init, ServerTypes, PumpState
<1>5. Bounded
  BY <1>2, LogAssumption DEF Init, WsInit, Bounded
<1> QED BY <1>1, <1>3, <1>4, <1>5 DEF TypeInv

\* A resolver is stored, or the newest one is taken.
LEMMA Stacked ==
  ASSUME NEW stack \in Seq(Request)
  PROVE  /\ \A r \in Request : Append(stack, r) \in Seq(Request)
         /\ stack # <<>> => /\ stack[Len(stack)] \in Request
                            /\ SubSeq(stack, 1, Len(stack) - 1) \in Seq(Request)
<1>1. Len(stack) \in Nat /\ (stack # <<>> => Len(stack) > 0)
  BY EmptySeq, LenProperties
<1>2. \A r \in Request : Append(stack, r) \in Seq(Request)
  BY AppendProperties
<1>3. ASSUME stack # <<>> PROVE stack[Len(stack)] \in Request
  <2>1. Len(stack) \in 1 .. Len(stack)
    BY <1>1, <1>3
  <2> QED BY <2>1, ElementOfSeq
<1>4. ASSUME stack # <<>> PROVE SubSeq(stack, 1, Len(stack) - 1) \in Seq(Request)
  <2>1. \A i \in 1 .. Len(stack) - 1 : stack[i] \in Request
    BY <1>1, ElementOfSeq
  <2> QED BY <1>1, <2>1, SubSeqProperties
<1> QED BY <1>2, <1>3, <1>4

\* The user acts.
LEMMA ModalTypes ==
  ASSUME TypeInv, OpenModal \/ ClickButton \/ Cancel
  PROVE  PageTypes' /\ ServerTypes' /\ Bounded'
<1>1. PICK r \in Request : handleStart(r) \/ handleStop(r)
  BY DEF OpenModal, ClickButton, Cancel, NextRequest, Fresh
<1>2. /\ UNCHANGED <<loading, clients, readPump, killed, lines, inbox>>
      /\ isModalOpen' \in {isModalOpen, TRUE, FALSE}
      /\ data' = data \/ data' = [q \in Request |-> <<>>]
  <2>1. UNCHANGED inbox
    BY <1>1 DEF OpenModal, ClickButton, Cancel, handleStart, handleStop, send, sendSync
  <2> QED BY <2>1 DEF OpenModal, ClickButton, Cancel, serverVars, hubVars, tailVars
<1>3. /\ resolveMap' = resolveMap
         \/ resolveMap' = [resolveMap EXCEPT ![LogCode] = Append(@, r)]
      /\ promise' = promise
         \/ \E p \in Settling : promise' = [promise EXCEPT ![r] = p]
      /\ successCallback' \in {successCallback, TRUE}
  BY <1>1 DEF handleStart, handleStop, send, sendSync, Settling
<1>4. PageTypes'
  <2>0. resolveMap[LogCode] \in Seq(Request)
    BY OneCode DEF TypeInv, PageTypes
  <2>1. resolveMap' \in [Code -> Seq(Request)]
    BY <1>3, <2>0, Stacked, OneCode DEF TypeInv, PageTypes
  <2>2. promise' \in [Request -> Settling]
    BY <1>3 DEF TypeInv, PageTypes
  <2> QED BY <1>2, <1>3, <2>1, <2>2 DEF TypeInv, PageTypes
<1>5. Bounded'
  <2>1. <<>> \in Seq(1 .. MaxLines)
    BY EmptySeq
  <2>2. data' \in [Request -> Seq(1 .. MaxLines)]
    BY <1>2, <2>1 DEF TypeInv, Bounded
  <2> QED BY <1>2, <2>2 DEF TypeInv, Bounded
<1> QED BY <1>2, <1>4, <1>5 DEF TypeInv, ServerTypes

\* A message comes: what it shows of a line is a number that the log has.
LEMMA MessageTypes ==
  ASSUME TypeInv, NEW s \in Socket, Message(s)
  PROVE  PageTypes' /\ ServerTypes' /\ Bounded'
<1>1. PICK m : m = Head(inbox[s])
  OBVIOUS
<1>2. /\ inbox[s] # <<>> /\ inbox' = [inbox EXCEPT ![s] = Tail(@)]
      /\ UNCHANGED <<isModalOpen, successCallback, clients, readPump, killed, lines>>
      /\ data' = IF m.ok /\ successCallback /\ m.result > 0
                 THEN [data EXCEPT ![m.to] = Append(@, m.result)]
                 ELSE data
  BY <1>1 DEF Message, onmessage, serverVars, hubVars, tailVars
<1>3. PICK r : r = Resolved(m.code)
  OBVIOUS
<1>4. /\ promise' = promise \/ promise' = [promise EXCEPT ![r] = "resolved"]
      /\ resolveMap' = [resolveMap EXCEPT ![m.code] = Unresolved(m.code)]
      /\ loading' = loading \/ loading' \in BOOLEAN
  BY <1>1, <1>3 DEF Message, onmessage
<1>5. /\ inbox[s] \in Seq(Sayable) /\ m \in Sayable /\ Tail(inbox[s]) \in Seq(Sayable)
  <2>1. inbox[s] \in Seq(Sayable)
    BY DEF TypeInv, Bounded
  <2>2. Len(inbox[s]) \in Nat \ {0}
    BY <1>2, <2>1, EmptySeq
  <2> QED BY <1>1, <2>1, <2>2, HeadTailProperties
<1>6. m.code \in Code /\ m.result \in Nat /\ m.result <= MaxLines /\ m.to \in Request
  BY <1>5 DEF Sayable, Reply
<1>7. PageTypes'
  <2>1. resolveMap[m.code] \in Seq(Request)
    BY <1>6 DEF TypeInv, PageTypes
  <2>2. Unresolved(m.code) \in Seq(Request)
    <3>1. <<>> \in Seq(Request)
      BY EmptySeq
    <3> QED BY <2>1, <3>1, Stacked DEF Unresolved
  <2>3. resolveMap' \in [Code -> Seq(Request)]
    BY <1>4, <2>2 DEF TypeInv, PageTypes
  <2>4. promise' \in [Request -> Settling]
    BY <1>4 DEF TypeInv, PageTypes, Settling
  <2>5. loading' \in BOOLEAN
    BY <1>4 DEF TypeInv, PageTypes
  <2> QED BY <1>2, <2>3, <2>4, <2>5 DEF TypeInv, PageTypes
<1>8. Bounded'
  <2>1. inbox' \in [Socket -> Seq(Sayable)]
    BY <1>2, <1>5 DEF TypeInv, Bounded
  <2>2. ASSUME m.result > 0 PROVE Append(data[m.to], m.result) \in Seq(1 .. MaxLines)
    <3>1. data[m.to] \in Seq(1 .. MaxLines)
      BY <1>6 DEF TypeInv, Bounded
    <3>2. m.result \in 1 .. MaxLines
      BY <1>6, <2>2, LogAssumption
    <3> QED BY <3>1, <3>2, AppendProperties
  <2>3. data' \in [Request -> Seq(1 .. MaxLines)]
    BY <1>2, <2>2 DEF TypeInv, Bounded
  <2> QED BY <1>2, <2>1, <2>3 DEF TypeInv, Bounded
<1> QED BY <1>2, <1>7, <1>8 DEF TypeInv, ServerTypes

\* The hub and the goroutines of a connection.
LEMMA PumpTypes ==
  ASSUME TypeInv, NEW s \in Socket,
         Handle(s) \/ ReadFails(s) \/ Ping(s) \/ \E r \in Request : ReadMessage(s, r)
  PROVE  PageTypes' /\ ServerTypes' /\ Bounded'
<1>1. /\ UNCHANGED <<resolveMap, isModalOpen, loading, successCallback, promise, killed, lines,
                     inbox, data>>
      /\ clients' = clients \/ clients' = clients \cup {s} \/ clients' = clients \ {s}
      /\ readPump' = readPump \/ \E p \in PumpState : readPump' = [readPump EXCEPT ![s] = p]
  BY DEF Handle, ReadFails, Ping, ReadMessage, wsVars, modalVars, hubVars, tailVars, PumpState
<1>2. PageTypes' /\ Bounded'
  BY <1>1 DEF TypeInv, PageTypes, Bounded
<1>3. ServerTypes'
  BY <1>1 DEF TypeInv, ServerTypes
<1> QED BY <1>2, <1>3

\* A handler that writes: an answer is no line, and the line in hand is the next one.
LEMMA WriteTypes ==
  ASSUME TypeInv, NEW r \in Request, SendLine(r) \/ SendAnswer(r)
  PROVE  PageTypes' /\ ServerTypes' /\ Bounded'
<1>1. PICK m : /\ m.code = LogCode /\ m.to = r /\ Write(via[r], m)
               /\ \/ /\ SendLine(r)
                     /\ m = [code |-> LogCode, to |-> r, ok |-> TRUE, result |-> InHand(r)]
                  \/ /\ SendAnswer(r)
                     /\ m = [code |-> LogCode, to |-> r, ok |-> Head(say[r]), result |-> 0]
  BY DEF SendLine, SendAnswer
<1>2. /\ Types /\ Called(r) /\ Early(r) /\ say[r] \in Seq(BOOLEAN) /\ MaxLines \in Nat
      /\ lines[r] \in 0 .. MaxLines
  BY OfHandler, LogAssumption DEF TypeInv, Bounded
<1>3. PICK s \in Socket : s = via[r]
  BY <1>2 DEF Types
<1>4. m \in Sayable
  <2>1. ASSUME SendLine(r), m = [code |-> LogCode, to |-> r, ok |-> TRUE, result |-> InHand(r)]
        PROVE  m \in Sayable
    <3>1. handler[r] = "holding"
      BY <2>1 DEF SendLine
    <3>2. InHand(r) = Upcoming(r) /\ Upcoming(r) > 0
      BY <1>2, <3>1 DEF InHand, Upcoming, Called, Reading
    <3>3. InHand(r) \in Nat /\ InHand(r) <= MaxLines
      BY <1>2, <3>2 DEF InHand
    <3> QED BY <2>1, <3>3, OneCode DEF Sayable, Reply
  <2>2. ASSUME SendAnswer(r),
               m = [code |-> LogCode, to |-> r, ok |-> Head(say[r]), result |-> 0]
        PROVE  m \in Sayable
    <3>1. say[r] # <<>>
      BY <1>2, <2>2 DEF SendAnswer, Early
    <3>2. Len(say[r]) \in Nat \ {0}
      BY <1>2, <3>1, EmptySeq
    <3>3. Head(say[r]) \in BOOLEAN
      BY <1>2, <3>2, HeadTailProperties
    <3> QED BY <1>2, <2>2, <3>3, OneCode DEF Sayable, Reply
  <2> QED BY <1>1, <2>1, <2>2
<1>5. /\ UNCHANGED <<resolveMap, isModalOpen, loading, successCallback, promise, data,
                     clients, readPump, killed, lines>>
      /\ inbox' = inbox \/ inbox' = [inbox EXCEPT ![s] = Append(@, m)]
  BY <1>1, <1>3 DEF SendLine, SendAnswer, Write, modalVars, tailVars
<1>6. inbox' \in [Socket -> Seq(Sayable)]
  <2>1. inbox[s] \in Seq(Sayable)
    BY DEF TypeInv, Bounded
  <2>2. Append(inbox[s], m) \in Seq(Sayable)
    BY <1>4, <2>1, AppendProperties
  <2> QED BY <1>5, <2>2 DEF TypeInv, Bounded
<1> QED BY <1>5, <1>6 DEF TypeInv, PageTypes, ServerTypes, Bounded

\* A handler or a reader that writes nothing, or the end of the process.
LEMMA QuietTypes ==
  ASSUME TypeInv,
         \/ \E r \in Request : \/ Refuses(r) \/ StartRead(r) \/ TakeLine(r) \/ ReadEnds(r)
                               \/ StopRead(r) \/ StopWaits(r) \/ TailOffers(r) \/ TailDies(r)
         \/ MapRace
         \/ UNCHANGED vars
  PROVE  PageTypes' /\ ServerTypes' /\ Bounded'
<1>1. UNCHANGED <<resolveMap, isModalOpen, loading, successCallback, promise, inbox, data>>
  BY DEF Refuses, StartRead, TakeLine, ReadEnds, StopRead, StopWaits, TailOffers, TailDies,
         MapRace, vars, wsVars, modalVars
<1>2. /\ clients' \in {clients, {}}
      /\ \/ readPump' = readPump
         \/ readPump' = [s \in Socket |-> IF readPump[s] = "none" THEN "none" ELSE "ended"]
      /\ \/ killed' = killed
         \/ hpcloudMap # NoRequest /\ killed' = [killed EXCEPT ![hpcloudMap] = TRUE]
      /\ \/ lines' = lines
         \/ \E r \in Request : lines[r] < MaxLines /\ lines' = [lines EXCEPT ![r] = @ + 1]
  BY DEF Refuses, StartRead, TakeLine, ReadEnds, StopRead, StopWaits, TailOffers, TailDies,
         MapRace, vars, serverVars, hubVars, tailVars
<1>3. ServerTypes'
  BY <1>2 DEF TypeInv, ServerTypes, PumpState
<1>4. lines' \in [Request -> 0 .. MaxLines]
  <2>1. lines \in [Request -> 0 .. MaxLines] /\ MaxLines \in Nat
    BY LogAssumption DEF TypeInv, Bounded
  <2>2. ASSUME NEW r \in Request, lines[r] < MaxLines PROVE lines[r] + 1 \in 0 .. MaxLines
    <3>1. lines[r] \in 0 .. MaxLines
      BY <2>1
    <3> QED BY <2>1, <2>2, <3>1
  <2> QED BY <1>2, <2>1, <2>2
<1> QED BY <1>1, <1>3, <1>4 DEF TypeInv, PageTypes, Bounded

\* The sockets: what was on its way is lost or stays.
LEMMA SocketEventTypes ==
  ASSUME TypeInv, SocketEvent
  PROVE  PageTypes' /\ ServerTypes' /\ Bounded'
<1>1. /\ UNCHANGED <<isModalOpen, loading, successCallback, promise, data, clients, readPump,
                     killed, lines>>
      /\ resolveMap' = resolveMap
      /\ inbox' = inbox \/ \E s \in Socket : inbox' = [inbox EXCEPT ![s] = <<>>]
  BY DEF SocketEvent, onopen, onerror, onclose, Break, reconnect, NewSocket, modalVars,
         serverVars, hubVars, tailVars
<1>2. <<>> \in Seq(Sayable)
  BY EmptySeq
<1>3. inbox' \in [Socket -> Seq(Sayable)]
  BY <1>1, <1>2 DEF TypeInv, Bounded
<1> QED BY <1>1, <1>3 DEF TypeInv, PageTypes, ServerTypes, Bounded

LEMMA TypesStep == TypeInv /\ [Next]_vars => TypeInv'
<1> SUFFICES ASSUME TypeInv, [Next]_vars PROVE TypeInv'
  OBVIOUS
<1>1. Inv' /\ SocketInv'
  BY Step, SocketStep DEF TypeInv
<1>2. ASSUME NEW r \in Request, Handler(r) \/ TailOffers(r) \/ TailDies(r)
      PROVE  PageTypes' /\ ServerTypes' /\ Bounded'
  BY <1>2, WriteTypes, QuietTypes DEF Handler
<1>3. PageTypes' /\ ServerTypes' /\ Bounded'
  BY <1>2, ModalTypes, MessageTypes, PumpTypes, QuietTypes, SocketEventTypes DEF Next
<1> QED BY <1>1, <1>3 DEF TypeInv

\* Every variable keeps to its type; of the numbers of lines, on their way or shown, none is
\* one that the log does not have (LogModal.tsx, server.go, deviceservicelog.go).
THEOREM TypeCorrect == Spec => []TypeOK
<1>1. TypeInv => TypeOK
  <2> SUFFICES ASSUME TypeInv PROVE TypeOK
    OBVIOUS
  <2>1. WsTypeOK
    BY DEF TypeInv, Inv, Types, SocketInv, SocketTypes, PageTypes, WsTypeOK
  <2> QED BY <2>1 DEF TypeInv, Inv, Types, PageTypes, ServerTypes, Bounded, TypeOK, Settling
<1> QED BY <1>1, TypesFirst, TypesStep, PTL DEF Spec
=============================================================================
