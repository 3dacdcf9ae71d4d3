-------------------------- MODULE BiliPacketProofs --------------------------
(***************************************************************************)
(* Theorems about what a worker makes of the messages of its rooms, for    *)
(* all messages, and any number of threads and rooms.  What a message      *)
(* amounts to is computed by recursive functions; what they compute is     *)
(* proved first, by induction in the form of the least number.             *)
(***************************************************************************)
EXTENDS BiliPacket, FiniteSetTheorems, SequenceTheorems, WellFoundedInduction, TLAPS

----------------------------------------------------------------------------
(* The invariant, in terms of what is left of each row.                    *)

\* What is left of a row from a packet on.
Rest(row, i) == SubSeq(row, i, Len(row))

\* Of the buffer b of its connection, its zlib_buffer z and where its calls
\* stand, ps: the row its innermost call is in, and what is still to be handled.
Ahead(b, z, ps) == IF Len(ps) = 1 THEN b ELSE z

Left(b, z, ps) ==
  IF Len(ps) = 1 THEN Flat(Rest(b, ps[1])) ELSE Before(Rest(z, ps[2]), "cut") \o Flat(Rest(b, ps[1]))

\* The calls stand within their rows, or at their ends.
Stands(b, z, ps) ==
  /\ ps \in Seq(Nat) /\ Len(ps) \in {1, 2}
  /\ ps[1] \in 1 .. Len(b) + 1 /\ (Len(ps) = 2 => ps[2] \in 1 .. Len(z) + 1)

\* The message m is that of the packet of connection c the thread stands at.
Tells(c, b, z, ps, m) ==
  /\ ps[Len(ps)] \in 1 .. Len(Ahead(b, z, ps))
  /\ LET p == Ahead(b, z, ps)[ps[Len(ps)]] IN p.kind \in {"chat", "online"} /\ Said(c, p) = <<m>>

Reports == [room : Conns \cup {None}, key : (Conns \X {"chat", "online"}) \cup {None}, body : SUBSET Nat, crc : Nat]

Typed ==
  /\ reading \in [Conns -> {"pending", "busy", "over"}] /\ failed \subseteq Conns
  /\ buffer \in [Conns -> Seq(AnyPacket)] /\ zlib \in [Threads -> Seq(Plain)]
  /\ pos \in [Threads -> Seq(Nat)] /\ serving \in [Threads -> Conns \cup {None}] /\ lent \subseteq Threads
  /\ context \in [Threads -> Reports]
  /\ heard \in [Conns -> Seq(Reports)] /\ due \in [Conns -> Seq(Reports)]

\* A thread that serves a connection keeps its handler busy; what was heard
\* and what is still to be said add up to what is due.
Serves(t) ==
  /\ reading[serving[t]] = "busy" /\ Stands(buffer[serving[t]], zlib[t], pos[t])
  /\ heard[serving[t]] \o Saying(serving[t], Left(buffer[serving[t]], zlib[t], pos[t])) = due[serving[t]]
  /\ t \in lent => Tells(serving[t], buffer[serving[t]], zlib[t], pos[t], context[t])

Rests(t) == pos[t] = <<>> /\ t \notin lent

\* A connection is served by one thread, as long as its handler is busy, and
\* owes nothing when it is not.
Alone == \A t, u \in Threads : serving[t] = serving[u] /\ serving[t] # None => t = u

Owed(c) == IF reading[c] = "busy" THEN \E t \in Threads : serving[t] = c ELSE heard[c] = due[c]

Inv ==
  /\ Typed /\ Alone
  /\ \A t \in Threads : IF serving[t] = None THEN Rests(t) ELSE Serves(t)
  /\ \A c \in Conns : Owed(c)

----------------------------------------------------------------------------
(* Rows.                                                                   *)

\* A set of numbers has a least one.
LEMMA Least ==
  ASSUME NEW T \in SUBSET Nat, T # {}
  PROVE  \E n \in T : \A m \in T : n <= m
<1> DEFINE R == {ss \in Nat \X Nat : ss[1] < ss[2]}
<1>1. IsWellFoundedOn(R, Nat)
  BY NatLessThanWellFounded DEF OpToRel
<1> HIDE DEF R
<1>2. PICK n \in T : \A m \in T : ~(<<m, n>> \in R)
  BY <1>1, WFMin
<1>3. \A m \in T : ~(m < n)
  BY <1>2 DEF R
<1>. QED BY <1>3

\* Induction, of a set of numbers.
LEMMA Induct ==
  ASSUME NEW S, 0 \in S, \A n \in Nat : n \in S => n + 1 \in S
  PROVE  \A n \in Nat : n \in S
<1> DEFINE T == Nat \ S
<1> SUFFICES ASSUME T # {} PROVE FALSE
  OBVIOUS
<1>1. PICK n \in T : \A m \in T : n <= m
  BY Least
<1>2. n - 1 \in Nat /\ n - 1 \notin T
  BY <1>1
<1>. QED BY <1>1, <1>2

\* The partial concatenations of a row of rows, which FlattenSeq is the last of.
Joins(s, n, g) == g = [i \in 1 .. n |-> IF i = 1 THEN s[i] ELSE g[i - 1] \o s[i]]

\* There are such concatenations, of any length.
LEMMA JoinsExist == ASSUME NEW s, NEW n \in Nat PROVE \E g : Joins(s, n, g)
<1> DEFINE S == {k \in Nat : \E g : Joins(s, k, g)}
<1>1. 0 \in S
  <2>1. Joins(s, 0, [i \in 1 .. 0 |-> <<>>])
    BY DEF Joins
  <2>. QED BY <2>1
<1>2. ASSUME NEW k \in Nat, k \in S PROVE k + 1 \in S
  <2>1. PICK g : Joins(s, k, g)
    BY <1>2
  <2> DEFINE h == [i \in 1 .. k + 1 |-> IF i = k + 1 THEN IF i = 1 THEN s[i] ELSE g[i - 1] \o s[i] ELSE g[i]]
  <2>2. ASSUME NEW i \in 1 .. k + 1 PROVE h[i] = IF i = 1 THEN s[i] ELSE h[i - 1] \o s[i]
    <3>1. \A j \in 1 .. k : g[j] = IF j = 1 THEN s[j] ELSE g[j - 1] \o s[j]
      BY <2>1 DEF Joins
    <3>. QED BY <2>2, <3>1
  <2>3. Joins(s, k + 1, h)
    BY <2>2 DEF Joins
  <2>. QED BY <2>3
<1> HIDE DEF S
<1>3. \A k \in Nat : k \in S
  BY <1>1, <1>2, Induct
<1>. QED BY <1>3 DEF S

\* FlattenSeq is the last of the concatenations.
LEMMA FlattenIs ==
  ASSUME NEW s, Len(s) \in Nat, Len(s) # 0
  PROVE  \E g : Joins(s, Len(s), g) /\ FlattenSeq(s) = g[Len(s)]
<1> DEFINE g == CHOOSE h : Joins(s, Len(s), h)
<1>1. Joins(s, Len(s), g)
  BY JoinsExist
<1>2. FlattenSeq(s) = g[Len(s)]
  BY DEF FlattenSeq, Joins
<1>. QED BY <1>1, <1>2

\* What each of the concatenations is, from the one before it.
LEMMA JoinsStep ==
  ASSUME NEW s, NEW n \in Nat, NEW g, Joins(s, n, g)
  PROVE  /\ n # 0 => g[1] = s[1]
         /\ \A i \in 1 .. n - 1 : g[i + 1] = g[i] \o s[i + 1]
<1>1. \A i \in 1 .. n : g[i] = IF i = 1 THEN s[i] ELSE g[i - 1] \o s[i]
  BY DEF Joins
<1>2. ASSUME NEW i \in 1 .. n - 1 PROVE g[i + 1] = g[i] \o s[i + 1]
  <2>1. i + 1 \in 1 .. n
    OBVIOUS
  <2>2. i + 1 # 1 /\ (i + 1) - 1 = i
    OBVIOUS
  <2>3. g[i + 1] = IF i + 1 = 1 THEN s[i + 1] ELSE g[(i + 1) - 1] \o s[i + 1]
    BY <1>1, <2>1, Zenon
  <2>. QED BY <2>2, <2>3, Zenon
<1>3. n # 0 => 1 \in 1 .. n
  OBVIOUS
<1>. QED BY <1>1, <1>2, <1>3

\* A row of n + 1 rows and the row of those behind the first, with their
\* concatenations.
Shifted(E, n, s, r, g, h) ==
  /\ \A i \in 1 .. n + 1 : s[i] \in Seq(E)
  /\ \A i \in 1 .. n : r[i] = s[i + 1]
  /\ Joins(s, n + 1, g) /\ Joins(r, n, h)

\* Each concatenation of the whole begins with the first row.
Shifts(E, n, s, g, h) == \A k \in 1 .. n : h[k] \in Seq(E) /\ g[k + 1] = s[1] \o h[k]

\* Concatenation from the other end: the first row, and what comes after it.
LEMMA JoinsShift ==
  ASSUME NEW E, NEW n \in Nat, NEW s, NEW r, NEW g, NEW h, Shifted(E, n, s, r, g, h)
  PROVE  Shifts(E, n, s, g, h)
<1> USE DEF Shifted, Shifts
<1>1. g[1] = s[1] /\ \A i \in 1 .. n : g[i + 1] = g[i] \o s[i + 1]
  <2>1. n + 1 \in Nat /\ n + 1 # 0 /\ (n + 1) - 1 = n
    OBVIOUS
  <2>2. (n + 1 # 0 => g[1] = s[1]) /\ \A i \in 1 .. (n + 1) - 1 : g[i + 1] = g[i] \o s[i + 1]
    BY <2>1, JoinsStep, Zenon
  <2>. QED BY <2>1, <2>2, Zenon
<1>2. (n # 0 => h[1] = r[1]) /\ \A i \in 1 .. n - 1 : h[i + 1] = h[i] \o r[i + 1]
  BY JoinsStep, Zenon
<1>3. 1 \in 1 .. n + 1 /\ s[1] \in Seq(E)
  OBVIOUS
<1> DEFINE P(k) == h[k] \in Seq(E) /\ g[k + 1] = s[1] \o h[k]
           S == {k \in Nat : k \in 1 .. n => P(k)}
<1>4. 0 \in S
  OBVIOUS
<1>5. ASSUME n # 0 PROVE P(1)
  <2>1. 1 \in 1 .. n /\ 1 + 1 \in 1 .. n + 1
    BY <1>5
  <2>2. r[1] = s[1 + 1] /\ s[1 + 1] \in Seq(E) /\ g[1 + 1] = g[1] \o s[1 + 1]
    BY <1>1, <2>1, Zenon
  <2>. QED BY <1>1, <1>2, <1>5, <2>2, Zenon
<1>6. ASSUME NEW k \in 1 .. n, k + 1 \in 1 .. n, P(k) PROVE P(k + 1)
  <2>1. k \in 1 .. n - 1 /\ (k + 1) + 1 \in 1 .. n + 1
    BY <1>6
  <2>2. r[k + 1] = s[(k + 1) + 1] /\ s[(k + 1) + 1] \in Seq(E)
    BY <1>6, <2>1, Zenon
  <2>3. g[(k + 1) + 1] = g[k + 1] \o s[(k + 1) + 1] /\ h[k + 1] = h[k] \o r[k + 1]
    BY <1>1, <1>2, <1>6, <2>1, Zenon
  <2>4. (s[1] \o h[k]) \o r[k + 1] = s[1] \o (h[k] \o r[k + 1]) /\ h[k] \o r[k + 1] \in Seq(E)
    <3>1. s[1] \in Seq(E) /\ h[k] \in Seq(E) /\ r[k + 1] \in Seq(E)
      BY <1>3, <1>6, <2>2, Zenon
    <3>2. \A a, b, c \in Seq(E) : (a \o b) \o c = a \o (b \o c) /\ b \o c \in Seq(E)
      OBVIOUS
    <3>. QED BY <3>1, <3>2, Zenon
  <2>. QED BY <1>6, <2>2, <2>3, <2>4, Zenon
<1> HIDE DEF P
<1>7. ASSUME NEW k \in Nat, k \in S PROVE k + 1 \in S
  <2>1. CASE k = 0
    BY <1>5, <2>1
  <2>2. CASE k # 0
    <3>1. k + 1 \in 1 .. n => k \in 1 .. n
      BY <2>2
    <3>. QED BY <1>6, <1>7, <3>1
  <2>. QED BY <2>1, <2>2
<1> HIDE DEF S
<1>8. \A k \in Nat : k \in S
  BY <1>4, <1>7, Induct
<1>9. \A k \in 1 .. n : P(k)
  BY <1>8 DEF S
<1>. QED BY <1>9 DEF P

\* FlattenSeq takes a row of rows apart at its first.
LEMMA Flattened ==
  ASSUME NEW E, NEW s \in Seq(Seq(E)), s # <<>>
  PROVE  FlattenSeq(s) = Head(s) \o FlattenSeq(Tail(s)) /\ FlattenSeq(s) \in Seq(E) /\ FlattenSeq(Tail(s)) \in Seq(E)
<1>1. PICK n \in Nat, r \in Seq(Seq(E)) :
        /\ Len(s) = n + 1 /\ r = Tail(s) /\ Len(r) = n /\ Head(s) = s[1]
        /\ (\A i \in 1 .. n : r[i] = s[i + 1]) /\ (\A i \in 1 .. n + 1 : s[i] \in Seq(E))
  <2>1. /\ Len(s) - 1 \in Nat /\ Len(s) = (Len(s) - 1) + 1 /\ Len(Tail(s)) = Len(s) - 1
        /\ Tail(s) \in Seq(Seq(E)) /\ Head(s) = s[1]
        /\ (\A i \in 1 .. Len(s) - 1 : Tail(s)[i] = s[i + 1]) /\ (\A i \in 1 .. (Len(s) - 1) + 1 : s[i] \in Seq(E))
    OBVIOUS
  <2>. QED BY <2>1, Zenon
<1>2. PICK g : Joins(s, n + 1, g) /\ FlattenSeq(s) = g[n + 1]
  <2>1. Len(s) \in Nat /\ Len(s) # 0
    BY <1>1
  <2>. QED BY <1>1, <2>1, FlattenIs, Zenon
<1>3. CASE n = 0
  <2>1. FlattenSeq(r) = r
    BY <1>1, <1>3 DEF FlattenSeq
  <2>2. r = <<>>
    BY <1>1, <1>3
  <2>3. g[1] = s[1] /\ s[1] \in Seq(E)
    BY <1>1, <1>2, <1>3 DEF Joins
  <2>4. s[1] \o <<>> = s[1] /\ <<>> \in Seq(E)
    BY <2>3
  <2>. QED BY <1>1, <1>2, <1>3, <2>1, <2>2, <2>3, <2>4
<1>4. CASE n # 0
  <2>1. PICK h : Joins(r, n, h) /\ FlattenSeq(r) = h[n]
    BY <1>1, <1>4, FlattenIs
  <2>2. h[n] \in Seq(E) /\ g[n + 1] = s[1] \o h[n]
    <3>1. n \in 1 .. n
      BY <1>1, <1>4
    <3>2. \A k \in 1 .. n : h[k] \in Seq(E) /\ g[k + 1] = s[1] \o h[k]
      <4>1. n \in Nat /\ Shifted(E, n, s, r, g, h)
        BY <1>1, <1>2, <2>1 DEF Shifted
      <4>2. Shifts(E, n, s, g, h)
        BY <4>1, JoinsShift
      <4>. QED BY <4>2 DEF Shifts
    <3>. QED BY <3>1, <3>2
  <2>3. s[1] \in Seq(E)
    BY <1>1
  <2>4. s[1] \o h[n] \in Seq(E)
    BY <2>2, <2>3
  <2>. QED BY <1>1, <1>2, <2>1, <2>2, <2>4
<1>. QED BY <1>3, <1>4

\* The same of functions, and nothing of nothing.
LEMMA FlattenMap ==
  ASSUME NEW E, NEW n \in Nat, NEW F \in [1 .. n + 1 -> Seq(E)], NEW G \in [1 .. n -> Seq(E)],
         \A i \in 1 .. n : G[i] = F[i + 1]
  PROVE  FlattenSeq(F) = F[1] \o FlattenSeq(G) /\ FlattenSeq(F) \in Seq(E) /\ FlattenSeq(G) \in Seq(E)
<1>1. F \in Seq(Seq(E)) /\ F # <<>> /\ Len(F) = n + 1 /\ Head(F) = F[1]
  OBVIOUS
<1>2. G = Tail(F)
  <2>1. Tail(F) \in Seq(Seq(E)) /\ Len(Tail(F)) = n
    BY <1>1
  <2>2. G \in Seq(Seq(E)) /\ Len(G) = n
    OBVIOUS
  <2>3. ASSUME NEW i \in 1 .. n PROVE G[i] = Tail(F)[i]
    BY <1>1
  <2>. QED BY <2>1, <2>2, <2>3
<1>. QED BY <1>1, <1>2, Flattened, Zenon

\* Nothing, flattened, is nothing.
LEMMA FlattenNone == ASSUME NEW f, f = <<>> PROVE FlattenSeq(f) = <<>>
BY DEF FlattenSeq

\* The part of a row before a packet of some kind ends there.
Ends(row, kind, n) ==
  /\ n \in 0 .. Len(row)
  /\ \A i \in 1 .. n : row[i].kind # kind
  /\ n = Len(row) \/ row[n + 1].kind = kind

\* Every row has such an end: the first packet of the kind, if there is one.
LEMMA EndsExists ==
  ASSUME NEW E, NEW row \in Seq(E), NEW kind
  PROVE  \E n \in Nat : Ends(row, kind, n)
<1> DEFINE T == {i \in Nat : i \in 1 .. Len(row) /\ row[i].kind = kind}
<1>1. CASE T = {}
  BY <1>1 DEF Ends
<1>2. CASE T # {}
  <2>1. T \in SUBSET Nat
    OBVIOUS
  <2>2. PICK m \in T : \A i \in T : m <= i
    BY <1>2, <2>1, Least, Zenon
  <2>3. m - 1 \in Nat /\ (m - 1) + 1 = m /\ m \in 1 .. Len(row) /\ row[m].kind = kind
    BY <2>2
  <2>4. ASSUME NEW i \in 1 .. m - 1 PROVE row[i].kind # kind
    <3>1. i \notin T /\ i \in Nat /\ i \in 1 .. Len(row)
      BY <2>2, <2>3
    <3>. QED BY <3>1
  <2>5. row[(m - 1) + 1].kind = kind
    BY <2>3, Zenon
  <2>6. Ends(row, kind, m - 1)
    BY <2>3, <2>4, <2>5 DEF Ends
  <2>. QED BY <2>3, <2>6
<1>. QED BY <1>1, <1>2

\* b holds the first n packets of a row.
First(E, row, n, b) ==
  b \in Seq(E) /\ DOMAIN b = 1 .. n /\ Len(b) = n /\ \A i \in 1 .. n : b[i] = row[i]

\* A number that is below a bound and not at it has room for one more.
LEMMA Below == ASSUME NEW n \in Nat, NEW m \in Nat, n \in 0 .. m, n # m PROVE n + 1 \in 1 .. m
OBVIOUS

\* Before is the part of the row up to there.
LEMMA BeforeIs ==
  ASSUME NEW E, NEW row \in Seq(E), NEW kind, NEW n \in Nat, Ends(row, kind, n)
  PROVE  First(E, row, n, Before(row, kind))
<1> DEFINE stops == {i \in DOMAIN row : row[i].kind = kind}
<1>1. n \in 0 .. Len(row) /\ DOMAIN row = 1 .. Len(row) /\ Len(row) \in Nat
  BY DEF Ends
<1>2. Before(row, kind) = SubSeq(row, 1, n)
  <2>1. CASE n = Len(row)
    <3>1. stops = {}
      BY <1>1, <2>1 DEF Ends
    <3>2. row = SubSeq(row, 1, n)
      BY <2>1
    <3>. QED BY <3>1, <3>2 DEF Before
  <2>2. CASE n # Len(row)
    <3>1. n + 1 \in stops /\ \A j \in stops : n + 1 <= j
      <4>1. n + 1 \in DOMAIN row /\ row[n + 1].kind = kind
        <5>1. n + 1 \in 1 .. Len(row)
          BY <1>1, <2>2, Below, Zenon
        <5>2. row[n + 1].kind = kind
          BY <2>2, Zenon DEF Ends
        <5>. QED BY <1>1, <5>1, <5>2, Zenon
      <4>2. ASSUME NEW j \in stops PROVE n + 1 <= j
        <5>1. j \in 1 .. Len(row) /\ j \notin 1 .. n
          BY <1>1 DEF Ends
        <5>. QED BY <1>1, <5>1
      <4>. QED BY <4>1, <4>2
    <3>2. (CHOOSE i \in stops : \A j \in stops : i <= j) = n + 1
      <4>1. \A i \in stops : (\A j \in stops : i <= j) => i = n + 1
        BY <1>1, <3>1
      <4> HIDE DEF stops
      <4>. QED BY <3>1, <4>1
    <3>3. (n + 1) - 1 = n /\ stops # {}
      BY <3>1
    <3>. QED BY <3>2, <3>3, Zenon DEF Before
  <2>. QED BY <2>1, <2>2
<1>. QED BY <1>1, <1>2 DEF First

\* Where a row ends, and where what comes behind its first packet does.
LEMMA EndsCons ==
  ASSUME NEW E, NEW row \in Seq(E), row # <<>>, NEW kind, NEW n \in Nat, Ends(Tail(row), kind, n)
  PROVE  IF Head(row).kind = kind THEN Ends(row, kind, 0) ELSE Ends(row, kind, n + 1)
<1>1. /\ Tail(row) \in Seq(E) /\ Len(Tail(row)) = Len(row) - 1 /\ Head(row) = row[1] /\ Len(row) \in Nat \ {0}
      /\ \A i \in 1 .. Len(row) - 1 : Tail(row)[i] = row[i + 1]
  OBVIOUS
<1>2. CASE Head(row).kind = kind
  <2>1. row[0 + 1].kind = kind
    BY <1>1, <1>2
  <2>2. 0 \in 0 .. Len(row) /\ 1 .. 0 = {}
    BY <1>1
  <2>3. Ends(row, kind, 0)
    BY <2>1, <2>2, Zenon DEF Ends
  <2>. QED BY <1>2, <2>3
<1>3. CASE Head(row).kind # kind
  <2>1. n \in 0 .. Len(row) - 1
    BY <1>1 DEF Ends
  <2>2. ASSUME NEW i \in 1 .. n + 1 PROVE row[i].kind # kind
    <3>1. CASE i = 1
      BY <1>1, <1>3, <3>1
    <3>2. CASE i # 1
      <4>1. i - 1 \in 1 .. n /\ i - 1 \in 1 .. Len(row) - 1 /\ (i - 1) + 1 = i
        BY <1>1, <2>1, <3>2
      <4>2. Tail(row)[i - 1].kind # kind
        BY <4>1, Zenon DEF Ends
      <4>3. Tail(row)[i - 1] = row[(i - 1) + 1]
        BY <1>1, <4>1, Zenon
      <4>. QED BY <4>1, <4>2, <4>3, Zenon
    <3>. QED BY <3>1, <3>2
  <2>3. n + 1 = Len(row) \/ row[(n + 1) + 1].kind = kind
    <3>1. CASE n = Len(row) - 1
      BY <1>1, <3>1
    <3>2. CASE n # Len(row) - 1
      <4>1. n + 1 \in 1 .. Len(row) - 1
        <5>1. Len(row) - 1 \in Nat
          BY <1>1
        <5>. QED BY <5>1, <2>1, <3>2, Below, Zenon
      <4>2. Tail(row)[n + 1].kind = kind
        BY <1>1, <3>2, Zenon DEF Ends
      <4>3. Tail(row)[n + 1] = row[(n + 1) + 1]
        BY <1>1, <4>1, Zenon
      <4>. QED BY <4>2, <4>3, Zenon
    <3>. QED BY <3>1, <3>2
  <2>4. n + 1 \in 0 .. Len(row)
    BY <1>1, <2>1
  <2>5. Ends(row, kind, n + 1)
    BY <2>2, <2>3, <2>4, Zenon DEF Ends
  <2>. QED BY <1>3, <2>5
<1>. QED BY <1>2, <1>3

\* Nothing comes before the end of nothing.
LEMMA BeforeNone == ASSUME NEW kind PROVE Before(<<>>, kind) = <<>>
BY DEF Before

\* What comes before a kind of packet, taken apart at its first packet.
LEMMA BeforeCons ==
  ASSUME NEW E, NEW row \in Seq(E), row # <<>>, NEW kind
  PROVE  /\ Before(row, kind) \in Seq(E) /\ Before(Tail(row), kind) \in Seq(E)
         /\ Before(row, kind) = IF Head(row).kind = kind THEN <<>>
                                ELSE <<Head(row)>> \o Before(Tail(row), kind)
<1>1. /\ Tail(row) \in Seq(E) /\ Len(Tail(row)) = Len(row) - 1 /\ Head(row) = row[1] /\ Len(row) \in Nat \ {0}
      /\ \A i \in 1 .. Len(row) - 1 : Tail(row)[i] = row[i + 1]
  OBVIOUS
<1>2. PICK n \in Nat : Ends(Tail(row), kind, n)
  BY <1>1, EndsExists, Zenon
<1>3. /\ Before(Tail(row), kind) \in Seq(E) /\ Len(Before(Tail(row), kind)) = n
      /\ \A i \in 1 .. n : Before(Tail(row), kind)[i] = Tail(row)[i]
  <2>1. First(E, Tail(row), n, Before(Tail(row), kind))
    BY <1>1, <1>2, BeforeIs, Zenon
  <2>. QED BY <2>1, Zenon DEF First
<1>4. IF Head(row).kind = kind THEN Ends(row, kind, 0) ELSE Ends(row, kind, n + 1)
  BY <1>2, EndsCons, Zenon
<1>5. CASE Head(row).kind = kind
  <2>1. Ends(row, kind, 0) /\ 0 \in Nat
    BY <1>4, <1>5
  <2>2. Before(row, kind) \in Seq(E) /\ Len(Before(row, kind)) = 0
    BY <2>1, BeforeIs, Zenon DEF First
  <2>3. Before(row, kind) = <<>>
    BY <2>2
  <2>. QED BY <1>3, <1>5, <2>2, <2>3
<1>6. CASE Head(row).kind # kind
  <2>1. Ends(row, kind, n + 1) /\ n + 1 \in Nat
    BY <1>4, <1>6
  <2>2. /\ Before(row, kind) \in Seq(E) /\ Len(Before(row, kind)) = n + 1
        /\ \A i \in 1 .. n + 1 : Before(row, kind)[i] = row[i]
    BY <2>1, BeforeIs, Zenon DEF First
  <2> DEFINE a == Before(row, kind)
             b == Before(Tail(row), kind)
  <2> HIDE DEF a, b
  <2>3. n <= Len(row) - 1
    <3>1. n \in 0 .. Len(Tail(row))
      BY <1>2, Zenon DEF Ends
    <3>. QED BY <1>1, <3>1
  <2>4. Len(<<row[1]>> \o b) = n + 1 /\ <<row[1]>> \o b \in Seq(E)
    BY <1>1, <1>3 DEF b
  <2>5. ASSUME NEW i \in 1 .. n + 1 PROVE a[i] = (<<row[1]>> \o b)[i]
    <3>1. CASE i = 1
      BY <1>3, <2>2, <3>1 DEF a, b
    <3>2. CASE i # 1
      <4>1. i - 1 \in 1 .. n /\ i - 1 \in 1 .. Len(row) - 1 /\ (i - 1) + 1 = i
        BY <1>1, <2>3, <3>2
      <4>2. b[i - 1] = row[(i - 1) + 1]
        BY <1>1, <1>3, <4>1, Zenon DEF b
      <4>3. a[i] = row[i]
        BY <2>2, Zenon DEF a
      <4>4. (<<row[1]>> \o b)[i] = b[i - 1]
        BY <1>3, <3>2 DEF b
      <4>. QED BY <4>1, <4>2, <4>3, <4>4, Zenon
    <3>. QED BY <3>1, <3>2
  <2>6. a = <<row[1]>> \o b
    <3>1. a \in Seq(E) /\ Len(a) = n + 1
      BY <2>2, Zenon DEF a
    <3>. QED BY <2>4, <2>5, <3>1
  <2>. QED BY <1>1, <1>3, <1>6, <2>2, <2>6 DEF a, b
<1>. QED BY <1>5, <1>6

\* What is left of a row, packet by packet.
LEMMA RestCons ==
  ASSUME NEW E, NEW row \in Seq(E), NEW i \in 1 .. Len(row)
  PROVE  /\ Rest(row, i) \in Seq(E) /\ Rest(row, i) # <<>>
         /\ Head(Rest(row, i)) = row[i] /\ row[i] \in E
         /\ Tail(Rest(row, i)) = Rest(row, i + 1) /\ Rest(row, i + 1) \in Seq(E)
<1>1. i \in Nat /\ Len(row) \in Nat /\ Len(row) \in i .. Len(row)
  OBVIOUS
<1>2. Head(Rest(row, i)) = row[i] /\ Tail(Rest(row, i)) = Rest(row, i + 1)
  BY <1>1, HeadTailOfSubSeq DEF Rest
<1>3. Rest(row, i) \in Seq(E) /\ Len(Rest(row, i)) = Len(row) - i + 1
  BY DEF Rest
<1>4. Rest(row, i + 1) \in Seq(E)
  BY DEF Rest
<1>. QED BY <1>1, <1>2, <1>3, <1>4

\* What is left of a row from i on is packet i and what is left behind it.
Splits(E, row, i) ==
  /\ Rest(row, i) \in Seq(E) /\ Rest(row, i) # <<>>
  /\ Head(Rest(row, i)) = row[i] /\ row[i] \in E
  /\ Tail(Rest(row, i)) = Rest(row, i + 1)

\* The same, as one fact.
LEMMA RestSplits == ASSUME NEW E, NEW row \in Seq(E), NEW i \in 1 .. Len(row) PROVE Splits(E, row, i)
BY RestCons, Zenon DEF Splits

\* Nothing is left behind the last packet, and everything from the first on.
LEMMA RestNone ==
  ASSUME NEW E, NEW row \in Seq(E) PROVE Rest(row, Len(row) + 1) = <<>> /\ Rest(row, 1) = row
BY DEF Rest

\* What is inside a packet is a row of packets, none compressed.
LEMMA InsideType == ASSUME NEW p \in AnyPacket PROVE Inside(p) \in Seq(Plain)
<1>1. CASE p.kind = "zip"
  <2>1. p.inside \in Seq(Plain)
    BY <1>1 DEF AnyPacket, Plain, Kinds
  <2>2. PICK n \in Nat : Ends(p.inside, "cut", n)
    BY <2>1, EndsExists, Zenon
  <2>3. First(Plain, p.inside, n, Before(p.inside, "cut"))
    BY <2>1, <2>2, BeforeIs, Zenon
  <2>. QED BY <1>1, <2>3 DEF First, Inside
<1>2. CASE p.kind # "zip"
  <2>1. p \in Plain
    BY <1>2 DEF AnyPacket
  <2>. QED BY <1>2, <2>1 DEF Inside
<1>. QED BY <1>1, <1>2

\* An empty row comes to nothing.
LEMMA FlatNone == Flat(<<>>) = <<>>
<1>1. [i \in DOMAIN Before(<<>>, "cut") |-> Inside(<<>>[i])] = <<>>
  BY BeforeNone
<1>. QED BY <1>1, FlattenNone DEF Flat

\* A row that begins with a cut packet comes to nothing.
LEMMA FlatCut ==
  ASSUME NEW row \in Seq(AnyPacket), row # <<>>, Head(row).kind = "cut"
  PROVE  Flat(row) = <<>>
<1>1. Before(row, "cut") = <<>>
  BY BeforeCons
<1>2. [i \in DOMAIN Before(row, "cut") |-> Inside(row[i])] = <<>>
  BY <1>1
<1>. QED BY <1>2, FlattenNone DEF Flat

\* Any other comes to what is inside its first packet, and what the rest comes to.
LEMMA FlatCons ==
  ASSUME NEW row \in Seq(AnyPacket), row # <<>>, Head(row).kind # "cut"
  PROVE  Flat(row) = Inside(Head(row)) \o Flat(Tail(row)) /\ Flat(Tail(row)) \in Seq(Plain)
<1>1. /\ Tail(row) \in Seq(AnyPacket) /\ Len(Tail(row)) = Len(row) - 1 /\ Head(row) = row[1]
      /\ Len(row) \in Nat \ {0} /\ (\A i \in 1 .. Len(row) : row[i] \in AnyPacket)
      /\ \A i \in 1 .. Len(row) - 1 : Tail(row)[i] = row[i + 1]
  OBVIOUS
<1>2. PICK n \in Nat : Ends(Tail(row), "cut", n)
  BY <1>1, EndsExists, Zenon
<1>3. Ends(row, "cut", n + 1) /\ n + 1 \in Nat
  <2>1. IF Head(row).kind = "cut" THEN Ends(row, "cut", 0) ELSE Ends(row, "cut", n + 1)
    BY <1>2, EndsCons, Zenon
  <2>. QED BY <2>1
<1>4. DOMAIN Before(row, "cut") = 1 .. n + 1
  <2>1. First(AnyPacket, row, n + 1, Before(row, "cut"))
    BY <1>3, BeforeIs, Zenon
  <2>. QED BY <2>1, Zenon DEF First
<1>5. DOMAIN Before(Tail(row), "cut") = 1 .. n
  <2>1. First(AnyPacket, Tail(row), n, Before(Tail(row), "cut"))
    BY <1>1, <1>2, BeforeIs, Zenon
  <2>. QED BY <2>1, Zenon DEF First
<1>6. n + 1 <= Len(row)
  <2>1. n + 1 \in 0 .. Len(row)
    BY <1>3, Zenon DEF Ends
  <2>. QED BY <1>1, <2>1
<1> DEFINE F == [i \in 1 .. n + 1 |-> Inside(row[i])]
           G == [i \in 1 .. n |-> Inside(Tail(row)[i])]
<1>7. Flat(row) = FlattenSeq(F) /\ Flat(Tail(row)) = FlattenSeq(G)
  BY <1>4, <1>5 DEF Flat
<1>8. \A i \in 1 .. n : G[i] = F[i + 1]
  <2> SUFFICES ASSUME NEW i \in 1 .. n PROVE G[i] = F[i + 1]
    BY Zenon
  <2>1. i + 1 \in 1 .. n + 1 /\ i \in 1 .. Len(row) - 1
    BY <1>1, <1>6
  <2>2. Tail(row)[i] = row[i + 1]
    BY <1>1, <2>1, Zenon
  <2>. QED BY <2>1, <2>2
<1>9. F \in [1 .. n + 1 -> Seq(Plain)]
  <2>1. ASSUME NEW i \in 1 .. n + 1 PROVE Inside(row[i]) \in Seq(Plain)
    <3>1. i \in 1 .. Len(row)
      BY <1>1, <1>6
    <3>2. row[i] \in AnyPacket
      BY <1>1, <3>1, Zenon
    <3>. QED BY <3>2, InsideType, Zenon
  <2>. QED BY <2>1, Zenon
<1>10. G \in [1 .. n -> Seq(Plain)]
  <2>1. ASSUME NEW i \in 1 .. n PROVE G[i] \in Seq(Plain)
    <3>1. i + 1 \in 1 .. n + 1
      OBVIOUS
    <3>2. G[i] = F[i + 1] /\ F[i + 1] \in Seq(Plain)
      <4> HIDE DEF F, G
      <4>. QED BY <1>8, <1>9, <3>1
    <3>. QED BY <3>2
  <2>. QED BY <2>1, Zenon
<1>11. F[1] = Inside(Head(row))
  BY <1>1
<1> HIDE DEF F, G
<1>12. FlattenSeq(F) = F[1] \o FlattenSeq(G) /\ FlattenSeq(G) \in Seq(Plain)
  BY <1>8, <1>9, <1>10, FlattenMap, Zenon
<1>. QED BY <1>7, <1>11, <1>12, Zenon

\* Whatever a row comes to is a row of packets, none compressed.
LEMMA FlatType == ASSUME NEW row \in Seq(AnyPacket) PROVE Flat(row) \in Seq(Plain)
<1>0. <<>> \in Seq(Plain)
  OBVIOUS
<1>1. CASE row = <<>>
  BY <1>0, <1>1, FlatNone, Zenon
<1>2. CASE row # <<>> /\ Head(row).kind = "cut"
  BY <1>0, <1>2, FlatCut, Zenon
<1>3. CASE row # <<>> /\ Head(row).kind # "cut"
  <2>1. Flat(row) = Inside(Head(row)) \o Flat(Tail(row)) /\ Flat(Tail(row)) \in Seq(Plain)
    BY <1>3, FlatCons, Zenon
  <2>2. Head(row) \in AnyPacket
    BY <1>3
  <2>3. Inside(Head(row)) \in Seq(Plain)
    BY <2>2, InsideType, Zenon
  <2>. QED BY <2>1, <2>3
<1>. QED BY <1>1, <1>2, <1>3

\* What a packet says is a row of reports.
LEMMA SaidType == ASSUME NEW c \in Conns, NEW p \in Plain PROVE Said(c, p) \in Seq(Reports)
<1>1. p.kind \in Kinds /\ p.body \in Nat
  BY DEF Plain
<1>2. CASE p.kind \in {"chat", "online"}
  <2>1. [room |-> c, key |-> <<c, p.kind>>, body |-> {p.body},
         crc |-> IF p.kind = "online" THEN 0 ELSE p.body] \in Reports
    BY <1>1, <1>2 DEF Reports
  <2>. QED BY <1>2, <2>1 DEF Said
<1>3. CASE p.kind \notin {"chat", "online"}
  BY <1>3 DEF Said
<1>. QED BY <1>2, <1>3

\* No packets say nothing.
LEMMA SayingNone == ASSUME NEW c PROVE Saying(c, <<>>) = <<>>
<1>1. [i \in DOMAIN Before(<<>>, "bad") |-> Said(c, Before(<<>>, "bad")[i])] = <<>>
  BY BeforeNone
<1>. QED BY <1>1, FlattenNone DEF Saying

\* Packets of which the first is bad say nothing.
LEMMA SayingBad ==
  ASSUME NEW c, NEW row \in Seq(Plain), row # <<>>, Head(row).kind = "bad"
  PROVE  Saying(c, row) = <<>>
<1>1. Before(row, "bad") = <<>>
  BY BeforeCons
<1>2. [i \in DOMAIN Before(row, "bad") |-> Said(c, Before(row, "bad")[i])] = <<>>
  BY <1>1
<1>. QED BY <1>2, FlattenNone DEF Saying

\* Any others say what the first says, and what the others do.
LEMMA SayingCons ==
  ASSUME NEW c \in Conns, NEW row \in Seq(Plain), row # <<>>, Head(row).kind # "bad"
  PROVE  Saying(c, row) = Said(c, Head(row)) \o Saying(c, Tail(row)) /\ Saying(c, Tail(row)) \in Seq(Reports)
<1>1. /\ Tail(row) \in Seq(Plain) /\ Len(Tail(row)) = Len(row) - 1 /\ Head(row) = row[1] /\ Len(row) \in Nat \ {0}
      /\ (\A i \in 1 .. Len(row) : row[i] \in Plain)
      /\ \A i \in 1 .. Len(row) - 1 : Tail(row)[i] = row[i + 1]
  OBVIOUS
<1>2. PICK n \in Nat : Ends(Tail(row), "bad", n)
  BY <1>1, EndsExists, Zenon
<1>3. Ends(row, "bad", n + 1) /\ n + 1 \in Nat
  <2>1. IF Head(row).kind = "bad" THEN Ends(row, "bad", 0) ELSE Ends(row, "bad", n + 1)
    BY <1>2, EndsCons, Zenon
  <2>. QED BY <2>1
<1> DEFINE a == Before(row, "bad")
           b == Before(Tail(row), "bad")
<1>4. DOMAIN a = 1 .. n + 1 /\ \A i \in 1 .. n + 1 : a[i] = row[i]
  <2>1. First(Plain, row, n + 1, a)
    BY <1>3, BeforeIs, Zenon
  <2>. QED BY <2>1, Zenon DEF First
<1>5. DOMAIN b = 1 .. n /\ \A i \in 1 .. n : b[i] = Tail(row)[i]
  <2>1. First(Plain, Tail(row), n, b)
    BY <1>1, <1>2, BeforeIs, Zenon
  <2>. QED BY <2>1, Zenon DEF First
<1>6. n + 1 <= Len(row)
  <2>1. n + 1 \in 0 .. Len(row)
    BY <1>3, Zenon DEF Ends
  <2>. QED BY <1>1, <2>1
<1> DEFINE F == [i \in 1 .. n + 1 |-> Said(c, a[i])]
           G == [i \in 1 .. n |-> Said(c, b[i])]
<1>7. Saying(c, row) = FlattenSeq(F) /\ Saying(c, Tail(row)) = FlattenSeq(G)
  BY <1>4, <1>5 DEF Saying
<1> HIDE DEF a, b
<1>8. \A i \in 1 .. n : G[i] = F[i + 1]
  <2> SUFFICES ASSUME NEW i \in 1 .. n PROVE G[i] = F[i + 1]
    BY Zenon
  <2>1. i + 1 \in 1 .. n + 1 /\ i \in 1 .. Len(row) - 1
    BY <1>1, <1>6
  <2>2. b[i] = a[i + 1]
    BY <1>1, <1>4, <1>5, <2>1, Zenon
  <2>. QED BY <2>1, <2>2
<1>9. F \in [1 .. n + 1 -> Seq(Reports)]
  <2>1. ASSUME NEW i \in 1 .. n + 1 PROVE Said(c, a[i]) \in Seq(Reports)
    <3>1. i \in 1 .. Len(row)
      BY <1>1, <1>6
    <3>2. a[i] \in Plain
      BY <1>1, <1>4, <3>1, Zenon
    <3>. QED BY <3>2, SaidType, Zenon
  <2>. QED BY <2>1, Zenon
<1>10. G \in [1 .. n -> Seq(Reports)]
  <2>1. ASSUME NEW i \in 1 .. n PROVE G[i] \in Seq(Reports)
    <3>1. i + 1 \in 1 .. n + 1
      OBVIOUS
    <3>2. G[i] = F[i + 1] /\ F[i + 1] \in Seq(Reports)
      <4> HIDE DEF F, G
      <4>. QED BY <1>8, <1>9, <3>1
    <3>. QED BY <3>2
  <2>. QED BY <2>1, Zenon
<1>11. F[1] = Said(c, Head(row))
  BY <1>1, <1>4
<1> HIDE DEF F, G
<1>12. FlattenSeq(F) = F[1] \o FlattenSeq(G) /\ FlattenSeq(G) \in Seq(Reports)
  BY <1>8, <1>9, <1>10, FlattenMap, Zenon
<1>. QED BY <1>7, <1>11, <1>12, Zenon

\* What packets say is a row of reports.
LEMMA SayingType == ASSUME NEW c \in Conns, NEW row \in Seq(Plain) PROVE Saying(c, row) \in Seq(Reports)
<1>0. <<>> \in Seq(Reports)
  OBVIOUS
<1>1. CASE row = <<>>
  BY <1>0, <1>1, SayingNone, Zenon
<1>2. CASE row # <<>> /\ Head(row).kind = "bad"
  BY <1>0, <1>2, SayingBad, Zenon
<1>3. CASE row # <<>> /\ Head(row).kind # "bad"
  <2>1. Saying(c, row) = Said(c, Head(row)) \o Saying(c, Tail(row)) /\ Saying(c, Tail(row)) \in Seq(Reports)
    BY <1>3, SayingCons, Zenon
  <2>2. Head(row) \in Plain
    BY <1>3
  <2>3. Said(c, Head(row)) \in Seq(Reports)
    BY <2>2, SaidType, Zenon
  <2>. QED BY <2>1, <2>3
<1>. QED BY <1>1, <1>2, <1>3

\* A packet before others: what it says comes first, or, if it is bad, nothing comes.
LEMMA SayingFirst ==
  ASSUME NEW c \in Conns, NEW p \in Plain, NEW row \in Seq(Plain)
  PROVE  Saying(c, <<p>> \o row) = IF p.kind = "bad" THEN <<>> ELSE Said(c, p) \o Saying(c, row)
<1>1. <<p>> \o row \in Seq(Plain) /\ <<p>> \o row # <<>> /\ Head(<<p>> \o row) = p /\ Tail(<<p>> \o row) = row
  OBVIOUS
<1>2. CASE p.kind = "bad"
  BY <1>1, <1>2, SayingBad
<1>3. CASE p.kind # "bad"
  BY <1>1, <1>3, SayingCons
<1>. QED BY <1>2, <1>3

----------------------------------------------------------------------------
(* What is still to be handled, as the loop of handle_buffer goes on.      *)

\* What is left to be handled is a row of packets, none compressed.
LEMMA LeftType ==
  ASSUME NEW b \in Seq(AnyPacket), NEW z \in Seq(Plain), NEW ps, Stands(b, z, ps)
  PROVE  Left(b, z, ps) \in Seq(Plain)
<1>1. \A i \in 1 .. Len(b) + 1 : Rest(b, i) \in Seq(AnyPacket)
  BY DEF Rest
<1>2. \A i \in 1 .. Len(b) + 1 : Flat(Rest(b, i)) \in Seq(Plain)
  BY <1>1, FlatType, Zenon
<1>3. ps[1] \in 1 .. Len(b) + 1 /\ Flat(Rest(b, ps[1])) \in Seq(Plain)
  BY <1>2 DEF Stands
<1>4. CASE Len(ps) = 1
  BY <1>3, <1>4 DEF Left
<1>5. CASE Len(ps) = 2
  <2>1. ps[2] \in 1 .. Len(z) + 1
    BY <1>5 DEF Stands
  <2>2. Rest(z, ps[2]) \in Seq(Plain)
    BY <2>1 DEF Rest
  <2>3. PICK n \in Nat : Ends(Rest(z, ps[2]), "cut", n)
    BY <2>2, EndsExists, Zenon
  <2>4. First(Plain, Rest(z, ps[2]), n, Before(Rest(z, ps[2]), "cut"))
    BY <2>2, <2>3, BeforeIs, Zenon
  <2>5. Before(Rest(z, ps[2]), "cut") \in Seq(Plain)
    BY <2>4, Zenon DEF First
  <2>. QED BY <1>3, <1>5, <2>5 DEF Left
<1>. QED BY <1>4, <1>5 DEF Stands

\* A call that begins has its whole row to handle.
LEMMA LeftStart ==
  ASSUME NEW b \in Seq(AnyPacket), NEW z
  PROVE  Stands(b, z, <<1>>) /\ Left(b, z, <<1>>) = Flat(b)
<1>1. Rest(b, 1) = b
  BY DEF Rest
<1>2. Len(<<1>>) = 1 /\ <<1>>[1] = 1 /\ <<1>> \in Seq(Nat) /\ 1 \in 1 .. Len(b) + 1
  OBVIOUS
<1>3. Stands(b, z, <<1>>)
  BY <1>2 DEF Stands
<1>. QED BY <1>1, <1>2, <1>3 DEF Left

\* A call at the end of its row, or at a cut packet, leaves what the call
\* around it leaves.
LEMMA LeftEnd ==
  ASSUME NEW b \in Seq(AnyPacket), NEW z \in Seq(Plain), NEW ps, Stands(b, z, ps),
         \/ ps[Len(ps)] = Len(Ahead(b, z, ps)) + 1
         \/ ps[Len(ps)] \in 1 .. Len(Ahead(b, z, ps)) /\ Ahead(b, z, ps)[ps[Len(ps)]].kind = "cut"
  PROVE  /\ Len(ps) = 1 => Left(b, z, ps) = <<>>
         /\ Len(ps) = 2 => Stands(b, z, Front(ps)) /\ Left(b, z, Front(ps)) = Left(b, z, ps)
<1>1. Flat(<<>>) = <<>> /\ Before(<<>>, "cut") = <<>>
  BY FlatNone, BeforeNone
<1>2. ASSUME Len(ps) = 1 PROVE Left(b, z, ps) = <<>>
  <2>1. Left(b, z, ps) = Flat(Rest(b, ps[1])) /\ Ahead(b, z, ps) = b
    BY <1>2 DEF Left, Ahead
  <2>2. CASE ps[1] = Len(b) + 1
    <3>1. Rest(b, ps[1]) = <<>>
      BY <2>2, RestNone
    <3>. QED BY <1>1, <2>1, <3>1
  <2>3. CASE ps[1] \in 1 .. Len(b) /\ b[ps[1]].kind = "cut"
    <3>1. /\ Rest(b, ps[1]) \in Seq(AnyPacket) /\ Rest(b, ps[1]) # <<>>
          /\ Head(Rest(b, ps[1])) = b[ps[1]]
      BY <2>3, RestCons, Zenon
    <3>2. Head(Rest(b, ps[1])).kind = "cut"
      BY <2>3, <3>1, Zenon
    <3>. QED BY <2>1, <3>1, <3>2, FlatCut, Zenon
  <2>. QED BY <1>2, <2>1, <2>2, <2>3
<1>3. ASSUME Len(ps) = 2 PROVE Stands(b, z, Front(ps)) /\ Left(b, z, Front(ps)) = Left(b, z, ps)
  <2>1. Left(b, z, ps) = Before(Rest(z, ps[2]), "cut") \o Flat(Rest(b, ps[1])) /\ Ahead(b, z, ps) = z
    BY <1>3 DEF Left, Ahead
  <2>2. /\ ps \in Seq(Nat) /\ ps[1] \in 1 .. Len(b) + 1 /\ Front(ps) = SubSeq(ps, 1, 1)
    BY <1>3 DEF Stands, Front
  <2>3. Front(ps) \in Seq(Nat) /\ Len(Front(ps)) = 1 /\ Front(ps)[1] = ps[1]
    BY <1>3, <2>2
  <2>4. Stands(b, z, Front(ps)) /\ Left(b, z, Front(ps)) = Flat(Rest(b, ps[1]))
    BY <2>2, <2>3 DEF Stands, Left
  <2>5. Before(Rest(z, ps[2]), "cut") = <<>>
    <3>1. CASE ps[2] = Len(z) + 1
      <4>1. Rest(z, ps[2]) = <<>>
        BY <3>1, RestNone
      <4>. QED BY <1>1, <4>1
    <3>2. CASE ps[2] \in 1 .. Len(z) /\ z[ps[2]].kind = "cut"
      <4>1. /\ Rest(z, ps[2]) \in Seq(Plain) /\ Rest(z, ps[2]) # <<>>
            /\ Head(Rest(z, ps[2])) = z[ps[2]]
        BY <3>2, RestCons, Zenon
      <4>2. Head(Rest(z, ps[2])).kind = "cut"
        BY <3>2, <4>1, Zenon
      <4>. QED BY <4>1, <4>2, BeforeCons
    <3>. QED BY <1>3, <2>1, <3>1, <3>2
  <2>6. Left(b, z, Front(ps)) \in Seq(Plain)
    BY <2>4, LeftType, Zenon
  <2>. QED BY <2>1, <2>4, <2>5, <2>6
<1>. QED BY <1>2, <1>3

\* The innermost call moves on by one packet.
Steps(ps, qs) == qs = [ps EXCEPT ![Len(ps)] = @ + 1]

\* Concatenation is associative.
LEMMA Assoc ==
  ASSUME NEW E
  PROVE  \A u, v, w \in Seq(E) : (u \o v) \o w = u \o (v \o w) /\ v \o w \in Seq(E)
OBVIOUS

\* Behind a packet that is neither cut nor compressed.
LEMMA LeftNext ==
  ASSUME NEW b \in Seq(AnyPacket), NEW z \in Seq(Plain), NEW ps, Stands(b, z, ps), NEW p,
         ps[Len(ps)] \in 1 .. Len(Ahead(b, z, ps)), p = Ahead(b, z, ps)[ps[Len(ps)]], p.kind \notin {"cut", "zip"},
         NEW qs, Steps(ps, qs)
  PROVE  p \in Plain /\ Stands(b, z, qs) /\ Left(b, z, qs) \in Seq(Plain) /\ Left(b, z, ps) = <<p>> \o Left(b, z, qs)
<1>1. ps \in Seq(Nat) /\ Len(ps) \in {1, 2} /\ ps[1] \in 1 .. Len(b) + 1
  BY DEF Stands
<1>2. qs \in Seq(Nat) /\ Len(qs) = Len(ps)
  BY <1>1 DEF Steps
<1>3. CASE Len(ps) = 1
  <2>1. /\ Left(b, z, ps) = Flat(Rest(b, ps[1])) /\ Ahead(b, z, ps) = b
        /\ Left(b, z, qs) = Flat(Rest(b, qs[1])) /\ qs[1] = ps[1] + 1 /\ ps[1] \in 1 .. Len(b)
    BY <1>1, <1>2, <1>3 DEF Left, Ahead, Steps
  <2>2. Stands(b, z, qs)
    <3>1. qs[1] \in 1 .. Len(b) + 1
      BY <2>1
    <3>. QED BY <1>2, <1>3, <3>1 DEF Stands
  <2>3. /\ Rest(b, ps[1]) \in Seq(AnyPacket) /\ Rest(b, ps[1]) # <<>>
        /\ Head(Rest(b, ps[1])) = b[ps[1]] /\ b[ps[1]] \in AnyPacket
        /\ Tail(Rest(b, ps[1])) = Rest(b, ps[1] + 1)
    <3>1. ps[1] \in 1 .. Len(b)
      BY <2>1, Zenon
    <3>2. Splits(AnyPacket, b, ps[1])
      BY <3>1, RestSplits, Zenon
    <3>. QED BY <3>2, Zenon DEF Splits
  <2>4. p = b[ps[1]] /\ p \in AnyPacket
    BY <1>3, <2>1, <2>3
  <2>5. p \in Plain /\ Inside(p) = <<p>>
    BY <2>4 DEF AnyPacket, Inside
  <2>6. Head(Rest(b, ps[1])).kind # "cut"
    BY <2>3, <2>4
  <2>7. Flat(Rest(b, ps[1])) = Inside(Head(Rest(b, ps[1]))) \o Flat(Tail(Rest(b, ps[1])))
    BY <2>3, <2>6, FlatCons, Zenon
  <2>8. Left(b, z, qs) \in Seq(Plain)
    BY <2>2, LeftType, Zenon
  <2>. QED BY <2>1, <2>2, <2>3, <2>4, <2>5, <2>7, <2>8, Zenon
<1>4. CASE Len(ps) = 2
  <2>1. /\ Left(b, z, ps) = Before(Rest(z, ps[2]), "cut") \o Flat(Rest(b, ps[1])) /\ Ahead(b, z, ps) = z
        /\ Left(b, z, qs) = Before(Rest(z, qs[2]), "cut") \o Flat(Rest(b, qs[1]))
        /\ qs[1] = ps[1] /\ qs[2] = ps[2] + 1 /\ ps[2] \in 1 .. Len(z)
    <3>1. Ahead(b, z, ps) = z /\ ps[2] \in 1 .. Len(z)
      BY <1>4 DEF Ahead
    <3>2. qs[1] = ps[1] /\ qs[2] = ps[2] + 1
      BY <1>1, <1>4 DEF Steps
    <3>. QED BY <1>2, <1>4, <3>1, <3>2 DEF Left
  <2>2. Stands(b, z, qs)
    BY <1>1, <1>2, <1>4, <2>1 DEF Stands
  <2>3. /\ Rest(z, ps[2]) \in Seq(Plain) /\ Rest(z, ps[2]) # <<>>
        /\ Head(Rest(z, ps[2])) = z[ps[2]] /\ z[ps[2]] \in Plain
        /\ Tail(Rest(z, ps[2])) = Rest(z, ps[2] + 1)
    <3>1. ps[2] \in 1 .. Len(z)
      BY <2>1, Zenon
    <3>2. Splits(Plain, z, ps[2])
      BY <3>1, RestSplits, Zenon
    <3>. QED BY <3>2, Zenon DEF Splits
  <2>4. p = z[ps[2]] /\ p \in Plain
    BY <1>4, <2>1, <2>3
  <2> DEFINE x == Before(Tail(Rest(z, ps[2])), "cut")
  <2>5. Before(Rest(z, ps[2]), "cut") = <<p>> \o x /\ x \in Seq(Plain)
    BY <2>3, <2>4, BeforeCons
  <2>6. Left(b, z, qs) = x \o Flat(Rest(b, ps[1])) /\ x = Before(Rest(z, qs[2]), "cut")
    BY <2>1, <2>3, Zenon
  <2> HIDE DEF x
  <2>7. Flat(Rest(b, ps[1])) \in Seq(Plain)
    <3>1. Rest(b, ps[1]) \in Seq(AnyPacket)
      BY <1>1 DEF Rest
    <3>. QED BY <3>1, FlatType, Zenon
  <2>8. \A u, v, w \in Seq(Plain) : (u \o v) \o w = u \o (v \o w) /\ v \o w \in Seq(Plain)
    BY Assoc, Zenon
  <2>9. <<p>> \in Seq(Plain)
    BY <2>4
  <2>10. (<<p>> \o x) \o Flat(Rest(b, ps[1])) = <<p>> \o (x \o Flat(Rest(b, ps[1])))
    BY <2>5, <2>7, <2>8, <2>9, Zenon
  <2>11. Left(b, z, ps) = <<p>> \o Left(b, z, qs)
    BY <2>1, <2>5, <2>6, <2>10, Zenon
  <2>12. Left(b, z, qs) \in Seq(Plain)
    BY <2>2, LeftType, Zenon
  <2>. QED BY <2>2, <2>4, <2>11, <2>12, Zenon
<1>. QED BY <1>1, <1>3, <1>4

\* The thread stands at packet p; what is left stays the same, unpacked.
StandsAt(b, z, ps, p) ==
  /\ Stands(b, z, ps) /\ ps[Len(ps)] \in 1 .. Len(Ahead(b, z, ps))
  /\ p = Ahead(b, z, ps)[ps[Len(ps)]]

Unpacks(b, z, ps, p, qs) ==
  p.inside \in Seq(Plain) /\ Stands(b, p.inside, qs) /\ Left(b, p.inside, qs) = Left(b, z, ps)

LEMMA LeftZip ==
  ASSUME NEW b \in Seq(AnyPacket), NEW z \in Seq(Plain), NEW ps, NEW p, StandsAt(b, z, ps, p), p.kind = "zip"
  PROVE  Unpacks(b, z, ps, p, <<ps[1] + 1, 1>>)
<1> DEFINE qs == <<ps[1] + 1, 1>>
<1> USE DEF StandsAt
<1>1. ps \in Seq(Nat) /\ Len(ps) \in {1, 2} /\ ps[1] \in 1 .. Len(b) + 1
  BY DEF Stands
<1>2. Len(ps) = 1
  <2> SUFFICES ASSUME Len(ps) = 2 PROVE FALSE
    BY <1>1
  <2>1. ps[2] \in 1 .. Len(z) /\ p = z[ps[2]]
    BY DEF Ahead
  <2>2. p \in Plain
    BY <2>1
  <2>. QED BY <2>2 DEF Plain, Kinds
<1>3. /\ Left(b, z, ps) = Flat(Rest(b, ps[1])) /\ p = b[ps[1]] /\ ps[1] \in 1 .. Len(b)
  BY <1>1, <1>2 DEF Left, Ahead
<1>4. /\ Rest(b, ps[1]) \in Seq(AnyPacket) /\ Rest(b, ps[1]) # <<>>
      /\ Head(Rest(b, ps[1])) = b[ps[1]] /\ b[ps[1]] \in AnyPacket
      /\ Tail(Rest(b, ps[1])) = Rest(b, ps[1] + 1)
  BY <1>3, RestCons, Zenon
<1>5. p \in AnyPacket /\ p.inside \in Seq(Plain)
  BY <1>3, <1>4 DEF AnyPacket, Plain, Kinds
<1>6. Inside(p) = Before(p.inside, "cut")
  BY DEF Inside
<1>7. Head(Rest(b, ps[1])).kind # "cut"
  BY <1>3, <1>4
<1>8. Flat(Rest(b, ps[1])) = Inside(Head(Rest(b, ps[1]))) \o Flat(Tail(Rest(b, ps[1])))
  BY <1>4, <1>7, FlatCons, Zenon
<1>9. qs \in Seq(Nat) /\ Len(qs) = 2 /\ qs[1] = ps[1] + 1 /\ qs[2] = 1
  BY <1>3
<1> HIDE DEF qs, StandsAt
<1>10. Rest(p.inside, 1) = p.inside
  BY <1>5, RestNone
<1>11. Left(b, p.inside, qs) = Before(p.inside, "cut") \o Flat(Rest(b, ps[1] + 1))
  BY <1>9, <1>10 DEF Left
<1>12. Stands(b, p.inside, qs)
  <2>1. Len(p.inside) \in Nat /\ Len(b) \in Nat
    BY <1>5
  <2>2. qs[1] \in 1 .. Len(b) + 1 /\ qs[2] \in 1 .. Len(p.inside) + 1
    <3>1. \A n, i, k \in Nat : i \in 1 .. n => i + 1 \in 1 .. n + 1 /\ 1 \in 1 .. k + 1
      OBVIOUS
    <3>2. ps[1] \in Nat
      BY <1>3
    <3>. QED BY <1>3, <1>9, <2>1, <3>1, <3>2, Zenon
  <2>. QED BY <1>9, <2>2 DEF Stands
<1>. QED BY <1>3, <1>4, <1>5, <1>6, <1>8, <1>11, <1>12, Zenon DEF Unpacks, qs

----------------------------------------------------------------------------
(* A step touches its own thread and connection, and leaves the others.    *)

SameThread(u) ==
  /\ pos'[u] = pos[u] /\ serving'[u] = serving[u] /\ zlib'[u] = zlib[u] /\ context'[u] = context[u]
  /\ u \in lent' => u \in lent

SameConn(d) == reading'[d] = reading[d] /\ buffer'[d] = buffer[d] /\ heard'[d] = heard[d] /\ due'[d] = due[d]

Frame(t, c) == (\A u \in Threads : u # t => SameThread(u)) /\ (\A d \in Conns : d # c => SameConn(d))

\* A thread nothing was done to serves its connection as before.
LEMMA SameServes ==
  ASSUME NEW u, Serves(u), SameThread(u), SameConn(serving[u]) PROVE Serves(u)'
BY DEF Serves, SameThread, SameConn

\* The thread goes on serving c, or is done with it and owes it nothing.
Turn(t, c) ==
  \/ serving'[t] = None /\ Rests(t)' /\ reading'[c] # "busy" /\ heard'[c] = due'[c]
  \/ serving'[t] = c /\ Serves(t)'

\* If a step is taken by one thread for one connection, and leaves that
\* thread and that connection in order, all the others are in order too.
LEMMA Framed ==
  ASSUME Inv, Typed', NEW t \in Threads, NEW c \in Conns, Frame(t, c), Turn(t, c),
         serving[t] = c \/ (serving[t] = None /\ reading[c] # "busy")
  PROVE  Inv'
<1>1. c # None
  BY MessagesAssumption
<1>2. ASSUME NEW u \in Threads, u # t PROVE serving[u] # c /\ SameThread(u)
  <2>1. SameThread(u)
    BY <1>2 DEF Frame
  <2>2. serving[u] = c => Serves(u)
    BY <1>1 DEF Inv
  <2>3. serving[u] = c => reading[c] = "busy"
    BY <2>2 DEF Serves
  <2>. QED BY <1>1, <1>2, <2>1, <2>3 DEF Inv, Alone
<1>3. ASSUME NEW d \in Conns, d # c PROVE SameConn(d)
  BY <1>3 DEF Frame
<1>4. serving'[t] \in {None, c} /\ (serving'[t] = None => Rests(t)') /\ (serving'[t] # None => Serves(t)')
  BY <1>1 DEF Turn
<1>5. ASSUME NEW u \in Threads PROVE IF serving'[u] = None THEN Rests(u)' ELSE Serves(u)'
  <2>1. CASE u = t
    BY <1>4, <2>1
  <2>2. CASE u # t /\ serving[u] = None
    <3>1. SameThread(u) /\ Rests(u)
      BY <1>2, <2>2 DEF Inv
    <3>. QED BY <2>2, <3>1 DEF SameThread, Rests
  <2>3. CASE u # t /\ serving[u] # None
    <3>1. SameThread(u) /\ Serves(u) /\ serving[u] \in Conns /\ serving[u] # c
      BY <1>2, <2>3 DEF Inv, Typed
    <3>2. SameConn(serving[u])
      BY <1>3, <3>1
    <3>3. Serves(u)'
      BY <3>1, <3>2, SameServes
    <3>. QED BY <2>3, <3>1, <3>3 DEF SameThread
  <2>. QED BY <2>1, <2>2, <2>3
<1>6. Alone'
  <2> SUFFICES ASSUME NEW u \in Threads, NEW v \in Threads, serving'[u] = serving'[v], serving'[u] # None PROVE u = v
    BY DEF Alone
  <2>1. \A w \in Threads : w # t => serving'[w] = serving[w] /\ serving[w] # c
    BY <1>2 DEF SameThread
  <2>2. \A w \in Threads : w # t => (serving[w] = serving[u] /\ serving[w] # None => w = u)
    BY DEF Inv, Alone
  <2>. QED BY <1>4, <2>1, <2>2
<1>7. ASSUME NEW d \in Conns PROVE Owed(d)'
  <2>1. CASE d = c
    BY <2>1 DEF Turn, Owed, Serves
  <2>2. CASE d # c
    <3>1. SameConn(d) /\ Owed(d)
      BY <1>3, <2>2 DEF Inv
    <3>2. CASE reading[d] = "busy"
      <4>1. PICK u \in Threads : serving[u] = d
        BY <3>1, <3>2 DEF Owed
      <4>2. d # None
        BY MessagesAssumption
      <4>3. u # t
        BY <2>2, <4>1, <4>2
      <4>4. serving'[u] = d
        BY <1>2, <4>1, <4>3 DEF SameThread
      <4>. QED BY <3>1, <3>2, <4>4 DEF Owed, SameConn
    <3>3. CASE reading[d] # "busy"
      BY <3>1, <3>3 DEF Owed, SameConn
    <3>. QED BY <3>2, <3>3
  <2>. QED BY <2>1, <2>2
<1>. QED BY <1>5, <1>6, <1>7 DEF Inv

\* Where a thread of the loop stands.
LEMMA AtIs ==
  ASSUME Inv, NEW t \in Threads, NEW kinds, At(t, kinds)
  PROVE  /\ serving[t] \in Conns /\ t \notin lent /\ Serves(t)
         /\ buffer[serving[t]] \in Seq(AnyPacket) /\ zlib[t] \in Seq(Plain)
         /\ Row(t) = Ahead(buffer[serving[t]], zlib[t], pos[t])
         /\ "end" \notin kinds => pos[t][Len(pos[t])] \in 1 .. Len(Row(t)) /\ Packet(t).kind \in kinds
         /\ kinds = {"end", "cut"} =>
              \/ pos[t][Len(pos[t])] = Len(Row(t)) + 1
              \/ pos[t][Len(pos[t])] \in 1 .. Len(Row(t)) /\ Row(t)[pos[t][Len(pos[t])]].kind = "cut"
<1>1. serving[t] # None
  BY DEF Inv, Rests, At
<1>2. serving[t] \in Conns /\ t \notin lent /\ Serves(t)
  BY <1>1 DEF Inv, Typed, At
<1>3. buffer[serving[t]] \in Seq(AnyPacket) /\ zlib[t] \in Seq(Plain)
  BY <1>2 DEF Inv, Typed
<1>4. Row(t) = Ahead(buffer[serving[t]], zlib[t], pos[t])
  BY DEF Row, Ahead
<1>5. Len(Row(t)) \in Nat
  BY <1>3, <1>4 DEF Ahead
<1>6. pos[t][Len(pos[t])] \in 1 .. Len(Row(t)) + 1
  <2>1. Stands(buffer[serving[t]], zlib[t], pos[t])
    BY <1>2 DEF Serves
  <2>. QED BY <1>4, <2>1 DEF Stands, Ahead
<1>7. Last(pos[t]) = pos[t][Len(pos[t])]
  BY DEF Last
<1>8. Here(t) \in kinds
  BY DEF At
<1>9. ASSUME "end" \notin kinds PROVE pos[t][Len(pos[t])] \in 1 .. Len(Row(t)) /\ Packet(t).kind \in kinds
  BY <1>5, <1>6, <1>7, <1>8, <1>9 DEF Here, Packet
<1>10. ASSUME kinds = {"end", "cut"}
       PROVE  \/ pos[t][Len(pos[t])] = Len(Row(t)) + 1
              \/ pos[t][Len(pos[t])] \in 1 .. Len(Row(t)) /\ Row(t)[pos[t][Len(pos[t])]].kind = "cut"
  <2>1. CASE pos[t][Len(pos[t])] = Len(Row(t)) + 1
    BY <2>1
  <2>2. CASE pos[t][Len(pos[t])] \in 1 .. Len(Row(t))
    <3>1. Here(t) = Row(t)[pos[t][Len(pos[t])]].kind
      BY <1>5, <1>7, <2>2 DEF Here
    <3>2. Row(t)[pos[t][Len(pos[t])]] \in AnyPacket
      BY <1>3, <1>4, <2>2 DEF Ahead, AnyPacket
    <3>3. Row(t)[pos[t][Len(pos[t])]].kind # "end"
      BY <3>2 DEF AnyPacket, Plain, Kinds
    <3>. QED BY <1>8, <1>10, <2>2, <3>1, <3>3
  <2>. QED BY <1>5, <1>6, <2>1, <2>2
<1>. QED BY <1>2, <1>3, <1>4, <1>9, <1>10

----------------------------------------------------------------------------
(* The steps.                                                              *)

\* handle_buffer is called on a row: all that the row amounts to is due.
LEMMA EnterStep ==
  ASSUME Inv, NEW t \in Threads, NEW c \in Conns, NEW row \in Seq(AnyPacket), Enter(t, c, row), failed' \subseteq Conns
  PROVE  Inv'
<1>1. Typed /\ c # None
  BY MessagesAssumption DEF Inv
<1>2. serving[t] = None /\ t \notin lent
  <2>1. serving[t] # None => Stands(buffer[serving[t]], zlib[t], pos[t])
    BY DEF Inv, Serves
  <2>2. pos[t] = <<>>
    BY DEF Enter
  <2>3. serving[t] = None
    BY <2>1, <2>2 DEF Stands
  <2>. QED BY <2>3 DEF Inv, Rests
<1>3. reading[c] # "busy" /\ heard[c] = due[c]
  BY DEF Enter, Inv, Owed
<1>4. Wanted(c, row) \in Seq(Reports)
  BY FlatType, SayingType, Zenon DEF Wanted
<1>5. Typed'
  <2>1. due[c] \o Wanted(c, row) \in Seq(Reports)
    BY <1>1, <1>4 DEF Typed
  <2>2. <<1>> \in Seq(Nat)
    OBVIOUS
  <2>. QED BY <1>1, <2>1, <2>2 DEF Typed, Enter
<1>6. Frame(t, c)
  BY <1>1 DEF Frame, SameThread, SameConn, Enter, Typed
<1>7. /\ serving'[t] = c /\ reading'[c] = "busy" /\ buffer'[c] = row /\ pos'[t] = <<1>> /\ zlib'[t] = zlib[t]
      /\ t \notin lent' /\ heard'[c] = heard[c] /\ due'[c] = due[c] \o Wanted(c, row)
  BY <1>1, <1>2 DEF Enter, Typed
<1>8. Stands(row, zlib[t], <<1>>) /\ Left(row, zlib[t], <<1>>) = Flat(row)
  BY LeftStart, Zenon
<1>9. Serves(t)'
  BY <1>3, <1>7, <1>8 DEF Serves, Wanted
<1>10. Turn(t, c)
  BY <1>7, <1>9 DEF Turn
<1>. QED BY <1>2, <1>3, <1>5, <1>6, <1>10, Framed

\* on_receive of a message.
LEMMA ReceiveStep == ASSUME Inv, NEW t \in Threads, NEW c \in Conns, on_receive(t, c) PROVE Inv'
<1>1. PICK row \in Messages : Enter(t, c, row)
  BY DEF on_receive
<1>2. row \in Seq(AnyPacket) /\ failed' \subseteq Conns
  BY MessagesAssumption DEF on_receive, Inv, Typed
<1>. QED BY <1>1, <1>2, EnterStep

\* on_receive when the read failed: what came is a row that is cut off.
LEMMA ReceiveFailedStep == ASSUME Inv, NEW t \in Threads, NEW c \in Conns, on_receive_failed(t, c) PROVE Inv'
<1> DEFINE cut == [kind |-> "cut", body |-> 0, inside |-> <<>>]
<1>1. PICK row \in Messages : \E n \in 0 .. Len(row) - 1 : Enter(t, c, Append(SubSeq(row, 1, n), cut))
  BY DEF on_receive_failed
<1>2. row \in Seq(AnyPacket)
  BY MessagesAssumption
<1>3. cut \in AnyPacket
  BY DEF AnyPacket, Plain, Kinds
<1> HIDE DEF cut
<1>4. PICK n \in 0 .. Len(row) - 1 : Enter(t, c, Append(SubSeq(row, 1, n), cut))
  BY <1>1
<1>5. Append(SubSeq(row, 1, n), cut) \in Seq(AnyPacket)
  BY <1>2, <1>3
<1>6. failed' \subseteq Conns
  BY DEF on_receive_failed, Inv, Typed
<1>. QED BY <1>4, <1>5, <1>6, EnterStep

\* A read that ended leaves a connection that owed nothing.
LEMMA EndedStep == ASSUME Inv, NEW c \in Conns, on_receive_ended(c) PROVE Inv'
<1>1. Typed /\ reading[c] = "pending" /\ heard[c] = due[c]
  BY DEF on_receive_ended, Inv, Owed
<1>2. Typed' /\ Alone'
  BY DEF on_receive_ended, Inv, Typed, Alone
<1>3. \A d \in Conns : d # c => SameConn(d)
  BY <1>1 DEF on_receive_ended, Typed, SameConn
<1>4. \A u \in Threads : SameThread(u)
  BY DEF on_receive_ended, SameThread
<1>5. ASSUME NEW u \in Threads PROVE IF serving'[u] = None THEN Rests(u)' ELSE Serves(u)'
  <2>1. SameThread(u)
    BY <1>4
  <2>2. CASE serving[u] = None
    BY <2>1, <2>2 DEF Inv, SameThread, Rests
  <2>3. CASE serving[u] # None
    <3>1. Serves(u) /\ serving[u] \in Conns
      BY <1>1, <2>3 DEF Inv, Typed
    <3>2. serving[u] # c
      BY <1>1, <3>1 DEF Serves
    <3>3. Serves(u)'
      BY <1>3, <2>1, <3>1, <3>2, SameServes
    <3>. QED BY <2>1, <2>3, <3>3 DEF SameThread
  <2>. QED BY <2>2, <2>3
<1>6. ASSUME NEW d \in Conns PROVE Owed(d)'
  <2>1. CASE d = c
    BY <1>1, <2>1 DEF on_receive_ended, Typed, Owed
  <2>2. CASE d # c
    <3>1. SameConn(d) /\ Owed(d) /\ serving' = serving
      BY <1>3, <2>2 DEF Inv, on_receive_ended
    <3>. QED BY <3>1 DEF Owed, SameConn
  <2>. QED BY <2>1, <2>2
<1>. QED BY <1>2, <1>5, <1>6 DEF Inv

\* Where the calls stand without the innermost of them.
LEMMA FrontIs ==
  ASSUME NEW s \in Seq(Nat), Len(s) \in {1, 2}
  PROVE  Front(s) \in Seq(Nat) /\ (Len(s) = 1 => Front(s) = <<>>)
<1>1. CASE Len(s) = 1
  <2>1. SubSeq(s, 1, 0) = <<>> /\ Len(s) - 1 = 0
    BY <1>1
  <2>2. Front(s) = <<>>
    BY <2>1, Zenon DEF Front
  <2>. QED BY <2>2
<1>2. CASE Len(s) = 2
  <2>1. Len(s) - 1 = 1 /\ 1 \in Int /\ 1 .. 1 = {1} /\ 1 \in 1 .. Len(s)
    BY <1>2
  <2>2. s[1] \in Nat
    BY <2>1
  <2>3. SubSeq(s, 1, 1) \in Seq(Nat)
    BY <2>1, <2>2, SubSeqProperties, Zenon
  <2>4. Front(s) \in Seq(Nat)
    BY <2>1, <2>3, Zenon DEF Front
  <2>. QED BY <1>2, <2>4
<1>. QED BY <1>1, <1>2

\* A call of handle_buffer returns, into the one around it or to on_receive.
LEMMA ReturnStep == ASSUME Inv, NEW t \in Threads, return_from_buffer(t) PROVE Inv'
<1> DEFINE c == serving[t]
           b == buffer[c]
           z == zlib[t]
           ps == pos[t]
<1>1. /\ c \in Conns /\ t \notin lent /\ Serves(t) /\ b \in Seq(AnyPacket) /\ z \in Seq(Plain)
      /\ Row(t) = Ahead(b, z, ps)
      /\ \/ ps[Len(ps)] = Len(Row(t)) + 1
         \/ ps[Len(ps)] \in 1 .. Len(Row(t)) /\ Row(t)[ps[Len(ps)]].kind = "cut"
  BY AtIs DEF return_from_buffer
<1>2. Typed /\ c # None
  BY <1>1, MessagesAssumption DEF Inv
<1>3. Stands(b, z, ps) /\ reading[c] = "busy" /\ heard[c] \o Saying(c, Left(b, z, ps)) = due[c]
  BY <1>1 DEF Serves
<1>4. ps \in Seq(Nat) /\ Len(ps) \in {1, 2} /\ Front(ps) \in Seq(Nat) /\ (Len(ps) = 1 => Front(ps) = <<>>)
  <2>1. ps \in Seq(Nat) /\ Len(ps) \in {1, 2}
    BY <1>3 DEF Stands
  <2> HIDE DEF ps
  <2>. QED BY <2>1, FrontIs, Zenon
<1>5. /\ Len(ps) = 1 => Left(b, z, ps) = <<>>
      /\ Len(ps) = 2 => Stands(b, z, Front(ps)) /\ Left(b, z, Front(ps)) = Left(b, z, ps)
  <2> HIDE DEF b, z, ps
  <2>. QED BY <1>1, <1>3, LeftEnd
<1>6. Typed'
  BY <1>1, <1>2, <1>4 DEF Typed, return_from_buffer
<1>7. Frame(t, c)
  BY <1>1, <1>2 DEF Typed, return_from_buffer, Frame, SameThread, SameConn
<1>8. pos'[t] = Front(ps) /\ t \notin lent'
  BY <1>1, <1>2 DEF Typed, return_from_buffer
<1>9. Turn(t, c)
  <2>1. CASE Len(ps) = 1
    <3>1. serving'[t] = None /\ reading'[c] = "pending" /\ heard' = heard /\ due' = due
      BY <1>1, <1>2, <2>1 DEF Typed, return_from_buffer
    <3>2. heard[c] = due[c]
      <4>1. Saying(c, Left(b, z, ps)) = <<>>
        BY <1>5, <2>1, SayingNone
      <4>2. heard[c] \in Seq(Reports)
        BY <1>1, <1>2 DEF Typed
      <4>. QED BY <1>3, <4>1, <4>2
    <3>3. Rests(t)'
      BY <1>4, <1>8, <2>1 DEF Rests
    <3>. QED BY <3>1, <3>2, <3>3 DEF Turn
  <2>2. CASE Len(ps) = 2
    <3>1. serving' = serving /\ reading' = reading /\ heard' = heard /\ due' = due /\ buffer' = buffer /\ zlib' = zlib
      BY <2>2 DEF return_from_buffer
    <3>2. Serves(t)'
      BY <1>3, <1>5, <1>8, <2>2, <3>1 DEF Serves
    <3>. QED BY <3>1, <3>2 DEF Turn
  <2>. QED BY <1>4, <2>1, <2>2
<1>. QED BY <1>1, <1>6, <1>7, <1>9, Framed

\* malformed_packet: nothing behind a bad packet was due.
LEMMA MalformedStep == ASSUME Inv, NEW t \in Threads, malformed_packet(t) PROVE Inv'
<1> DEFINE c == serving[t]
           b == buffer[c]
           z == zlib[t]
           ps == pos[t]
           p == Packet(t)
<1>1. /\ c \in Conns /\ t \notin lent /\ Serves(t) /\ b \in Seq(AnyPacket) /\ z \in Seq(Plain)
      /\ Row(t) = Ahead(b, z, ps) /\ ps[Len(ps)] \in 1 .. Len(Row(t)) /\ p.kind = "bad"
  BY AtIs DEF malformed_packet
<1>2. Typed /\ c # None
  BY <1>1, MessagesAssumption DEF Inv
<1>3. Stands(b, z, ps) /\ reading[c] = "busy" /\ heard[c] \o Saying(c, Left(b, z, ps)) = due[c]
  BY <1>1 DEF Serves
<1>4. p = Ahead(b, z, ps)[ps[Len(ps)]]
  BY <1>1 DEF Packet, Last
<1>5. Saying(c, Left(b, z, ps)) = <<>>
  <2> DEFINE qs == [ps EXCEPT ![Len(ps)] = @ + 1]
  <2>1. Steps(ps, qs)
    BY DEF Steps
  <2> HIDE DEF c, b, z, ps, p, qs
  <2>2. p \in Plain /\ Left(b, z, qs) \in Seq(Plain) /\ Left(b, z, ps) = <<p>> \o Left(b, z, qs)
    BY <1>1, <1>3, <1>4, <2>1, LeftNext
  <2>. QED BY <1>1, <2>2, SayingFirst
<1>6. Typed'
  BY <1>1, <1>2 DEF Typed, malformed_packet
<1>7. Frame(t, c)
  BY <1>1, <1>2 DEF Typed, malformed_packet, Frame, SameThread, SameConn
<1>8. heard[c] = due[c]
  <2>1. heard[c] \in Seq(Reports)
    BY <1>1, <1>2 DEF Typed
  <2>. QED BY <1>3, <1>5, <2>1
<1>9. serving'[t] = None /\ reading'[c] = "over" /\ pos'[t] = <<>> /\ lent' = lent /\ heard' = heard /\ due' = due
  BY <1>1, <1>2 DEF Typed, malformed_packet
<1>10. Turn(t, c)
  BY <1>1, <1>8, <1>9 DEF Turn, Rests
<1>. QED BY <1>1, <1>6, <1>7, <1>10, Framed

\* Behind a packet that is none of cut, compressed and bad.
LEMMA Passing ==
  ASSUME Inv, NEW t \in Threads, serving[t] \in Conns, Serves(t),
         pos[t][Len(pos[t])] \in 1 .. Len(Row(t)), Packet(t).kind \notin {"cut", "zip", "bad"}
  PROVE  LET qs == [pos[t] EXCEPT ![Len(pos[t])] = @ + 1]
             c  == serving[t]
         IN  /\ Packet(t) \in Plain /\ qs \in Seq(Nat) /\ Stands(buffer[c], zlib[t], qs)
             /\ heard[c] \o Said(c, Packet(t)) \in Seq(Reports)
             /\ (heard[c] \o Said(c, Packet(t))) \o Saying(c, Left(buffer[c], zlib[t], qs)) = due[c]
<1> DEFINE c == serving[t]
           b == buffer[c]
           z == zlib[t]
           ps == pos[t]
           p == Packet(t)
           qs == [ps EXCEPT ![Len(ps)] = @ + 1]
           h == heard[c]
<1>1. c \in Conns /\ b \in Seq(AnyPacket) /\ z \in Seq(Plain) /\ h \in Seq(Reports)
  BY DEF Inv, Typed
<1>2. Stands(b, z, ps) /\ h \o Saying(c, Left(b, z, ps)) = due[c]
  BY DEF Serves
<1>3. Ahead(b, z, ps) = Row(t)
  BY DEF Row, Ahead
<1>4. p = Ahead(b, z, ps)[ps[Len(ps)]] /\ ps[Len(ps)] \in 1 .. Len(Ahead(b, z, ps))
  BY <1>3 DEF Packet, Last
<1>5. Steps(ps, qs)
  BY DEF Steps
<1>6. p.kind \notin {"cut", "zip"} /\ p.kind # "bad"
  OBVIOUS
<1> HIDE DEF c, b, z, ps, p, qs, h
<1>7. p \in Plain /\ Stands(b, z, qs) /\ Left(b, z, qs) \in Seq(Plain) /\ Left(b, z, ps) = <<p>> \o Left(b, z, qs)
  BY <1>1, <1>2, <1>4, <1>5, <1>6, LeftNext
<1>8. Saying(c, Left(b, z, ps)) = Said(c, p) \o Saying(c, Left(b, z, qs))
  BY <1>1, <1>6, <1>7, SayingFirst
<1>9. Said(c, p) \in Seq(Reports) /\ Saying(c, Left(b, z, qs)) \in Seq(Reports)
  BY <1>1, <1>7, SaidType, SayingType
<1>10. \A u, v, w \in Seq(Reports) : (u \o v) \o w = u \o (v \o w) /\ v \o w \in Seq(Reports)
  BY Assoc, Zenon
<1>11. (h \o Said(c, p)) \o Saying(c, Left(b, z, qs)) = due[c] /\ h \o Said(c, p) \in Seq(Reports)
  <2>1. (h \o Said(c, p)) \o Saying(c, Left(b, z, qs)) = h \o (Said(c, p) \o Saying(c, Left(b, z, qs)))
    BY <1>1, <1>9, <1>10, Zenon
  <2>2. h \o Said(c, p) \in Seq(Reports)
    BY <1>1, <1>9
  <2>. QED BY <1>2, <1>8, <2>1, <2>2, Zenon
<1>12. qs \in Seq(Nat)
  BY <1>7 DEF Stands
<1>. QED BY <1>7, <1>11, <1>12 DEF c, b, z, ps, p, qs, h

\* The loop goes on behind a packet that says nothing.
LEMMA SilentStep ==
  ASSUME Inv, NEW t \in Threads, serving[t] \in Conns, t \notin lent, Serves(t),
         pos[t][Len(pos[t])] \in 1 .. Len(Row(t)), Packet(t).kind \in {"other", "broken", "foreign"},
         Advance(t), context' \in [Threads -> Reports], \A u \in Threads : u # t => context'[u] = context[u],
         UNCHANGED <<reading, buffer, failed, serving, zlib, lent, due, heard>>
  PROVE  Inv'
<1> DEFINE c == serving[t]
           qs == [pos[t] EXCEPT ![Len(pos[t])] = @ + 1]
<1>1. Said(c, Packet(t)) = <<>>
  BY DEF Said
<1>2. /\ qs \in Seq(Nat) /\ Stands(buffer[c], zlib[t], qs)
      /\ (heard[c] \o Said(c, Packet(t))) \o Saying(c, Left(buffer[c], zlib[t], qs)) = due[c]
  BY Passing
<1>3. Typed /\ heard[c] \in Seq(Reports)
  BY DEF Inv, Typed
<1>4. heard[c] \o Said(c, Packet(t)) = heard[c]
  BY <1>1, <1>3
<1>5. pos' = [pos EXCEPT ![t] = qs] /\ pos'[t] = qs
  BY <1>3 DEF Advance, Typed
<1>6. Typed'
  BY <1>2, <1>3, <1>5 DEF Typed
<1>7. Frame(t, c)
  BY <1>3, <1>5 DEF Frame, SameThread, SameConn, Typed
<1>8. Serves(t)'
  <2> HIDE DEF qs
  <2>. QED BY <1>2, <1>4, <1>5 DEF Serves
<1>9. Turn(t, c)
  BY <1>8 DEF Turn
<1>. QED BY <1>6, <1>7, <1>9, Framed

\* A packet that is passed over says nothing.
LEMMA PassedOverStep == ASSUME Inv, NEW t \in Threads, passed_over(t) PROVE Inv'
<1>1. /\ serving[t] \in Conns /\ t \notin lent /\ Serves(t)
      /\ pos[t][Len(pos[t])] \in 1 .. Len(Row(t)) /\ Packet(t).kind = "other"
  BY AtIs DEF passed_over
<1>2. Advance(t) /\ UNCHANGED <<reading, buffer, failed, serving, zlib, context, lent, due, heard>>
  BY DEF passed_over
<1>3. context' \in [Threads -> Reports] /\ \A u \in Threads : u # t => context'[u] = context[u]
  BY <1>2 DEF Inv, Typed
<1>. QED BY <1>1, <1>2, <1>3, SilentStep

\* decompress_buffer: what was inside the packet is handled in its place.
LEMMA CompressedStep == ASSUME Inv, NEW t \in Threads, handle_compressed(t) PROVE Inv'
<1> DEFINE c == serving[t]
           b == buffer[c]
           z == zlib[t]
           ps == pos[t]
           p == Packet(t)
           qs == <<ps[1] + 1, 1>>
<1>1. /\ c \in Conns /\ t \notin lent /\ Serves(t) /\ b \in Seq(AnyPacket) /\ z \in Seq(Plain)
      /\ Row(t) = Ahead(b, z, ps) /\ ps[Len(ps)] \in 1 .. Len(Row(t)) /\ p.kind = "zip"
  BY AtIs DEF handle_compressed
<1>2. Typed
  BY DEF Inv
<1>3. Stands(b, z, ps) /\ reading[c] = "busy" /\ heard[c] \o Saying(c, Left(b, z, ps)) = due[c]
  BY <1>1 DEF Serves
<1>4. p = Ahead(b, z, ps)[ps[Len(ps)]]
  BY <1>1 DEF Packet, Last
<1>5. p.inside \in Seq(Plain) /\ Stands(b, p.inside, qs) /\ Left(b, p.inside, qs) = Left(b, z, ps)
  <2> HIDE DEF c, b, z, ps, p
  <2>1. StandsAt(b, z, ps, p)
    BY <1>1, <1>3, <1>4, Zenon DEF StandsAt
  <2>2. Unpacks(b, z, ps, p, <<ps[1] + 1, 1>>)
    BY <1>1, <2>1, LeftZip, Zenon
  <2>. QED BY <2>2, Zenon DEF Unpacks
<1>6. zlib' = [zlib EXCEPT ![t] = p.inside] /\ pos' = [pos EXCEPT ![t] = qs] /\ qs \in Seq(Nat)
  BY <1>5 DEF handle_compressed, decompress_buffer, Stands
<1>7. UNCHANGED <<reading, buffer, failed, serving, context, lent, due, heard>>
  BY DEF handle_compressed
<1> HIDE DEF p, qs
<1>8. Typed'
  BY <1>2, <1>5, <1>6, <1>7 DEF Typed
<1>9. Frame(t, c)
  BY <1>2, <1>6, <1>7 DEF Typed, Frame, SameThread, SameConn
<1>10. zlib'[t] = p.inside /\ pos'[t] = qs
  BY <1>2, <1>6 DEF Typed
<1>11. Serves(t)'
  BY <1>1, <1>3, <1>5, <1>7, <1>10 DEF Serves
<1>12. Turn(t, c)
  BY <1>7, <1>11 DEF Turn
<1>. QED BY <1>1, <1>8, <1>9, <1>12, Framed

\* The message of a packet is lent.
LEMMA LendStep ==
  ASSUME Inv, NEW t \in Threads, serving[t] \in Conns, Serves(t), NEW msg \in Reports,
         pos[t][Len(pos[t])] \in 1 .. Len(Row(t)), Packet(t).kind \in {"chat", "online"},
         Said(serving[t], Packet(t)) = <<msg>>, context' = Filled(t, msg), lent' = lent \cup {t},
         UNCHANGED <<reading, buffer, failed, pos, serving, zlib, due, heard>>
  PROVE  Inv'
<1>1. Typed /\ context' = [context EXCEPT ![t] = msg]
  BY DEF Inv, Filled
<1>2. Typed' /\ context'[t] = msg
  BY <1>1 DEF Typed
<1>3. Frame(t, serving[t])
  BY <1>1 DEF Typed, Frame, SameThread, SameConn
<1>4. Row(t) = Ahead(buffer[serving[t]], zlib[t], pos[t]) /\ Packet(t) = Row(t)[pos[t][Len(pos[t])]]
  BY DEF Row, Ahead, Packet, Last
<1>5. Tells(serving[t], buffer[serving[t]], zlib[t], pos[t], msg)
  BY <1>4 DEF Tells
<1>6. Serves(t)'
  BY <1>2, <1>5 DEF Serves
<1>7. Turn(t, serving[t])
  BY <1>6 DEF Turn
<1>. QED BY <1>2, <1>3, <1>7, Framed

\* serialize_buffer: the message of a chat packet is lent, any other says nothing.
LEMMA SerializeStep == ASSUME Inv, NEW t \in Threads, serialize_buffer(t) PROVE Inv'
<1> DEFINE c == serving[t]
           p == Packet(t)
           known == p.kind # "foreign"
           msg == [room |-> c, crc |-> p.body,
                   key |-> IF known THEN <<c, "chat">> ELSE context[t].key,
                   body |-> {} \cup IF known THEN {p.body} ELSE {}]
<1>1. /\ c \in Conns /\ t \notin lent /\ Serves(t)
      /\ pos[t][Len(pos[t])] \in 1 .. Len(Row(t)) /\ p.kind \in {"chat", "broken", "foreign"}
  BY AtIs DEF serialize_buffer
<1>2. Typed /\ context[t] \in Reports
  BY DEF Inv, Typed
<1>3. p \in Plain
  BY <1>1, Passing
<1>4. p.body \in Nat
  BY <1>3 DEF Plain
<1>5. msg \in Reports
  <2>1. context[t].key \in (Conns \X {"chat", "online"}) \cup {None}
    BY <1>2 DEF Reports
  <2>2. (IF known THEN <<c, "chat">> ELSE context[t].key) \in (Conns \X {"chat", "online"}) \cup {None}
    BY <1>1, <2>1
  <2>3. ({} \cup IF known THEN {p.body} ELSE {}) \in SUBSET Nat
    BY <1>4
  <2> HIDE DEF c, p, known
  <2>. QED BY <1>1, <1>4, <2>2, <2>3 DEF Reports
<1>6. context' = Filled(t, msg)
  BY DEF serialize_buffer, Cleared
<1>7. UNCHANGED <<reading, buffer, failed, serving, zlib, due, heard>>
  BY DEF serialize_buffer
<1>8. Here(t) = p.kind
  <2>1. Here(t) # "end"
    BY DEF serialize_buffer, At
  <2>. QED BY <2>1 DEF Here, Packet
<1>9. CASE p.kind = "chat"
  <2>1. lent' = lent \cup {t} /\ pos' = pos
    BY <1>8, <1>9 DEF serialize_buffer
  <2>2. Said(c, p) = <<msg>>
    <3>1. msg = [room |-> c, key |-> <<c, "chat">>, body |-> {p.body}, crc |-> p.body]
      BY <1>9
    <3>. QED BY <1>9, <3>1 DEF Said
  <2> HIDE DEF msg
  <2>. QED BY <1>1, <1>5, <1>6, <1>7, <1>9, <2>1, <2>2, LendStep
<1>10. CASE p.kind # "chat"
  <2>1. lent' = lent /\ Advance(t)
    BY <1>8, <1>10 DEF serialize_buffer
  <2>2. context' \in [Threads -> Reports] /\ \A u \in Threads : u # t => context'[u] = context[u]
    <3> HIDE DEF msg
    <3>. QED BY <1>2, <1>5, <1>6 DEF Filled, Typed
  <2>. QED BY <1>1, <1>7, <1>10, <2>1, <2>2, SilentStep
<1>. QED BY <1>9, <1>10

\* serialize_popularity: the message of the packet is lent.
LEMMA PopularityStep == ASSUME Inv, NEW t \in Threads, serialize_popularity(t) PROVE Inv'
<1> DEFINE c == serving[t]
           p == Packet(t)
           msg == [room |-> c, key |-> <<c, "online">>, body |-> {} \cup {p.body}, crc |-> 0]
<1>1. /\ c \in Conns /\ t \notin lent /\ Serves(t)
      /\ pos[t][Len(pos[t])] \in 1 .. Len(Row(t)) /\ p.kind = "online"
  BY AtIs DEF serialize_popularity
<1>2. p \in Plain
  BY <1>1, Passing
<1>3. p.body \in Nat
  BY <1>2 DEF Plain
<1>4. msg \in Reports
  BY <1>1, <1>3 DEF Reports
<1>5. context' = Filled(t, msg) /\ lent' = lent \cup {t} /\ UNCHANGED <<reading, buffer, failed, pos, serving, zlib, due, heard>>
  BY DEF serialize_popularity, Cleared, NoChecksum
<1>6. Said(c, p) = <<msg>>
  <2>1. msg = [room |-> c, key |-> <<c, "online">>, body |-> {p.body}, crc |-> 0]
    OBVIOUS
  <2>. QED BY <1>1, <2>1 DEF Said
<1> HIDE DEF msg
<1>. QED BY <1>1, <1>4, <1>5, <1>6, LendStep

\* on_room_data: what is copied is what the packet says.
LEMMA RoomDataStep == ASSUME Inv, NEW t \in Threads, on_room_data(t) PROVE Inv'
<1> DEFINE c == serving[t]
           p == Packet(t)
           qs == [pos[t] EXCEPT ![Len(pos[t])] = @ + 1]
<1>1. Typed /\ c \in Conns /\ Serves(t) /\ t \in lent
  <2>1. t \in lent
    BY DEF on_room_data
  <2>. QED BY <2>1 DEF Inv, Typed, Rests
<1>2. Tells(c, buffer[c], zlib[t], pos[t], context[t])
  BY <1>1 DEF Serves
<1>3. Row(t) = Ahead(buffer[c], zlib[t], pos[t]) /\ p = Row(t)[pos[t][Len(pos[t])]]
  BY DEF Row, Ahead, Packet, Last
<1>4. pos[t][Len(pos[t])] \in 1 .. Len(Row(t)) /\ p.kind \in {"chat", "online"} /\ Said(c, p) = <<context[t]>>
  BY <1>2, <1>3 DEF Tells
<1>5. /\ qs \in Seq(Nat) /\ Stands(buffer[c], zlib[t], qs)
      /\ heard[c] \o Said(c, p) \in Seq(Reports)
      /\ (heard[c] \o Said(c, p)) \o Saying(c, Left(buffer[c], zlib[t], qs)) = due[c]
  BY <1>1, <1>4, Passing
<1>6. Append(heard[c], context[t]) = heard[c] \o Said(c, p)
  <2>1. heard[c] \in Seq(Reports) /\ context[t] \in Reports
    BY <1>1 DEF Typed
  <2>. QED BY <1>4, <2>1
<1>7. /\ heard' = [heard EXCEPT ![c] = heard[c] \o Said(c, p)] /\ lent' = lent \ {t}
      /\ UNCHANGED <<reading, buffer, failed, serving, zlib, context, due>>
  BY <1>6 DEF on_room_data
<1>8. pos' = [pos EXCEPT ![t] = qs]
  BY <1>1 DEF on_room_data, Advance, Typed
<1> HIDE DEF qs, p
<1>9. Typed'
  BY <1>1, <1>5, <1>7, <1>8 DEF Typed
<1>10. Frame(t, c)
  BY <1>1, <1>7, <1>8 DEF Typed, Frame, SameThread, SameConn
<1>11. pos'[t] = qs /\ heard'[c] = heard[c] \o Said(c, p) /\ t \notin lent'
  BY <1>1, <1>7, <1>8 DEF Typed
<1>12. Serves(t)'
  BY <1>1, <1>5, <1>7, <1>11 DEF Serves
<1>13. Turn(t, c)
  BY <1>7, <1>12 DEF Turn
<1>. QED BY <1>1, <1>9, <1>10, <1>13, Framed

\* Nothing is due, and nobody serves, at the start.
LEMMA Initially == Init => Inv
<1> SUFFICES ASSUME Init PROVE Inv
  OBVIOUS
<1>1. Typed
  <2>1. [room |-> None, key |-> None, body |-> {}, crc |-> 0] \in Reports
    BY DEF Reports
  <2>. QED BY <2>1 DEF Init, Typed
<1>2. Alone
  BY DEF Init, Alone
<1>3. \A t \in Threads : serving[t] = None /\ Rests(t)
  BY DEF Init, Rests
<1>4. \A c \in Conns : Owed(c)
  BY DEF Init, Owed
<1>. QED BY <1>1, <1>2, <1>3, <1>4 DEF Inv

\* Every step keeps the invariant.
LEMMA Stepwise == Inv /\ [Next]_vars => Inv'
<1> SUFFICES ASSUME Inv, [Next]_vars PROVE Inv'
  OBVIOUS
<1>1. CASE UNCHANGED vars
  BY <1>1 DEF vars, Inv, Typed, Alone, Serves, Rests, Owed
<1>2. ASSUME NEW t \in Threads, HandlerStep(t) PROVE Inv'
  BY <1>2, ReturnStep, MalformedStep, PassedOverStep, CompressedStep, SerializeStep, PopularityStep, RoomDataStep
     DEF HandlerStep
<1>3. ASSUME NEW t \in Threads, NEW c \in Conns, on_receive(t, c) \/ on_receive_failed(t, c) PROVE Inv'
  BY <1>3, ReceiveStep, ReceiveFailedStep
<1>4. ASSUME NEW c \in Conns, on_receive_ended(c) PROVE Inv'
  BY <1>4, EndedStep
<1>. QED BY <1>1, <1>2, <1>3, <1>4 DEF Next

\* At any time, what was heard of each room and what its thread has still to
\* say add up to what its messages amount to.
THEOREM Invariant == Spec => []Inv
BY Initially, Stepwise, PTL DEF Spec

----------------------------------------------------------------------------
(* What follows.                                                           *)

\* One thread serves a connection while its handler is busy, none otherwise.
LEMMA OneServes ==
  ASSUME Inv, NEW c \in Conns
  PROVE  Cardinality({t \in Threads : serving[t] = c}) = (IF reading[c] = "busy" THEN 1 ELSE 0)
<1>1. c # None
  BY MessagesAssumption
<1>2. CASE reading[c] = "busy"
  <2>1. PICK t \in Threads : serving[t] = c
    BY <1>2 DEF Inv, Owed
  <2>2. {u \in Threads : serving[u] = c} = {t}
    BY <1>1, <2>1 DEF Inv, Alone
  <2>. QED BY <1>2, <2>2, FS_Singleton
<1>3. CASE reading[c] # "busy"
  <2>1. {u \in Threads : serving[u] = c} = {}
    BY <1>1, <1>3 DEF Inv, Serves
  <2>. QED BY <1>3, <2>1, FS_EmptySet
<1>. QED BY <1>2, <1>3

\* A thread is in at most two calls of handle_buffer, serves a connection
\* while it is in one, and a connection is served by one thread at most: the
\* next read starts only behind the handler of the last.
THEOREM TypeCorrect == Spec => []TypeOK
<1>1. Inv => TypeOK
  <2> SUFFICES ASSUME Inv PROVE TypeOK
    OBVIOUS
  <2>1. ASSUME NEW t \in Threads PROVE Len(pos[t]) <= 2 /\ (pos[t] = <<>> <=> serving[t] = None)
    <3>1. CASE serving[t] = None
      <4>1. pos[t] = <<>>
        BY <3>1 DEF Inv, Rests
      <4>. QED BY <3>1, <4>1
    <3>2. CASE serving[t] # None
      <4>1. Stands(buffer[serving[t]], zlib[t], pos[t])
        BY <3>2 DEF Inv, Serves
      <4>2. pos[t] \in Seq(Nat) /\ Len(pos[t]) \in {1, 2}
        BY <4>1 DEF Stands
      <4>3. ASSUME NEW n, n \in {1, 2} PROVE n # 0 /\ n <= 2
        BY <4>3
      <4>4. pos[t] # <<>> /\ Len(pos[t]) <= 2
        BY <4>2, <4>3
      <4>. QED BY <3>2, <4>4
    <3>. QED BY <3>1, <3>2
  <2>2. \A c \in Conns : Cardinality({t \in Threads : serving[t] = c}) = (IF reading[c] = "busy" THEN 1 ELSE 0)
    BY OneServes
  <2>. QED BY <2>1, <2>2 DEF TypeOK, Inv, Typed
<1>. QED BY <1>1, Invariant, PTL

\* However the threads take turns, what is heard of a room is what its
\* messages amount to, packet by packet, up to where its thread stands, and
\* all of it whenever no thread is at work for it.
THEOREM HeardIsSent == Spec => []HeardAsSent
<1>1. Inv => HeardAsSent
  <2> SUFFICES ASSUME Inv, NEW c \in Conns
               PROVE  IF reading[c] = "busy" THEN IsPrefix(heard[c], due[c]) ELSE heard[c] = due[c]
    BY DEF HeardAsSent
  <2>1. CASE reading[c] # "busy"
    BY <2>1 DEF Inv, Owed
  <2>2. CASE reading[c] = "busy"
    <3>1. PICK t \in Threads : serving[t] = c
      BY <2>2 DEF Inv, Owed
    <3>2. c # None
      BY MessagesAssumption
    <3> DEFINE left == Left(buffer[c], zlib[t], pos[t])
    <3>3. heard[c] \o Saying(c, left) = due[c] /\ Stands(buffer[c], zlib[t], pos[t])
      BY <3>1, <3>2 DEF Inv, Serves
    <3>4. heard[c] \in Seq(Reports) /\ buffer[c] \in Seq(AnyPacket) /\ zlib[t] \in Seq(Plain)
      BY DEF Inv, Typed
    <3>5. left \in Seq(Plain)
      BY <3>3, <3>4, LeftType, Zenon
    <3>6. Saying(c, left) \in Seq(Reports)
      BY <3>5, SayingType, Zenon
    <3> HIDE DEF left
    <3>7. \A x, y \in Seq(Reports) : IsPrefix(x, x \o y)
      BY DEF IsPrefix
    <3>. QED BY <2>2, <3>3, <3>4, <3>6, <3>7
  <2>. QED BY <2>1, <2>2
<1>. QED BY <1>1, Invariant, PTL
=============================================================================
