-------------------------- MODULE LeaseFileProofs --------------------------
(***************************************************************************)
(* GetDhcpClients reads the leased addresses of every lease file right,    *)
(* however long it is and wherever dhcpd is in the middle of it.           *)
(*                                                                         *)
(* The induction over the lines and the blocks of the file goes by least   *)
(* counterexamples: WFMin is about a set and not about a predicate.        *)
(***************************************************************************)
EXTENDS LeaseFile, SequenceTheorems, WellFoundedInduction, TLAPS

-----------------------------------------------------------------------------
(* Induction.                                                              *)

\* Every non-empty set of natural numbers has a least element.
LEMMA Least ==
    ASSUME NEW T \in SUBSET Nat, T # {}
    PROVE  \E n \in T : \A i \in T : n <= i
<1> DEFINE Less == {p \in Nat \X Nat : p[1] < p[2]}
<1>1. IsWellFoundedOn(Less, Nat)
  BY NatLessThanWellFounded, Zenon DEF OpToRel
<1> HIDE DEF Less
<1>2. PICK n \in T : \A i \in T : ~(<<i, n>> \in Less)
  BY <1>1, WFMin, Zenon
<1>3. \A i \in T : ~(i < n)
  BY <1>2 DEF Less
<1> QED BY <1>3

\* A set that holds 0 and, up to n, the successor of each of its members holds
\* every number up to n.
LEMMA UpTo ==
    ASSUME NEW n \in Nat, NEW S, 0 \in S,
           \A i \in 0 .. n : (i < n /\ i \in S) => i + 1 \in S
    PROVE  \A i \in 0 .. n : i \in S
<1> SUFFICES ASSUME NEW k \in 0 .. n, k \notin S PROVE FALSE
  OBVIOUS
<1> DEFINE Missing == {i \in 0 .. n : i \notin S}
<1>1. Missing \in SUBSET Nat /\ Missing # {}
  OBVIOUS
<1> HIDE DEF Missing
<1>2. PICK m \in Missing : \A i \in Missing : m <= i
  BY <1>1, Least
<1>3. m \in 0 .. n /\ m \notin S /\ m # 0
  BY <1>2 DEF Missing
<1>4. m - 1 \in 0 .. n /\ m - 1 < n /\ m - 1 \notin Missing
  BY <1>2, <1>3
<1>5. m - 1 \in S
  BY <1>4 DEF Missing
<1>6. (m - 1) + 1 \in S
  BY <1>4, <1>5
<1> QED BY <1>3, <1>6

\* The greatest element of a non-empty set of positions.
LEMMA Greatest ==
    ASSUME NEW n \in Nat, NEW I \in SUBSET (1 .. n), I # {}
    PROVE  Max(I) \in I /\ \A i \in I : i <= Max(I)
<1> DEFINE T == {n - i : i \in I}
<1>0. \A i \in I : n - i \in Nat
  OBVIOUS
<1>1. T \in SUBSET Nat /\ T # {}
  BY <1>0
<1>2. PICK d \in T : \A e \in T : d <= e
  BY <1>1, Least
<1>3. PICK m \in I : d = n - m
  BY <1>2
<1>4. \A i \in I : n - m <= n - i
  BY <1>2, <1>3
<1>5. \A i \in I : m >= i
  BY <1>4
<1>6. \E x \in I : \A y \in I : x >= y
  BY <1>5
<1>7. Max(I) \in I /\ \A y \in I : Max(I) >= y
  BY <1>6 DEF Max
<1> QED BY <1>7

-----------------------------------------------------------------------------
(* The lines of a block.                                                   *)

Whole == {Absent, "free"} \cup {b.ip : b \in Blocks} \cup {b.mac : b \in Blocks}
            \cup {b.state : b \in Blocks}
Values == Whole \cup UNION {Cut[v] : v \in Whole}
Lines == [kind : {"lease", "starts", "state", "hardware", "end"}, val : Values]

\* A block begins with its address and ends with a brace; between them is its
\* hardware address, if it has one, and no other.
Shape(bl, b) ==
    /\ bl \in Seq(Lines)
    /\ Len(bl) \in Nat /\ Len(bl) >= 2
    /\ bl[1] = Line("lease", b.ip)
    /\ bl[Len(bl)] = Line("end", Absent)
    /\ \A i \in 1 .. Len(bl) : bl[i].val \in Whole
    /\ \A i \in 2 .. Len(bl) - 1 :
         /\ bl[i].kind \in {"starts", "state", "hardware"}
         /\ bl[i].kind = "hardware" => bl[i].val = b.mac
    /\ b.mac # Empty => \E i \in 2 .. Len(bl) - 1 : bl[i].kind = "hardware"

LEMMA BlockShape ==
    ASSUME NEW b \in Blocks
    PROVE  Shape(BlockLines(b), b)
<1> DEFINE l1 == Line("lease", b.ip)
           l2 == Line("starts", Absent)
           l3 == Line("state", b.state)
           l4 == Line("state", "free")
           l5 == Line("hardware", b.mac)
           l6 == Line("end", Absent)
           a == IF b.state = "active" THEN <<l4>> ELSE <<>>
           h == IF b.mac = Empty THEN <<>> ELSE <<l5>>
           s1 == <<l1, l2, l3>> \o a
           s2 == s1 \o h
           s3 == s2 \o <<l6>>
<1>1. /\ l1 \in Lines /\ l2 \in Lines /\ l3 \in Lines /\ l4 \in Lines
      /\ l5 \in Lines /\ l6 \in Lines
  <2>1. /\ Absent \in Values /\ "free" \in Values /\ b.ip \in Values
        /\ b.mac \in Values /\ b.state \in Values
    BY DEF Values, Whole
  <2>2. \A k \in {"lease", "starts", "state", "hardware", "end"}, v \in Values :
          Line(k, v) \in Lines
    BY DEF Line, Lines
  <2> QED BY <2>1, <2>2, Zenon
<1>2. /\ l1.kind = "lease" /\ l2.kind = "starts" /\ l3.kind = "state"
      /\ l4.kind = "state" /\ l5.kind = "hardware" /\ l6.kind = "end"
      /\ l5.val = b.mac
      /\ \A l \in {l1, l2, l3, l4, l5, l6} : l.val \in Whole
  BY DEF Line, Whole
<1> HIDE DEF l1, l2, l3, l4, l5, l6
<1>3. /\ <<l1, l2, l3>> \in Seq(Lines) /\ a \in Seq(Lines) /\ h \in Seq(Lines)
      /\ <<l6>> \in Seq(Lines)
  BY <1>1
<1>4. /\ s1 \in Seq(Lines) /\ Len(s1) = 3 + Len(a)
      /\ s1[1] = l1 /\ s1[2] = l2 /\ s1[3] = l3
      /\ \A i \in 4 .. Len(s1) : s1[i] = l4
  BY <1>3, ConcatProperties
<1>5. Len(a) \in {0, 1} /\ Len(h) \in {0, 1} /\ (b.mac # Empty => Len(h) = 1)
  OBVIOUS
<1> HIDE DEF a, s1
<1>6. /\ s2 \in Seq(Lines) /\ Len(s2) = Len(s1) + Len(h)
      /\ \A i \in 1 .. Len(s1) : s2[i] = s1[i]
      /\ \A i \in Len(s1) + 1 .. Len(s2) : s2[i] = l5
  BY <1>3, <1>4, <1>5, ConcatProperties
<1> HIDE DEF h, s2
<1>7. /\ s3 \in Seq(Lines) /\ Len(s3) = Len(s2) + 1
      /\ \A i \in 1 .. Len(s2) : s3[i] = s2[i]
      /\ s3[Len(s3)] = l6
  <2>1. Len(<<l6>>) = 1 /\ <<l6>>[1] = l6 /\ Len(s2) \in Nat
    BY <1>6
  <2>2. /\ s3 \in Seq(Lines) /\ Len(s3) = Len(s2) + 1
        /\ \A i \in 1 .. Len(s2) + Len(<<l6>>) :
             s3[i] = IF i <= Len(s2) THEN s2[i] ELSE <<l6>>[i - Len(s2)]
    <3>1. s2 \in Seq(Lines) /\ <<l6>> \in Seq(Lines)
      BY <1>3, <1>6
    <3> QED BY <3>1, <2>1, ConcatProperties, Zenon
  <2>3. s3[Len(s2) + 1] = <<l6>>[(Len(s2) + 1) - Len(s2)]
    BY <2>1, <2>2
  <2> QED BY <2>1, <2>2, <2>3
<1> HIDE DEF s3
<1>8. /\ Len(s3) \in Nat /\ Len(s3) >= 2
      /\ s3[1] = l1
  BY <1>4, <1>5, <1>6, <1>7
<1>9. ASSUME NEW i \in 2 .. Len(s3) - 1
      PROVE  s3[i] \in {l2, l3, l4, l5}
  <2>1. i \in 1 .. Len(s2) /\ s3[i] = s2[i]
    BY <1>4, <1>5, <1>6, <1>7
  <2>2. CASE i > Len(s1)
    BY <1>4, <1>5, <1>6, <2>1, <2>2
  <2>3. CASE i <= Len(s1)
    BY <1>4, <1>5, <1>6, <2>1, <2>3
  <2> QED BY <1>4, <1>5, <2>2, <2>3
<1>10. ASSUME b.mac # Empty
       PROVE  \E i \in 2 .. Len(s3) - 1 : s3[i] = l5
  <2>0. Len(s1) \in Nat /\ Len(s2) = Len(s1) + 1
    <3>1. Len(h) = 1
      BY <1>5, <1>10
    <3>2. Len(s2) = Len(s1) + 1
      BY <1>6, <3>1
    <3>3. Len(s1) \in Nat
      BY <1>4, LenProperties
    <3> QED BY <3>2, <3>3
  <2>1. Len(s2) \in Len(s1) + 1 .. Len(s2) /\ s2[Len(s2)] = l5
    BY <1>6, <2>0
  <2>2. s3[Len(s2)] = l5 /\ Len(s2) \in 2 .. Len(s3) - 1
    BY <1>4, <1>5, <1>7, <2>0, <2>1
  <2> QED BY <2>2
<1>11. BlockLines(b) = s3
  BY DEF BlockLines, s3, s2, s1, a, h, l1, l2, l3, l4, l5, l6
<1>12. ASSUME NEW i \in 1 .. Len(s3) PROVE s3[i].val \in Whole
  <2>1. s3[i] \in {l1, l2, l3, l4, l5, l6}
    BY <1>7, <1>8, <1>9
  <2> QED BY <1>2, <2>1
<1> QED BY <1>2, <1>7, <1>8, <1>9, <1>10, <1>11, <1>12 DEF Shape, l1, l6

-----------------------------------------------------------------------------
(* One turn of the loop.                                                   *)

Acc(cs, c) == [clients |-> cs, cur |-> c]

\* The first line of a block makes a new client.
LEMMA ParseFirst ==
    ASSUME NEW b \in Blocks, NEW cs
    PROVE  /\ ParseLine(Acc(cs, Absent), Line("lease", b.ip)) = Acc(cs, NewClient(b.ip))
           /\ NewClient(b.ip) \in ClientInfo
           /\ NewClient(b.ip).ip = b.ip /\ NewClient(b.ip).mac = Empty
BY DEF ParseLine, Acc, Line, NewClient, ClientInfo

\* A line inside a block changes the client in hand at most.
LEMMA ParseInside ==
    ASSUME NEW cs, NEW c \in ClientInfo, NEW line,
           line.kind \in {"starts", "state", "hardware"},
           line.kind = "hardware" =>
             line.val \in UNION {{Empty, b.mac} \cup Cut[b.mac] : b \in Blocks}
    PROVE  \E d \in ClientInfo :
             /\ ParseLine(Acc(cs, c), line) = Acc(cs, d)
             /\ d.ip = c.ip
             /\ d.mac = IF line.kind = "hardware" THEN line.val ELSE c.mac
<1>0. c # Absent
  BY LeaseFileAssumption
<1>1. CASE line.kind = "starts"
  <2>1. ParseLine(Acc(cs, c), line) = Acc(cs, c)
    BY <1>0, <1>1 DEF ParseLine, Acc
  <2> QED BY <1>1, <2>1
<1>2. CASE line.kind = "state"
  <2> DEFINE d == [c EXCEPT !.active = (line.val = "active")]
  <2>1. ParseLine(Acc(cs, c), line) = Acc(cs, d)
    BY <1>0, <1>2 DEF ParseLine, Acc
  <2>2. (line.val = "active") \in BOOLEAN
    BY Zenon
  <2>3. d \in ClientInfo /\ d.ip = c.ip /\ d.mac = c.mac
    <3> DEFINE x == (line.val = "active")
    <3> HIDE DEF x
    <3>1. x \in BOOLEAN => /\ [c EXCEPT !.active = x] \in ClientInfo
                           /\ [c EXCEPT !.active = x].ip = c.ip
                           /\ [c EXCEPT !.active = x].mac = c.mac
      BY DEF ClientInfo
    <3> QED BY <2>2, <3>1, Zenon DEF x
  <2> HIDE DEF d
  <2> QED BY <1>2, <2>1, <2>3
<1>3. CASE line.kind = "hardware"
  <2> DEFINE d == [c EXCEPT !.mac = line.val]
  <2>1. ParseLine(Acc(cs, c), line) = Acc(cs, d)
    BY <1>0, <1>3 DEF ParseLine, Acc
  <2>2. d \in ClientInfo /\ d.ip = c.ip /\ d.mac = line.val
    BY <1>3 DEF ClientInfo
  <2> HIDE DEF d
  <2> QED BY <1>3, <2>1, <2>2
<1> QED BY <1>1, <1>2, <1>3

\* The last line of a block stores the client in hand.
LEMMA ParseLast ==
    ASSUME NEW cs, NEW c \in ClientInfo
    PROVE  ParseLine(Acc(cs, c), Line("end", Absent)) = Acc(Append(cs, c), Absent)
<1>0. c # Absent
  BY LeaseFileAssumption
<1> QED BY <1>0 DEF ParseLine, Acc, Line

-----------------------------------------------------------------------------
(* The loop.                                                               *)

\* The first k turns, f standing for the turns themselves.
Turns(f, lines, k) ==
    [i \in 0 .. k |-> IF i = 0 THEN Acc(<<>>, Absent)
                      ELSE ParseLine(f[i - 1], lines[i])]

\* Scan is defined: its equation has a solution.
LEMMA ScanEquation ==
    ASSUME NEW lines \in Seq(Lines)
    PROVE  Scan(lines) = Turns(Scan(lines), lines, Len(lines))
<1> DEFINE n == Len(lines)
           S == {k \in Nat : \E f : f = Turns(f, lines, k)}
<1>1. n \in Nat
  BY LenProperties
<1>2. 0 \in S
  <2> DEFINE f == [i \in 0 .. 0 |-> Acc(<<>>, Absent)]
  <2>1. f = Turns(f, lines, 0)
    BY DEF Turns
  <2> QED BY <2>1
<1>3. ASSUME NEW k \in 0 .. n, k < n, k \in S
      PROVE  k + 1 \in S
  <2>1. PICK f : f = Turns(f, lines, k)
    BY <1>3
  <2> DEFINE g == [i \in 0 .. k + 1 |->
                     IF i = 0 THEN Acc(<<>>, Absent) ELSE ParseLine(f[i - 1], lines[i])]
  <2>2. \A i \in 0 .. k : g[i] = f[i]
    <3>1. \A i \in 0 .. k : f[i] = IF i = 0 THEN Acc(<<>>, Absent)
                                   ELSE ParseLine(f[i - 1], lines[i])
      BY <2>1, Zenon DEF Turns
    <3> QED BY <3>1
  <2>3. \A i \in 0 .. k + 1 :
          g[i] = IF i = 0 THEN Acc(<<>>, Absent) ELSE ParseLine(g[i - 1], lines[i])
    <3> TAKE i \in 0 .. k + 1
    <3>1. i # 0 => i - 1 \in 0 .. k
      OBVIOUS
    <3>2. i # 0 => g[i - 1] = f[i - 1]
      BY <2>2, <3>1
    <3> QED BY <3>2
  <2>4. g = Turns(g, lines, k + 1)
    <3> DEFINE G == [i \in 0 .. k + 1 |->
                       IF i = 0 THEN Acc(<<>>, Absent) ELSE ParseLine(g[i - 1], lines[i])]
    <3>1. \A i \in 0 .. k + 1 : g[i] = G[i]
      BY <2>3
    <3>2. g = G
      BY <3>1
    <3> HIDE DEF g
    <3> QED BY <3>2 DEF Turns
  <2> HIDE DEF g
  <2> QED BY <2>4
<1> HIDE DEF S, n
<1>4. \A i \in 0 .. n : i \in S
  BY <1>1, <1>2, <1>3, UpTo
<1>5. \E f : f = Turns(f, lines, n)
  BY <1>1, <1>4 DEF S
<1>6. Scan(lines) = CHOOSE f : f = Turns(f, lines, n)
  BY DEF Scan, Turns, Acc, n
<1> QED BY <1>5, <1>6 DEF n

\* What Scan computes, line by line.
LEMMA ScanTurns ==
    ASSUME NEW lines \in Seq(Lines)
    PROVE  /\ Len(lines) \in Nat
           /\ Scan(lines)[0] = Acc(<<>>, Absent)
           /\ \A i \in 1 .. Len(lines) :
                Scan(lines)[i] = ParseLine(Scan(lines)[i - 1], lines[i])
<1> DEFINE n == Len(lines)
           f == Scan(lines)
<1>1. n \in Nat
  BY LenProperties
<1>2. f = Turns(f, lines, n)
  BY ScanEquation
<1> HIDE DEF f, n
<1>3. \A i \in 0 .. n : f[i] = IF i = 0 THEN Acc(<<>>, Absent)
                               ELSE ParseLine(f[i - 1], lines[i])
  BY <1>2, Zenon DEF Turns
<1>4. f[0] = Acc(<<>>, Absent) /\ \A i \in 1 .. n : f[i] = ParseLine(f[i - 1], lines[i])
  BY <1>1, <1>3
<1> QED BY <1>1, <1>4 DEF f, n

\* A longer file is read like its first lines, as far as they go.
LEMMA ScanPrefix ==
    ASSUME NEW s \in Seq(Lines), NEW u \in Seq(Lines), Len(s) <= Len(u),
           \A i \in 1 .. Len(s) : u[i] = s[i]
    PROVE  \A i \in 0 .. Len(s) : Scan(u)[i] = Scan(s)[i]
<1> DEFINE S == {i \in Nat : Scan(u)[i] = Scan(s)[i]}
<1>1. /\ Len(s) \in Nat /\ Len(u) \in Nat
      /\ Scan(s)[0] = Scan(u)[0]
      /\ \A i \in 1 .. Len(s) : Scan(s)[i] = ParseLine(Scan(s)[i - 1], s[i])
      /\ \A i \in 1 .. Len(u) : Scan(u)[i] = ParseLine(Scan(u)[i - 1], u[i])
  BY ScanTurns
<1>2. 0 \in S
  BY <1>1
<1>3. ASSUME NEW i \in 0 .. Len(s), i < Len(s), i \in S
      PROVE  i + 1 \in S
  <2>1. i + 1 \in 1 .. Len(s) /\ i + 1 \in 1 .. Len(u) /\ (i + 1) - 1 = i
    BY <1>1, <1>3
  <2>2. Scan(s)[i + 1] = ParseLine(Scan(s)[i], s[i + 1])
    BY <1>1, <2>1
  <2>3. Scan(u)[i + 1] = ParseLine(Scan(u)[i], u[i + 1])
    BY <1>1, <2>1
  <2>4. Scan(u)[i + 1] = Scan(s)[i + 1]
    BY <1>3, <2>1, <2>2, <2>3
  <2> QED BY <2>1, <2>4
<1> HIDE DEF S
<1>4. \A i \in 0 .. Len(s) : i \in S
  BY <1>1, <1>2, <1>3, UpTo
<1> QED BY <1>4 DEF S

-----------------------------------------------------------------------------
(* Blocks.                                                                 *)

Final(lines) == Scan(lines)[Len(lines)]

\* After complete blocks, the first lines of another one have made a client of
\* its address, with its hardware address or none yet.
LEMMA PartOfBlock ==
    ASSUME NEW s \in Seq(Lines), NEW cs, Final(s) = Acc(cs, Absent),
           NEW b \in Blocks, NEW k \in Nat, 0 < k, k < Len(BlockLines(b))
    PROVE  \E c \in ClientInfo :
             /\ Scan(s \o BlockLines(b))[Len(s) + k] = Acc(cs, c)
             /\ c.ip = b.ip
             /\ c.mac \in {b.mac, Empty}
             /\ (\E i \in 2 .. k : BlockLines(b)[i].kind = "hardware") => c.mac = b.mac
<1> DEFINE bl == BlockLines(b)
           u == s \o bl
           n == Len(s)
           P(j, c) == /\ Scan(u)[n + j] = Acc(cs, c)
                      /\ c.ip = b.ip
                      /\ c.mac \in {b.mac, Empty}
                      /\ (\E i \in 2 .. j : bl[i].kind = "hardware") => c.mac = b.mac
           \* a position in the block, counted from its second line
           S == {j \in Nat : \E c \in ClientInfo : P(j + 1, c)}
           last == Len(bl) - 2
<1>1. Shape(bl, b)
  BY BlockShape
<1>2. bl \in Seq(Lines) /\ Len(bl) \in Nat /\ Len(bl) >= 2 /\ last \in Nat
  BY <1>1 DEF Shape
<1> HIDE DEF bl
<1>3. /\ u \in Seq(Lines) /\ n \in Nat /\ Len(u) = n + Len(bl)
      /\ \A i \in 1 .. n + Len(bl) : u[i] = IF i <= n THEN s[i] ELSE bl[i - n]
  BY <1>2, ConcatProperties, LenProperties
<1> HIDE DEF u
<1>4. Scan(u)[n] = Acc(cs, Absent)
  <2>1. \A i \in 1 .. n : u[i] = s[i]
    BY <1>2, <1>3
  <2>2. n <= Len(u) /\ n \in 0 .. n
    BY <1>2, <1>3
  <2>3. \A i \in 0 .. n : Scan(u)[i] = Scan(s)[i]
    BY <1>3, <2>1, <2>2, ScanPrefix
  <2> QED BY <2>2, <2>3 DEF Final
<1>5. \A j \in 1 .. Len(bl) : Scan(u)[n + j] = ParseLine(Scan(u)[n + j - 1], bl[j])
  <2> TAKE j \in 1 .. Len(bl)
  <2>1. n + j \in 1 .. Len(u) /\ ~(n + j <= n) /\ (n + j) - n = j
    BY <1>2, <1>3
  <2>2. Scan(u)[n + j] = ParseLine(Scan(u)[(n + j) - 1], u[n + j])
    BY <1>3, <2>1, ScanTurns
  <2>3. u[n + j] = bl[j]
    BY <1>3, <2>1
  <2> QED BY <2>2, <2>3
<1> HIDE DEF n
<1>6. 0 \in S
  <2>1. Scan(u)[n + 1] = Acc(cs, NewClient(b.ip))
    <3>1. 1 \in 1 .. Len(bl) /\ n + 1 - 1 = n
      BY <1>2, <1>3
    <3>2. Scan(u)[n + 1] = ParseLine(Scan(u)[n], bl[1])
      BY <1>5, <3>1
    <3> QED BY <1>1, <1>4, <3>2, ParseFirst DEF Shape
  <2>2. P(1, NewClient(b.ip)) /\ NewClient(b.ip) \in ClientInfo
    BY <2>1, ParseFirst
  <2>3. P(0 + 1, NewClient(b.ip))
    BY <2>2
  <2> HIDE DEF P
  <2> QED BY <2>2, <2>3
<1>7. ASSUME NEW j \in 0 .. last, j < last, j \in S
      PROVE  j + 1 \in S
  <2>1. PICK c \in ClientInfo : P(j + 1, c)
    BY <1>7
  <2> DEFINE line == bl[j + 2]
  <2>2. /\ j \in Nat /\ j + 2 \in 2 .. Len(bl) - 1 /\ j + 2 \in 1 .. Len(bl)
        /\ n + (j + 2) - 1 = n + (j + 1)
    BY <1>2, <1>3, <1>7
  <2>3. Scan(u)[n + (j + 2)] = ParseLine(Acc(cs, c), line)
    BY <1>5, <2>1, <2>2
  <2>4. /\ line.kind \in {"starts", "state", "hardware"}
        /\ line.kind = "hardware" => line.val = b.mac
    BY <1>1, <2>2 DEF Shape
  <2>5. PICK d \in ClientInfo :
             /\ ParseLine(Acc(cs, c), line) = Acc(cs, d)
             /\ d.ip = c.ip
             /\ d.mac = IF line.kind = "hardware" THEN b.mac ELSE c.mac
    BY <2>4, ParseInside
  <2>6. (\E i \in 2 .. j + 2 : bl[i].kind = "hardware") =>
           (line.kind = "hardware" \/ \E i \in 2 .. j + 1 : bl[i].kind = "hardware")
    BY <2>2
  <2>7. P(j + 2, d)
    BY <2>1, <2>3, <2>5, <2>6
  <2>8. (j + 1) + 1 = j + 2 /\ j + 1 \in Nat
    BY <2>2
  <2> HIDE DEF P
  <2>9. P((j + 1) + 1, d)
    BY <2>7, <2>8
  <2> QED BY <2>8, <2>9
<1>8. \A j \in 0 .. last : j \in S
  <2> HIDE DEF S
  <2> QED BY <1>2, <1>6, <1>7, UpTo
<1>9. k - 1 \in S /\ (k - 1) + 1 = k
  <2> HIDE DEF S
  <2>1. k - 1 \in 0 .. last
    BY <1>2 DEF bl
  <2> QED BY <1>8, <2>1
<1>10. \E c \in ClientInfo : P(k, c)
  <2> HIDE DEF P
  <2> QED BY <1>9
<1> QED BY <1>10 DEF n, u, bl

\* A complete block adds its client.
LEMMA WholeBlock ==
    ASSUME NEW s \in Seq(Lines), NEW cs, Final(s) = Acc(cs, Absent), NEW b \in Blocks
    PROVE  \E c \in ClientInfo :
             /\ Final(s \o BlockLines(b)) = Acc(Append(cs, c), Absent)
             /\ c.ip = b.ip
             /\ c.mac = b.mac
<1> DEFINE bl == BlockLines(b)
           u == s \o bl
           n == Len(s)
           k == Len(bl) - 1
<1>1. Shape(bl, b)
  BY BlockShape
<1>2. bl \in Seq(Lines) /\ Len(bl) \in Nat /\ Len(bl) >= 2
  BY <1>1 DEF Shape
<1>3. k \in Nat /\ 0 < k /\ k < Len(bl)
  BY <1>2
<1> HIDE DEF bl
<1>4. /\ u \in Seq(Lines) /\ n \in Nat /\ Len(u) = n + Len(bl)
      /\ \A i \in 1 .. n + Len(bl) : u[i] = IF i <= n THEN s[i] ELSE bl[i - n]
  BY <1>2, ConcatProperties, LenProperties
<1>5. PICK c \in ClientInfo :
             /\ Scan(u)[n + k] = Acc(cs, c)
             /\ c.ip = b.ip
             /\ c.mac \in {b.mac, Empty}
             /\ (\E i \in 2 .. k : bl[i].kind = "hardware") => c.mac = b.mac
  <2> HIDE DEF k
  <2> QED BY <1>3, PartOfBlock DEF bl
<1> HIDE DEF u, n
<1>6. c.mac = b.mac
  BY <1>1, <1>5 DEF Shape
<1>7. Scan(u)[Len(u)] = ParseLine(Scan(u)[n + k], bl[Len(bl)])
  <2>1. Len(u) \in 1 .. Len(u) /\ Len(u) - 1 = n + k
    BY <1>2, <1>4
  <2>2. Scan(u)[Len(u)] = ParseLine(Scan(u)[n + k], u[Len(u)])
    BY <1>4, <2>1, ScanTurns
  <2>3. Len(u) \in 1 .. n + Len(bl) /\ ~(Len(u) <= n) /\ Len(u) - n = Len(bl)
    BY <1>2, <1>4
  <2>4. u[Len(u)] = bl[Len(bl)]
    BY <1>4, <2>3
  <2> QED BY <2>2, <2>4
<1>8. Scan(u)[Len(u)] = Acc(Append(cs, c), Absent)
  BY <1>1, <1>5, <1>7, ParseLast DEF Shape
<1> QED BY <1>5, <1>6, <1>8 DEF Final, u, bl

\* The clients of complete blocks.
Matches(cs, blocks, k) ==
    /\ cs \in Seq(ClientInfo)
    /\ Len(cs) = k
    /\ \A i \in 1 .. k : cs[i].ip = blocks[i].ip /\ cs[i].mac = blocks[i].mac

\* One more block.
LEMMA NextBlock ==
    ASSUME NEW blocks \in Seq(Blocks), NEW k \in Nat, k < Len(blocks),
           NEW s \in Seq(Lines), NEW cs,
           Final(s) = Acc(cs, Absent), Matches(cs, blocks, k)
    PROVE  /\ s \o BlockLines(blocks[k + 1]) \in Seq(Lines)
           /\ \E ds : /\ Final(s \o BlockLines(blocks[k + 1])) = Acc(ds, Absent)
                      /\ Matches(ds, blocks, k + 1)
<1> DEFINE b == blocks[k + 1]
<1>1. b \in Blocks
  <2>1. Len(blocks) \in Nat
    BY LenProperties
  <2>2. k + 1 \in 1 .. Len(blocks)
    BY <2>1
  <2> QED BY <2>2, ElementOfSeq
<1> HIDE DEF b
<1>2. s \o BlockLines(b) \in Seq(Lines)
  BY <1>1, BlockShape, ConcatProperties DEF Shape
<1>3. PICK c \in ClientInfo :
             /\ Final(s \o BlockLines(b)) = Acc(Append(cs, c), Absent)
             /\ c.ip = b.ip
             /\ c.mac = b.mac
  BY <1>1, WholeBlock
<1>4. Matches(Append(cs, c), blocks, k + 1)
  <2>1. /\ Append(cs, c) \in Seq(ClientInfo)
        /\ Len(Append(cs, c)) = k + 1
        /\ \A i \in 1 .. k : Append(cs, c)[i] = cs[i]
        /\ Append(cs, c)[k + 1] = c
    BY DEF Matches
  <2>2. \A i \in 1 .. k + 1 : i \in 1 .. k \/ i = k + 1
    OBVIOUS
  <2> QED BY <1>3, <2>1, <2>2 DEF Matches, b
<1> QED BY <1>2, <1>3, <1>4 DEF b

-----------------------------------------------------------------------------
(* Files.                                                                  *)

\* The blocks 1 to k one after the other, f standing for the result.
Flat(f, ls, k) ==
    [i \in 1 .. k |-> IF i = 1 THEN ls[i] ELSE f[i - 1] \o ls[i]]

\* FlattenSeq is defined: its equation has a solution.
LEMMA FlattenEquation ==
    ASSUME NEW ls, NEW n \in Nat, n # 0, Len(ls) = n
    PROVE  \E f : f = Flat(f, ls, n) /\ FlattenSeq(ls) = f[n]
<1> DEFINE S == {k \in Nat : \E f : f = Flat(f, ls, k)}
<1>1. 0 \in S
  <2> DEFINE f == [i \in 1 .. 0 |-> ls]
  <2>1. f = Flat(f, ls, 0)
    BY DEF Flat
  <2> QED BY <2>1
<1>2. ASSUME NEW k \in 0 .. n, k < n, k \in S
      PROVE  k + 1 \in S
  <2>1. PICK f : f = Flat(f, ls, k)
    BY <1>2
  <2> DEFINE g == [i \in 1 .. k + 1 |-> IF i = 1 THEN ls[i] ELSE f[i - 1] \o ls[i]]
  <2>2. \A i \in 1 .. k : g[i] = f[i]
    <3>1. \A i \in 1 .. k : f[i] = IF i = 1 THEN ls[i] ELSE f[i - 1] \o ls[i]
      BY <2>1, Zenon DEF Flat
    <3> QED BY <3>1
  <2>3. \A i \in 1 .. k + 1 : g[i] = IF i = 1 THEN ls[i] ELSE g[i - 1] \o ls[i]
    <3> TAKE i \in 1 .. k + 1
    <3>1. i # 1 => i - 1 \in 1 .. k
      OBVIOUS
    <3>2. i # 1 => g[i - 1] = f[i - 1]
      BY <2>2, <3>1
    <3> QED BY <3>2
  <2>4. g = Flat(g, ls, k + 1)
    <3> DEFINE G == [i \in 1 .. k + 1 |-> IF i = 1 THEN ls[i] ELSE g[i - 1] \o ls[i]]
    <3>1. \A i \in 1 .. k + 1 : g[i] = G[i]
      BY <2>3
    <3>2. g = G
      BY <3>1
    <3> HIDE DEF g
    <3> QED BY <3>2 DEF Flat
  <2> HIDE DEF g
  <2> QED BY <2>4
<1> HIDE DEF S
<1>3. \A k \in 0 .. n : k \in S
  BY <1>1, <1>2, UpTo
<1>4. \E f : f = Flat(f, ls, n)
  BY <1>3 DEF S
<1> DEFINE F == CHOOSE f : f = Flat(f, ls, Len(ls))
<1>5. F = Flat(F, ls, n)
  BY <1>4
<1>6. FlattenSeq(ls) = F[n]
  BY DEF FlattenSeq, Flat
<1> QED BY <1>5, <1>6

\* Complete blocks are read one by one.
LEMMA BlocksRead ==
    ASSUME NEW blocks \in Seq(Blocks)
    PROVE  LET s == FlattenSeq([i \in DOMAIN blocks |-> BlockLines(blocks[i])])
           IN  /\ s \in Seq(Lines)
               /\ \E cs : /\ Final(s) = Acc(cs, Absent)
                          /\ Matches(cs, blocks, Len(blocks))
<1> DEFINE n == Len(blocks)
           ls == [i \in DOMAIN blocks |-> BlockLines(blocks[i])]
           Reads(s, k) == /\ s \in Seq(Lines)
                          /\ \E cs : Final(s) = Acc(cs, Absent) /\ Matches(cs, blocks, k)
<1> SUFFICES Reads(FlattenSeq(ls), n)
  OBVIOUS
<1>1. n \in Nat /\ DOMAIN blocks = 1 .. n
  BY LenProperties
<1>2. \A i \in 1 .. n : blocks[i] \in Blocks /\ ls[i] = BlockLines(blocks[i])
  BY <1>1, ElementOfSeq
<1>3. ls \in Seq(Seq(Lines)) /\ Len(ls) = n
  <2>1. ls \in [1 .. n -> Seq(Lines)]
    BY <1>1, <1>2, BlockShape DEF Shape
  <2> QED BY <1>1, <2>1, SeqDef
<1>4. Reads(<<>>, 0)
  <2>1. <<>> \in Seq(Lines) /\ Len(<<>>) = 0 /\ <<>> \in Seq(ClientInfo)
    OBVIOUS
  <2>2. Final(<<>>) = Acc(<<>>, Absent)
    BY <2>1, ScanTurns DEF Final
  <2>3. Matches(<<>>, blocks, 0)
    BY <2>1 DEF Matches
  <2> QED BY <2>1, <2>2, <2>3
<1>5. ASSUME NEW s, NEW k \in Nat, k < n, Reads(s, k)
      PROVE  Reads(s \o ls[k + 1], k + 1)
  <2>1. ls[k + 1] = BlockLines(blocks[k + 1])
    BY <1>1, <1>2, <1>5
  <2>2. PICK cs : Final(s) = Acc(cs, Absent) /\ Matches(cs, blocks, k)
    BY <1>5
  <2> QED BY <1>5, <2>1, <2>2, NextBlock
<1> HIDE DEF Reads
<1>6. CASE n = 0
  <2>1. ls = <<>>
    BY <1>3, <1>6, EmptySeq
  <2>2. FlattenSeq(ls) = <<>>
    BY <1>3, <1>6, <2>1 DEF FlattenSeq
  <2> QED BY <1>4, <1>6, <2>2
<1>7. CASE n # 0
  <2> HIDE DEF ls, n
  <2>1. PICK f : f = Flat(f, ls, n) /\ FlattenSeq(ls) = f[n]
    BY <1>1, <1>3, <1>7, FlattenEquation
  <2>2. \A i \in 1 .. n : f[i] = IF i = 1 THEN ls[i] ELSE f[i - 1] \o ls[i]
    BY <2>1, Zenon DEF Flat
  <2> DEFINE S == {k \in Nat : Reads(f[k + 1], k + 1)}
  <2>3. 0 \in S
    <3>1. f[1] = ls[1] /\ ls[1] \in Seq(Lines)
      BY <1>1, <1>3, <1>7, <2>2
    <3>2. <<>> \o ls[1] = ls[1]
      BY <3>1, ConcatEmptySeq
    <3>3. Reads(<<>> \o ls[0 + 1], 0 + 1)
      <4>1. 0 \in Nat /\ 0 < n
        BY <1>1, <1>7
      <4> QED BY <1>4, <1>5, <4>1, Zenon
    <3> QED BY <3>1, <3>2, <3>3
  <2>4. ASSUME NEW k \in 0 .. n - 1, k < n - 1, k \in S
        PROVE  k + 1 \in S
    <3>1. /\ k + 1 \in Nat /\ k + 1 < n /\ (k + 1) + 1 \in 1 .. n
          /\ (k + 1) + 1 # 1 /\ ((k + 1) + 1) - 1 = k + 1
      BY <1>1, <2>4
    <3>2. f[(k + 1) + 1] = f[k + 1] \o ls[(k + 1) + 1]
      BY <2>2, <3>1
    <3>3. Reads(f[k + 1] \o ls[(k + 1) + 1], (k + 1) + 1)
      BY <1>5, <2>4, <3>1
    <3> QED BY <3>1, <3>2, <3>3
  <2>5. n - 1 \in S
    <3> HIDE DEF S
    <3>1. n - 1 \in Nat
      BY <1>1, <1>7
    <3>2. \A k \in 0 .. n - 1 : k \in S
      BY <2>3, <2>4, <3>1, UpTo
    <3> QED BY <3>1, <3>2
  <2> QED BY <1>1, <2>1, <2>5 DEF ls, n
<1> QED BY <1>6, <1>7

\* One more line is one more turn.
LEMMA LastLine ==
    ASSUME NEW w \in Seq(Lines), NEW line \in Lines
    PROVE  Final(w \o <<line>>) = ParseLine(Final(w), line)
<1> DEFINE u == w \o <<line>>
           n == Len(w)
<1>1. n \in Nat /\ <<line>> \in Seq(Lines) /\ Len(<<line>>) = 1 /\ <<line>>[1] = line
  BY LenProperties
<1>2. /\ u \in Seq(Lines) /\ Len(u) = n + 1
      /\ \A i \in 1 .. n + 1 : u[i] = IF i <= n THEN w[i] ELSE <<line>>[i - n]
  BY <1>1, ConcatProperties
<1> HIDE DEF u
<1>3. \A i \in 1 .. n : u[i] = w[i]
  BY <1>1, <1>2
<1>4. u[n + 1] = line
  <2>1. n + 1 \in 1 .. n + 1 /\ ~(n + 1 <= n) /\ (n + 1) - n = 1
    BY <1>1
  <2>2. u[n + 1] = <<line>>[1]
    BY <1>2, <2>1
  <2> QED BY <1>1, <2>2
<1>5. Scan(u)[n] = Scan(w)[n]
  <2>1. n <= Len(u) /\ n \in 0 .. n
    BY <1>1, <1>2
  <2> QED BY <1>2, <1>3, <2>1, ScanPrefix
<1>6. Scan(u)[n + 1] = ParseLine(Scan(u)[n], u[n + 1])
  <2>1. n + 1 \in 1 .. Len(u) /\ (n + 1) - 1 = n
    BY <1>1, <1>2
  <2>2. Scan(u)[n + 1] = ParseLine(Scan(u)[(n + 1) - 1], u[n + 1])
    BY <1>2, <2>1, ScanTurns
  <2> QED BY <2>1, <2>2
<1> QED BY <1>2, <1>4, <1>5, <1>6 DEF Final, u, n

\* The first lines of a block after complete ones, as far as they are whole.
LEMMA LinesRead ==
    ASSUME NEW s \in Seq(Lines), NEW cs, Final(s) = Acc(cs, Absent),
           NEW next \in Blocks, NEW lines \in 0 .. Len(BlockLines(next)) - 1
    PROVE  LET w == s \o SubSeq(BlockLines(next), 1, lines)
           IN  /\ w \in Seq(Lines)
               /\ lines = 0 => Final(w) = Acc(cs, Absent)
               /\ lines # 0 => \E c \in ClientInfo :
                                 /\ Final(w) = Acc(cs, c)
                                 /\ c.ip = next.ip
                                 /\ c.mac \in {next.mac, Empty}
<1> DEFINE bl == BlockLines(next)
           t == SubSeq(bl, 1, lines)
           u == s \o bl
           w == s \o t
<1>1. /\ bl \in Seq(Lines) /\ Len(bl) \in Nat /\ Len(bl) >= 2
      /\ lines \in Nat /\ lines < Len(bl)
  BY BlockShape DEF Shape
<1>2. CASE lines = 0
  <2>1. w = s
    BY <1>2, SubSeqEmpty, ConcatEmptySeq
  <2> QED BY <1>2, <2>1
<1>3. CASE lines # 0
  <2>1. PICK c \in ClientInfo :
             /\ Scan(u)[Len(s) + lines] = Acc(cs, c)
             /\ c.ip = next.ip
             /\ c.mac \in {next.mac, Empty}
    BY <1>1, <1>3, PartOfBlock
  <2>2. t \in Seq(Lines) /\ Len(t) = lines /\ \A i \in 1 .. lines : t[i] = bl[i]
    <3>1. \A i \in 1 .. lines : bl[i] \in Lines
      BY <1>1, ElementOfSeq
    <3> HIDE DEF bl
    <3> QED BY <1>1, <1>3, <3>1, SubSeqProperties
  <2> HIDE DEF bl, t
  <2>3. /\ u \in Seq(Lines) /\ Len(u) = Len(s) + Len(bl) /\ Len(s) \in Nat
        /\ \A i \in 1 .. Len(s) + Len(bl) :
             u[i] = IF i <= Len(s) THEN s[i] ELSE bl[i - Len(s)]
    BY <1>1, ConcatProperties, LenProperties
  <2>4. /\ w \in Seq(Lines) /\ Len(w) = Len(s) + lines
        /\ \A i \in 1 .. Len(s) + lines :
             w[i] = IF i <= Len(s) THEN s[i] ELSE t[i - Len(s)]
    BY <1>1, <2>2, ConcatProperties
  <2> HIDE DEF u, w
  <2>5. Len(w) <= Len(u) /\ Len(w) \in 0 .. Len(w)
    BY <1>1, <2>3, <2>4
  <2>6. ASSUME NEW i \in 1 .. Len(w) PROVE u[i] = w[i]
    <3>1. i \in 1 .. Len(s) + Len(bl) /\ i \in 1 .. Len(s) + lines
      BY <1>1, <2>3, <2>4
    <3>2. ~(i <= Len(s)) => i - Len(s) \in 1 .. lines
      BY <1>1, <2>3, <3>1
    <3> QED BY <2>2, <2>3, <2>4, <3>1, <3>2
  <2>7. \A i \in 0 .. Len(w) : Scan(u)[i] = Scan(w)[i]
    BY <2>3, <2>4, <2>5, <2>6, ScanPrefix
  <2>8. Final(w) = Acc(cs, c)
    BY <2>1, <2>4, <2>5, <2>7 DEF Final
  <2> QED BY <1>3, <2>1, <2>4, <2>8 DEF w, t, bl
<1> QED BY <1>2, <1>3

\* What a torn line may be.
LEMMA TornLine ==
    ASSUME NEW b \in Blocks, NEW k \in 1 .. Len(BlockLines(b)),
           NEW end \in Torn(BlockLines(b)[k])
    PROVE  \/ end = <<>>
           \/ \E line \in Lines :
                /\ end = <<line>>
                /\ \/ line.kind \in {"starts", "state"}
                   \/ k = 1 /\ line.kind = "lease" /\ line.val \in Cut[b.ip]
                   \/ k > 1 /\ line.kind = "hardware" /\ line.val \in Cut[b.mac]
                /\ k = 1 => line.kind \in {"starts", "lease"}
<1> DEFINE bl == BlockLines(b)
           whole == bl[k]
<1>1. Shape(bl, b)
  BY BlockShape
<1> HIDE DEF bl
<1>2. k \in Nat /\ 1 <= k /\ k <= Len(bl) /\ Len(bl) \in Nat /\ Len(bl) >= 2
  BY <1>1 DEF Shape, bl
<1>3. \/ k = 1 /\ whole.kind = "lease" /\ whole.val = b.ip
      \/ /\ k > 1
         /\ whole.kind \in {"starts", "state", "hardware", "end"}
         /\ whole.kind = "hardware" => whole.val = b.mac
  <2>1. CASE k = 1
    BY <1>1, <2>1 DEF Shape, Line
  <2>2. CASE k = Len(bl)
    BY <1>1, <1>2, <2>2 DEF Shape, Line
  <2>3. CASE k \in 2 .. Len(bl) - 1
    BY <1>1, <2>3 DEF Shape
  <2> QED BY <1>2, <2>1, <2>2, <2>3
<1>4. whole \in Lines /\ whole.kind \in {"lease", "starts", "state", "hardware", "end"}
  <2>1. whole \in Lines
    BY <1>1, <1>2, ElementOfSeq DEF Shape
  <2> QED BY <2>1 DEF Lines
<1>5. CASE end = <<>>
  BY <1>5
<1>6. CASE end = <<Line("starts", Absent)>>
  <2>1. Line("starts", Absent) \in Lines /\ Line("starts", Absent).kind = "starts"
    BY DEF Line, Lines, Values, Whole
  <2> QED BY <1>6, <2>1
<1>7. ASSUME whole.kind \in {"lease", "state", "hardware"},
             NEW v \in Cut[whole.val], end = <<Line(whole.kind, v)>>
      PROVE  \E line \in Lines :
                /\ end = <<line>>
                /\ \/ line.kind \in {"starts", "state"}
                   \/ k = 1 /\ line.kind = "lease" /\ line.val \in Cut[b.ip]
                   \/ k > 1 /\ line.kind = "hardware" /\ line.val \in Cut[b.mac]
                /\ k = 1 => line.kind \in {"starts", "lease"}
  <2> DEFINE line == Line(whole.kind, v)
  <2>1. line.kind = whole.kind /\ line.val = v
    BY DEF Line
  <2>2. v \in Values
    <3>1. whole.val \in Whole
      BY <1>1, <1>2 DEF Shape
    <3> QED BY <1>7, <3>1 DEF Values
  <2>3. line \in Lines
    BY <1>4, <2>2 DEF Line, Lines
  <2> QED BY <1>2, <1>3, <1>7, <2>1, <2>3
<1>8. \/ end = <<>> \/ end = <<Line("starts", Absent)>>
      \/ whole.kind \in {"lease", "state", "hardware"}
           /\ \E v \in Cut[whole.val] : end = <<Line(whole.kind, v)>>
  BY DEF Torn, bl
<1> QED BY <1>5, <1>6, <1>7, <1>8

\* A file is read as its complete blocks and, if one more is begun, a client of
\* that one.
LEMMA FileRead ==
    ASSUME NEW blocks \in Seq(Blocks), NEW next \in Blocks,
           NEW lines \in 0 .. Len(BlockLines(next)) - 1,
           NEW end \in Torn(BlockLines(next)[lines + 1])
    PROVE  LET ds == GetDhcpClients(File(blocks, next, lines, end))
               open == Begun(next, lines, end)
           IN  \E cs : /\ Matches(cs, blocks, Len(blocks))
                       /\ \/ open = {} /\ ds = cs
                          \/ \E c \in ClientInfo :
                               /\ ds = Append(cs, c)
                               /\ open = {c.ip}
                               /\ c.mac \in Unfinished(next)
<1> DEFINE s == FlattenSeq([i \in DOMAIN blocks |-> BlockLines(blocks[i])])
           w == s \o SubSeq(BlockLines(next), 1, lines)
           file == w \o end
           open == Begun(next, lines, end)
           Reads(cs) == \/ open = {} /\ GetDhcpClients(file) = cs
                        \/ \E c \in ClientInfo :
                             /\ GetDhcpClients(file) = Append(cs, c)
                             /\ open = {c.ip}
                             /\ c.mac \in Unfinished(next)
<1>1. PICK cs : /\ s \in Seq(Lines) /\ Final(s) = Acc(cs, Absent)
                /\ Matches(cs, blocks, Len(blocks))
  BY BlocksRead
<1> HIDE DEF s
<1>2. /\ w \in Seq(Lines)
      /\ lines = 0 => Final(w) = Acc(cs, Absent)
      /\ lines # 0 => \E c \in ClientInfo : /\ Final(w) = Acc(cs, c)
                                            /\ c.ip = next.ip
                                            /\ c.mac \in {next.mac, Empty}
  BY <1>1, LinesRead
<1> HIDE DEF w
<1>3. lines \in Nat /\ lines + 1 \in 1 .. Len(BlockLines(next))
  BY BlockShape DEF Shape
<1>4. \/ end = <<>>
      \/ \E line \in Lines :
           /\ end = <<line>>
           /\ \/ line.kind \in {"starts", "state"}
              \/ lines = 0 /\ line.kind = "lease" /\ line.val \in Cut[next.ip]
              \/ lines # 0 /\ line.kind = "hardware" /\ line.val \in Cut[next.mac]
           /\ lines = 0 => line.kind \in {"starts", "lease"}
  <2> DEFINE k == lines + 1
  <2>1. (k = 1 <=> lines = 0) /\ (k > 1 <=> lines # 0)
    BY <1>3
  <2>2. end \in Torn(BlockLines(next)[k]) /\ k \in 1 .. Len(BlockLines(next))
    BY <1>3
  <2> HIDE DEF k
  <2>3. \/ end = <<>>
        \/ \E line \in Lines :
             /\ end = <<line>>
             /\ \/ line.kind \in {"starts", "state"}
                \/ k = 1 /\ line.kind = "lease" /\ line.val \in Cut[next.ip]
                \/ k > 1 /\ line.kind = "hardware" /\ line.val \in Cut[next.mac]
             /\ k = 1 => line.kind \in {"starts", "lease"}
    BY <2>2, TornLine
  <2> QED BY <2>1, <2>3
\* the accumulator at the end of the file
<1>5. ASSUME NEW line \in Lines, end = <<line>>
      PROVE  Final(file) = ParseLine(Final(w), line)
  BY <1>2, <1>5, LastLine
<1>6. end = <<>> => file = w
  BY <1>2, ConcatEmptySeq
<1>7. lines # 0 => open = {next.ip}
  BY <1>3 DEF Begun
<1> HIDE DEF file, open
<1>8. ASSUME NEW c \in ClientInfo, Final(file) = Acc(cs, c)
      PROVE  GetDhcpClients(file) = Append(cs, c)
  BY <1>8, LeaseFileAssumption DEF GetDhcpClients, Final, Acc
<1>9. ASSUME Final(file) = Acc(cs, Absent)
      PROVE  GetDhcpClients(file) = cs
  BY <1>9 DEF GetDhcpClients, Final, Acc
<1>10. CASE lines = 0
  <2>1. ASSUME end = <<>> PROVE Reads(cs)
    <3>1. open = {}
      BY <1>10, <2>1 DEF open, Begun
    <3>2. GetDhcpClients(file) = cs
      BY <1>2, <1>6, <1>9, <1>10, <2>1
    <3> QED BY <3>1, <3>2
  <2>2. ASSUME NEW line \in Lines, end = <<line>>, line.kind = "starts"
        PROVE  Reads(cs)
    <3>1. open = {}
      BY <1>10, <2>2 DEF open, Begun
    <3>2. Final(file) = Acc(cs, Absent)
      BY <1>2, <1>5, <1>10, <2>2 DEF ParseLine, Acc
    <3> QED BY <1>9, <3>1, <3>2
  <2>3. ASSUME NEW line \in Lines, end = <<line>>, line.kind = "lease",
               line.val \in Cut[next.ip]
        PROVE  Reads(cs)
    <3> DEFINE c == NewClient(line.val)
    <3>1. open = {line.val}
      BY <1>10, <2>3 DEF open, Begun
    <3>2. Final(file) = Acc(cs, c)
      BY <1>2, <1>5, <1>10, <2>3 DEF ParseLine, Acc
    <3>3. c \in ClientInfo /\ c.ip = line.val /\ c.mac \in Unfinished(next)
      BY <2>3 DEF NewClient, ClientInfo, Unfinished
    <3> HIDE DEF c
    <3> QED BY <1>8, <3>1, <3>2, <3>3
  <2>4. Reads(cs)
    BY <1>4, <1>10, <2>1, <2>2, <2>3
  <2> QED BY <1>1, <2>4 DEF file, open, w, s, File
<1>11. CASE lines # 0
  <2>1. PICK c \in ClientInfo : /\ Final(w) = Acc(cs, c)
                                /\ c.ip = next.ip
                                /\ c.mac \in {next.mac, Empty}
    BY <1>2, <1>11
  <2>2. ASSUME end = <<>> PROVE Reads(cs)
    <3>1. c.mac \in Unfinished(next)
      BY <2>1 DEF Unfinished
    <3>2. GetDhcpClients(file) = Append(cs, c)
      BY <1>6, <1>8, <2>1, <2>2
    <3>3. open = {c.ip}
      BY <1>7, <1>11, <2>1
    <3> QED BY <3>1, <3>2, <3>3
  <2>3. ASSUME NEW line \in Lines, end = <<line>>,
               line.kind \in {"starts", "state", "hardware"},
               line.kind = "hardware" => line.val \in Cut[next.mac]
        PROVE  Reads(cs)
    <3>1. PICK d \in ClientInfo :
               /\ ParseLine(Acc(cs, c), line) = Acc(cs, d)
               /\ d.ip = c.ip
               /\ d.mac = IF line.kind = "hardware" THEN line.val ELSE c.mac
      <4>1. line.kind = "hardware" =>
              line.val \in UNION {{Empty, b.mac} \cup Cut[b.mac] : b \in Blocks}
        BY <2>3
      <4> QED BY <2>3, <4>1, ParseInside
    <3>2. Final(file) = Acc(cs, d)
      BY <1>5, <2>1, <2>3, <3>1
    <3>3. d.ip = next.ip /\ d.mac \in Unfinished(next)
      BY <2>1, <2>3, <3>1 DEF Unfinished
    <3> QED BY <1>7, <1>8, <1>11, <3>2, <3>3
  <2>4. Reads(cs)
    BY <1>4, <1>11, <2>2, <2>3
  <2> QED BY <1>1, <2>4 DEF file, open, w, s, File
<1> QED BY <1>10, <1>11

-----------------------------------------------------------------------------
(* What the poll makes of the clients.                                     *)

\* newClients has the last client of every address.
LEMMA LastWins ==
    ASSUME NEW ds \in Seq(ClientInfo)
    PROVE  /\ DOMAIN newClients(ds) = {ds[i].ip : i \in 1 .. Len(ds)}
           /\ \A ip \in DOMAIN newClients(ds) :
                \E m \in 1 .. Len(ds) :
                  /\ newClients(ds)[ip] = ds[m]
                  /\ ds[m].ip = ip
                  /\ \A i \in 1 .. Len(ds) : ds[i].ip = ip => i <= m
<1>1. Len(ds) \in Nat /\ DOMAIN ds = 1 .. Len(ds)
  BY LenProperties
<1>2. DOMAIN newClients(ds) = {ds[i].ip : i \in 1 .. Len(ds)}
  BY <1>1 DEF newClients
<1>3. ASSUME NEW ip \in DOMAIN newClients(ds)
      PROVE  \E m \in 1 .. Len(ds) :
                  /\ newClients(ds)[ip] = ds[m]
                  /\ ds[m].ip = ip
                  /\ \A i \in 1 .. Len(ds) : ds[i].ip = ip => i <= m
  <2> DEFINE I == {i \in 1 .. Len(ds) : ds[i].ip = ip}
  <2>1. I \in SUBSET (1 .. Len(ds)) /\ I # {}
    BY <1>2, <1>3
  <2>2. newClients(ds)[ip] = ds[Max(I)]
    BY <1>1, <1>2, <1>3, <2>1 DEF newClients, SelectLastInSeq
  <2>3. Max(I) \in I /\ \A i \in I : i <= Max(I)
    <3> HIDE DEF I
    <3> QED BY <1>1, <2>1, Greatest
  <2> QED BY <2>2, <2>3
<1> QED BY <1>2, <1>3

\* Whatever blocks a lease file has and wherever in the next one it ends,
\* GetDhcpClients and updateStats find in it every leased address with its
\* hardware address, and no address that has no block.
THEOREM EveryFileIsRead ==
    ASSUME NEW blocks \in Seq(Blocks), NEW next \in Blocks,
           NEW lines \in 0 .. Len(BlockLines(next)) - 1,
           NEW end \in Torn(BlockLines(next)[lines + 1])
    PROVE  ReadsLeases(blocks, next, lines, end)
<1> DEFINE ds == GetDhcpClients(File(blocks, next, lines, end))
           n == Len(blocks)
           open == Begun(next, lines, end)
           seen == newClients(ds)
<1>1. n \in Nat /\ DOMAIN blocks = 1 .. n
  BY LenProperties
<1>2. PICK cs : /\ Matches(cs, blocks, n)
                /\ \/ open = {} /\ ds = cs
                   \/ \E c \in ClientInfo : /\ ds = Append(cs, c)
                                            /\ open = {c.ip}
                                            /\ c.mac \in Unfinished(next)
  BY FileRead
<1> HIDE DEF ds, open
\* the clients of the complete blocks, and perhaps one more
<1>3. /\ ds \in Seq(ClientInfo) /\ Len(ds) \in {n, n + 1}
      /\ \A i \in 1 .. n : ds[i].ip = blocks[i].ip /\ ds[i].mac = blocks[i].mac
      /\ Len(ds) = n => open = {}
      /\ Len(ds) = n + 1 => /\ open = {ds[n + 1].ip}
                            /\ ds[n + 1].mac \in Unfinished(next)
  <2>1. CASE open = {} /\ ds = cs
    BY <1>1, <1>2, <2>1 DEF Matches
  <2>2. ASSUME NEW c \in ClientInfo, ds = Append(cs, c), open = {c.ip},
               c.mac \in Unfinished(next)
        PROVE  /\ ds \in Seq(ClientInfo) /\ Len(ds) = n + 1
               /\ \A i \in 1 .. n : ds[i].ip = blocks[i].ip /\ ds[i].mac = blocks[i].mac
               /\ ds[n + 1] = c
    <3>1. /\ Append(cs, c) \in Seq(ClientInfo)
          /\ Len(Append(cs, c)) = n + 1
          /\ \A i \in 1 .. n : Append(cs, c)[i] = cs[i]
          /\ Append(cs, c)[n + 1] = c
      BY <1>1, <1>2 DEF Matches
    <3> QED BY <1>1, <1>2, <2>2, <3>1 DEF Matches
  <2> QED BY <1>1, <1>2, <2>1, <2>2
<1>4. /\ DOMAIN seen = {ds[i].ip : i \in 1 .. Len(ds)}
      /\ \A ip \in DOMAIN seen :
           \E m \in 1 .. Len(ds) :
             /\ seen[ip] = ds[m]
             /\ ds[m].ip = ip
             /\ \A i \in 1 .. Len(ds) : ds[i].ip = ip => i <= m
  BY <1>3, LastWins
<1> HIDE DEF seen
<1>5. DOMAIN seen = Addresses(blocks) \cup open
  <2>1. CASE Len(ds) = n
    BY <1>1, <1>3, <1>4, <2>1 DEF Addresses
  <2>2. CASE Len(ds) = n + 1
    <3>1. \A i \in 1 .. n + 1 : i \in 1 .. n \/ i = n + 1
      BY <1>1
    <3>2. n + 1 \in 1 .. n + 1 /\ \A i \in 1 .. n : i \in 1 .. n + 1
      BY <1>1
    <3>3. {ds[i].ip : i \in 1 .. n + 1} = {blocks[i].ip : i \in 1 .. n} \cup open
      BY <1>3, <2>2, <3>1, <3>2
    <3> QED BY <1>1, <1>3, <1>4, <2>2, <3>3 DEF Addresses
  <2> QED BY <1>3, <2>1, <2>2
<1>6. ASSUME NEW ip \in Leased(blocks) \ open
      PROVE  ip \in DOMAIN seen /\ seen[ip].mac = LastBlock(blocks, ip).mac
  <2>0. ip \in DOMAIN seen
    BY <1>5, <1>6 DEF Leased
  <2>1. PICK m \in 1 .. Len(ds) :
             /\ seen[ip] = ds[m]
             /\ ds[m].ip = ip
             /\ \A i \in 1 .. Len(ds) : ds[i].ip = ip => i <= m
    BY <1>4, <2>0
  <2>2. m \in 1 .. n
    <3>1. ~(Len(ds) = n + 1 /\ m = n + 1)
      BY <1>3, <1>6, <2>1
    <3> QED BY <1>1, <1>3, <3>1
  <2> DEFINE L(i) == /\ blocks[i].ip = ip
                     /\ \A j \in i + 1 .. Len(blocks) : blocks[j].ip # ip
  <2>3. L(m)
    BY <1>1, <1>3, <2>1, <2>2
  <2>4. ASSUME NEW i \in DOMAIN blocks, L(i) PROVE i = m
    BY <1>1, <2>2, <2>3, <2>4
  <2>5. (CHOOSE i \in DOMAIN blocks : L(i)) = m
    <3> HIDE DEF L
    <3> QED BY <1>1, <2>2, <2>3, <2>4
  <2>6. LastBlock(blocks, ip) = blocks[m]
    BY <2>5 DEF LastBlock
  <2> QED BY <1>3, <2>0, <2>1, <2>2, <2>6
<1>7. ASSUME NEW ip \in open
      PROVE  ip \in DOMAIN seen /\ seen[ip].mac \in Unfinished(next)
  <2>1. Len(ds) = n + 1 /\ ip = ds[n + 1].ip
    BY <1>3, <1>7
  <2>2. PICK m \in 1 .. Len(ds) :
             /\ seen[ip] = ds[m]
             /\ ds[m].ip = ip
             /\ \A i \in 1 .. Len(ds) : ds[i].ip = ip => i <= m
    BY <1>4, <1>5, <1>7
  <2>3. m = n + 1
    <3>1. n + 1 \in 1 .. Len(ds)
      BY <1>1, <2>1
    <3> QED BY <1>1, <2>1, <2>2, <3>1
  <2> QED BY <1>3, <1>5, <1>7, <2>1, <2>2, <2>3
<1> QED BY <1>5, <1>6, <1>7 DEF ReadsLeases, seen, ds, open
=============================================================================
