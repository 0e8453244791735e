-------------------------- MODULE LibrariesProofs --------------------------
(*****************************************************************************)
(* What the libraries have in common, for every value of the constants.      *)
(* A behaviour of Libraries is, seen through the variables of one library, a *)
(* behaviour of that library: of the one that is followed every step is its  *)
(* own, and the others rest.  So what VaultProofs, ClientProofs and          *)
(* DisplayProofs prove of each library holds here, and a property of         *)
(* Libraries, which has a conjunct for each library that can lose it,        *)
(* follows from them.  The parser of the EDID, which has no plugin, no       *)
(* display and no lock, comes first: that it reads what a display wrote is   *)
(* about its operators on bytes more than about its steps.                   *)
(*****************************************************************************)
EXTENDS VaultProofs, ClientProofs, DisplayProofs

-----------------------------------------------------------------------------
(* The EDID parser *)
LEMMA EdidBytes ==
  /\ \A n \in Nat : n <= 255 => n \in Parser!Byte
  /\ \A n \in Parser!Byte : n \in Nat /\ n <= 255
BY DEF Parser!Byte

LEMMA EdidWeight ==
  /\ Parser!Weight[0 + 1] = 1 /\ Parser!Weight[1 + 1] = 2
  /\ Parser!Weight[2 + 1] = 4 /\ Parser!Weight[3 + 1] = 8
  /\ Parser!Weight[4 + 1] = 16 /\ Parser!Weight[5 + 1] = 32
  /\ Parser!Weight[6 + 1] = 64 /\ Parser!Weight[7 + 1] = 128
BY DEF Parser!Weight

LEMMA EdidSum ==
  ASSUME NEW bits
  PROVE  Parser!Ones(bits) = (IF 0 \in bits THEN 1 ELSE 0)
           + (IF 1 \in bits THEN 2 ELSE 0) + (IF 2 \in bits THEN 4 ELSE 0)
           + (IF 3 \in bits THEN 8 ELSE 0) + (IF 4 \in bits THEN 16 ELSE 0)
           + (IF 5 \in bits THEN 32 ELSE 0) + (IF 6 \in bits THEN 64 ELSE 0)
           + (IF 7 \in bits THEN 128 ELSE 0)
<1>. DEFINE One(n) == IF n \in bits THEN Parser!Weight[n + 1] ELSE 0
<1>1. Parser!Ones(bits) = One(0) + One(1) + One(2) + One(3) + One(4) + One(5)
                            + One(6) + One(7)
  BY DEF Parser!Ones
<1>2. /\ One(0) = IF 0 \in bits THEN 1 ELSE 0
      /\ One(1) = IF 1 \in bits THEN 2 ELSE 0
      /\ One(2) = IF 2 \in bits THEN 4 ELSE 0
      /\ One(3) = IF 3 \in bits THEN 8 ELSE 0
      /\ One(4) = IF 4 \in bits THEN 16 ELSE 0
      /\ One(5) = IF 5 \in bits THEN 32 ELSE 0
      /\ One(6) = IF 6 \in bits THEN 64 ELSE 0
      /\ One(7) = IF 7 \in bits THEN 128 ELSE 0
  BY EdidWeight
<1>. HIDE DEF One
<1>. QED
  BY <1>1, <1>2

LEMMA EdidOnes ==
  ASSUME NEW bits
  PROVE  Parser!Ones(bits) \in Parser!Byte
<1>1. Parser!Ones(bits) \in Nat /\ Parser!Ones(bits) <= 255
  BY EdidSum
<1>. QED
  BY <1>1, EdidBytes

LEMMA EdidBit ==
  ASSUME NEW byte
  PROVE  /\ Parser!Bit(byte, 0) <=> (byte \div 1) % 2 = 1
         /\ Parser!Bit(byte, 1) <=> (byte \div 2) % 2 = 1
         /\ Parser!Bit(byte, 2) <=> (byte \div 4) % 2 = 1
         /\ Parser!Bit(byte, 3) <=> (byte \div 8) % 2 = 1
         /\ Parser!Bit(byte, 4) <=> (byte \div 16) % 2 = 1
         /\ Parser!Bit(byte, 5) <=> (byte \div 32) % 2 = 1
         /\ Parser!Bit(byte, 6) <=> (byte \div 64) % 2 = 1
         /\ Parser!Bit(byte, 7) <=> (byte \div 128) % 2 = 1
BY EdidWeight, Zenon DEF Parser!Bit

\* The bits of the bytes a display sends.
LEMMA EdidBitsOf ==
  /\ \A bits \in {{}, {4}, {4, 5}, {3, 4, 5}, {3, 6}}, n \in 3..6 :
       Parser!Bit(Parser!Ones(bits), n) <=> n \in bits
  /\ \A bits \in {{}, {0}, {2}} :
       /\ Parser!Ones(bits) % 8 # 0 <=> bits # {}
       /\ \A n \in 0..2 : Parser!Bit(Parser!Ones(bits), n) <=> n \in bits
<1>1. /\ Parser!Ones({}) = 0 /\ Parser!Ones({4}) = 16
      /\ Parser!Ones({4, 5}) = 48 /\ Parser!Ones({3, 4, 5}) = 56
      /\ Parser!Ones({3, 6}) = 72 /\ Parser!Ones({0}) = 1
      /\ Parser!Ones({2}) = 4
  BY EdidSum
<1>2. /\ \A n \in 3..6 : ~Parser!Bit(0, n)
      /\ \A n \in 3..6 : Parser!Bit(16, n) <=> n = 4
      /\ \A n \in 3..6 : Parser!Bit(48, n) <=> n \in {4, 5}
      /\ \A n \in 3..6 : Parser!Bit(56, n) <=> n \in {3, 4, 5}
      /\ \A n \in 3..6 : Parser!Bit(72, n) <=> n \in {3, 6}
  <2>1. \A n \in 3..6 : n = 3 \/ n = 4 \/ n = 5 \/ n = 6
    OBVIOUS
  <2>. QED
    BY <2>1, EdidBit
<1>3. /\ \A n \in 0..2 : ~Parser!Bit(0, n)
      /\ \A n \in 0..2 : Parser!Bit(1, n) <=> n = 0
      /\ \A n \in 0..2 : Parser!Bit(4, n) <=> n = 2
  <2>1. \A n \in 0..2 : n = 0 \/ n = 1 \/ n = 2
    OBVIOUS
  <2>. QED
    BY <2>1, EdidBit
<1>4. ASSUME NEW bits \in {{}, {4}, {4, 5}, {3, 4, 5}, {3, 6}}, NEW n \in 3..6
      PROVE  Parser!Bit(Parser!Ones(bits), n) <=> n \in bits
  <2>1. CASE bits = {}
    BY <1>1, <1>2, <2>1
  <2>2. CASE bits = {4}
    BY <1>1, <1>2, <2>2
  <2>3. CASE bits = {4, 5}
    BY <1>1, <1>2, <2>3
  <2>4. CASE bits = {3, 4, 5}
    BY <1>1, <1>2, <2>4
  <2>5. CASE bits = {3, 6}
    BY <1>1, <1>2, <2>5
  <2>. QED
    BY <2>1, <2>2, <2>3, <2>4, <2>5
<1>5. ASSUME NEW bits \in {{}, {0}, {2}}
      PROVE  /\ Parser!Ones(bits) % 8 # 0 <=> bits # {}
             /\ \A n \in 0..2 : Parser!Bit(Parser!Ones(bits), n) <=> n \in bits
  BY <1>1, <1>3
<1>. QED
  BY <1>4, <1>5

\* The bytes of the first n sequences.
EdidJoin(seqs, before, n) == IF n = 1 THEN seqs[n] ELSE before \o seqs[n]
EdidFlat(f, seqs, m) == f = [n \in 1..m |-> EdidJoin(seqs, f[n - 1], n)]

LEMMA EdidFlattens ==
  ASSUME NEW seqs, NEW l \in Nat
  PROVE  \E f : EdidFlat(f, seqs, l)
<1>. DEFINE Bad == {m \in Nat : ~\E f : EdidFlat(f, seqs, m)}
<1>1. SUFFICES ASSUME Bad # {} PROVE FALSE
  OBVIOUS
<1>2. PICK m \in Bad : \A k \in Bad : ~(k < m)
  BY <1>1, Least
<1>3. m # 0
  <2>1. EdidFlat([n \in 1..0 |-> <<>>], seqs, 0)
    BY DEF EdidFlat
  <2>. QED
    BY <2>1
<1>4. PICK g : EdidFlat(g, seqs, m - 1)
  BY <1>2, <1>3
<1>. DEFINE f == [n \in 1..m |->
         IF n = m THEN EdidJoin(seqs, g[m - 1], m) ELSE g[n]]
<1>5. \A n \in 1..m : f[n] = EdidJoin(seqs, f[n - 1], n)
  <2>1. ASSUME NEW n \in 1..m, n # m
        PROVE  f[n] = EdidJoin(seqs, f[n - 1], n)
    <3>1. g[n] = EdidJoin(seqs, g[n - 1], n)
      BY <1>4, <2>1 DEF EdidFlat
    <3>2. CASE n = 1
      BY <2>1, <3>1, <3>2 DEF EdidJoin
    <3>3. CASE n # 1
      BY <2>1, <3>1, <3>3
    <3>. QED
      BY <3>2, <3>3
  <2>2. f[m] = EdidJoin(seqs, f[m - 1], m)
    <3>1. CASE m = 1
      BY <3>1 DEF EdidJoin
    <3>2. CASE m # 1
      BY <1>3, <3>2
    <3>. QED
      BY <3>1, <3>2
  <2>. QED
    BY <2>1, <2>2
<1>6. EdidFlat(f, seqs, m)
  BY <1>5 DEF EdidFlat
<1>. QED
  BY <1>6

\* Bytes in a row.
LEMMA EdidRow ==
  ASSUME NEW seqs \in Seq(Seq(Parser!Byte)), NEW m \in Nat,
         \A i \in 1..Len(seqs) : Len(seqs[i]) <= m
  PROVE  /\ Parser!FlattenSeq(seqs) \in Seq(Parser!Byte)
         /\ Len(Parser!FlattenSeq(seqs)) <= m * Len(seqs)
<1>1. Len(seqs) \in Nat
  OBVIOUS
<1>2. CASE Len(seqs) = 0
  <2>1. Parser!FlattenSeq(seqs) = <<>>
    BY <1>2 DEF Parser!FlattenSeq
  <2>. QED
    BY <1>2, <2>1
<1>3. CASE Len(seqs) # 0
  <2>1. PICK f : /\ EdidFlat(f, seqs, Len(seqs))
                 /\ Parser!FlattenSeq(seqs) = f[Len(seqs)]
    BY <1>1, <1>3, EdidFlattens DEF Parser!FlattenSeq, EdidFlat, EdidJoin
  <2>2. \A n \in 1..Len(seqs) : f[n]
            = IF n = 1 THEN seqs[n] ELSE f[n - 1] \o seqs[n]
    BY <1>1, <2>1 DEF EdidFlat, EdidJoin
  <2>. DEFINE Good(n) == f[n] \in Seq(Parser!Byte) /\ Len(f[n]) <= m * n
              Bad == {n \in 1..Len(seqs) : ~Good(n)}
  <2>3. SUFFICES ASSUME Bad # {} PROVE FALSE
    BY <1>1, <1>3, <2>1, SMTT(30)
  <2>4. PICK n \in Bad : \A k \in Bad : ~(k < n)
    <3>1. Bad \in SUBSET Nat
      BY <1>1
    <3>. HIDE DEF Bad
    <3>. QED
      BY <2>3, <3>1, Least
  <2>5. n \in 1..Len(seqs) /\ seqs[n] \in Seq(Parser!Byte) /\ Len(seqs[n]) <= m
    OBVIOUS
  <2>6. n # 1
    BY <2>2, <2>4, <2>5
  <2>7. Good(n - 1)
    BY <1>1, <2>4, <2>6
  <2>8. f[n] = f[n - 1] \o seqs[n]
    BY <2>2, <2>5, <2>6
  <2>9. f[n] \in Seq(Parser!Byte) /\ Len(f[n]) = Len(f[n - 1]) + Len(seqs[n])
    BY <2>5, <2>7, <2>8
  <2>10. m * (n - 1) + m = m * n
    BY <2>5
  <2>11. Len(f[n]) <= m * n
    <3>1. PICK a, b \in Int : a = m * (n - 1) /\ b = m * n
      BY <2>5
    <3>2. Len(f[n - 1]) \in Nat /\ Len(seqs[n]) \in Nat
      BY <2>5, <2>7
    <3>3. Len(f[n - 1]) <= a /\ a + m = b
      BY <2>7, <2>10, <3>1
    <3>4. PICK k, l \in Nat : k = Len(f[n - 1]) /\ l = Len(seqs[n])
      BY <3>2
    <3>5. k <= a /\ l <= m /\ Len(f[n]) = k + l
      BY <2>5, <2>9, <3>3, <3>4
    <3>. HIDE DEF Good, Bad
    <3>6. k + l <= b
      BY <3>3, <3>5
    <3>. QED
      BY <3>1, <3>5, <3>6
  <2>. QED
    BY <2>4, <2>9, <2>11
<1>. QED
  BY <1>2, <1>3

\* The data blocks take at most eight bytes each.
LEMMA EdidLayout ==
  ASSUME Parser!EdidAssumption, NEW b \in Parser!DataBlocks
  PROVE  Parser!Layout(b) \in Seq(Parser!Byte) /\ Len(Parser!Layout(b)) <= 8
<1>1. CASE b \in [type : {"audio"}, formats : {<<1>>, <<2, 10>>}]
  <2>. DEFINE sads == [i \in DOMAIN b.formats |->
         <<8 * b.formats[i] + 1, 7, 1>>]
  <2>1. b.formats = <<1>> \/ b.formats = <<2, 10>>
    BY <1>1
  <2>2. /\ Len(b.formats) \in {1, 2} /\ DOMAIN b.formats = 1..Len(b.formats)
        /\ \A i \in 1..Len(b.formats) : b.formats[i] \in {1, 2, 10}
    <3>. HIDE DEF sads
    <3>1. CASE b.formats = <<1>>
      BY <3>1
    <3>2. CASE b.formats = <<2, 10>>
      BY <3>2
    <3>. QED
      BY <2>1, <3>1, <3>2
  <2>3. \A i \in 1..Len(b.formats) : 8 * b.formats[i] + 1 \in Parser!Byte
    BY <2>2, EdidBytes
  <2>4. 7 \in Parser!Byte /\ 1 \in Parser!Byte
    BY EdidBytes
  <2>5. \A x \in Parser!Byte : /\ <<x, 7, 1>> \in Seq(Parser!Byte)
                               /\ Len(<<x, 7, 1>>) = 3
    BY <2>4
  <2>6. /\ sads \in Seq(Seq(Parser!Byte)) /\ Len(sads) = Len(b.formats)
        /\ \A i \in 1..Len(sads) : Len(sads[i]) <= 3
    BY <2>2, <2>3, <2>5
  <2>7. /\ Parser!FlattenSeq(sads) \in Seq(Parser!Byte)
        /\ Len(Parser!FlattenSeq(sads)) <= 3 * Len(sads)
    BY <2>6, EdidRow
  <2>8. 32 + 3 * Len(b.formats) \in Parser!Byte
    BY <2>2, EdidBytes
  <2>9. Parser!Layout(b)
          = <<32 + 3 * Len(b.formats)>> \o Parser!FlattenSeq(sads)
    BY <1>1 DEF Parser!Layout
  <2>. HIDE DEF sads
  <2>10. PICK flat \in Seq(Parser!Byte) : flat = Parser!FlattenSeq(sads)
           /\ Len(flat) <= 6
    <3>1. Len(sads) \in Nat /\ Len(sads) <= 2
      BY <2>2, <2>6, SMTT(30)
    <3>2. Len(Parser!FlattenSeq(sads)) \in Nat
      BY <2>7
    <3>3. Len(Parser!FlattenSeq(sads)) <= 6
      <4>1. PICK l \in Nat : l = Len(sads) /\ l <= 2
        BY <3>1
      <4>2. PICK k \in Nat : k = Len(Parser!FlattenSeq(sads))
        BY <3>2
      <4>3. k <= 3 * l
        BY <2>7, <4>1, <4>2
      <4>4. k <= 6
        BY <4>1, <4>3
      <4>. QED
        BY <4>2, <4>4
    <3>. QED
      BY <2>7, <3>3, Zenon
  <2>11. PICK head \in Seq(Parser!Byte) : head = <<32 + 3 * Len(b.formats)>>
           /\ Len(head) = 1
    <3>1. \A x \in Parser!Byte : <<x>> \in Seq(Parser!Byte) /\ Len(<<x>>) = 1
      OBVIOUS
    <3>. QED
      BY <2>8, <3>1, Zenon
  <2>. QED
    BY <2>9, <2>10, <2>11
<1>2. CASE b \in [type : {"video"}, vics : {<<v>> : v \in Vics}]
  <2>1. PICK v \in Vics : b.vics = <<v>>
    BY <1>2
  <2>2. v \in Parser!Byte /\ 65 \in Parser!Byte
    BY EdidBytes DEF Parser!EdidAssumption
  <2>3. Parser!Layout(b) = <<64 + Len(b.vics)>> \o b.vics
    BY <1>2 DEF Parser!Layout
  <2>4. 64 + Len(b.vics) = 65
    BY <2>1
  <2>. QED
    BY <2>1, <2>2, <2>3, <2>4
<1>3. CASE b \in [type : {"licensing"}, bits : {{}, {4}, {3, 4, 5}, {3, 6}}]
  <2>1. Parser!Layout(b) = <<96 + 6, 3, 12, 0, 16, 0, Parser!Ones(b.bits)>>
    BY <1>3 DEF Parser!Layout
  <2>2. /\ 96 + 6 \in Parser!Byte /\ 3 \in Parser!Byte /\ 12 \in Parser!Byte
        /\ 0 \in Parser!Byte /\ 16 \in Parser!Byte
    BY EdidBytes
  <2>. QED
    BY <2>1, <2>2, EdidOnes
<1>4. CASE b \in [type : {"short", "map", "colorimetry"}]
  <2>1. \/ Parser!Layout(b) = <<96 + 5, 3, 12, 0, 16, 0>>
        \/ Parser!Layout(b) = <<224 + 2, 15, 3>>
        \/ Parser!Layout(b) = <<224 + 3, 5, 192, 128>>
    BY <1>4, SMTT(30) DEF Parser!Layout
  <2>2. /\ 96 + 5 \in Parser!Byte /\ 3 \in Parser!Byte /\ 12 \in Parser!Byte
        /\ 0 \in Parser!Byte /\ 16 \in Parser!Byte
    BY EdidBytes
  <2>3. 224 + 2 \in Parser!Byte /\ 15 \in Parser!Byte /\ 224 + 3 \in Parser!Byte
        /\ 5 \in Parser!Byte /\ 192 \in Parser!Byte /\ 128 \in Parser!Byte
    BY EdidBytes
  <2>4. /\ <<96 + 5, 3, 12, 0, 16, 0>> \in Seq(Parser!Byte)
        /\ Len(<<96 + 5, 3, 12, 0, 16, 0>>) <= 8
    BY <2>2
  <2>5. /\ <<224 + 2, 15, 3>> \in Seq(Parser!Byte)
        /\ Len(<<224 + 2, 15, 3>>) <= 8
        /\ <<224 + 3, 5, 192, 128>> \in Seq(Parser!Byte)
        /\ Len(<<224 + 3, 5, 192, 128>>) <= 8
    BY <2>2, <2>3
  <2>. QED
    BY <2>1, <2>4, <2>5
<1>5. CASE b \in [type : {"forum"}, bits : {{}, {0}, {2}}]
  <2>1. Parser!Layout(b)
          = <<96 + 7, 216, 93, 196, 1, 120, 0, Parser!Ones(b.bits)>>
    BY <1>5 DEF Parser!Layout
  <2>2. /\ 96 + 7 \in Parser!Byte /\ 216 \in Parser!Byte /\ 93 \in Parser!Byte
        /\ 196 \in Parser!Byte /\ 1 \in Parser!Byte /\ 120 \in Parser!Byte
        /\ 0 \in Parser!Byte
    BY EdidBytes
  <2>. QED
    BY <2>1, <2>2, EdidOnes
<1>. QED
  BY <1>1, <1>2, <1>3, <1>4, <1>5 DEF Parser!DataBlocks

\* What displays say.
EdidSays == [status : {"said"}, valid : BOOLEAN, place : 0..3, version : {1, 3},
             flags : {{}, {4}, {4, 5}},
             blocks : UNION {[1..n -> Parser!DataBlocks] : n \in 0..MaxBlocks}]

\* An extension is made of bytes.
LEMMA EdidExtension ==
  ASSUME Parser!EdidAssumption, NEW s \in EdidSays
  PROVE  Parser!Extension(s) \in Seq(Parser!Byte)
<1>. DEFINE layouts == [i \in DOMAIN s.blocks |-> Parser!Layout(s.blocks[i])]
<1>1. PICK n \in 0..MaxBlocks : s.blocks \in [1..n -> Parser!DataBlocks]
  BY DEF EdidSays
<1>2. n \in Nat /\ n <= 15
  BY DEF Parser!EdidAssumption
<1>3. /\ layouts \in Seq(Seq(Parser!Byte)) /\ Len(layouts) = n
      /\ \A i \in 1..Len(layouts) : Len(layouts[i]) <= 8
  BY <1>1, <1>2, EdidLayout
<1>. HIDE DEF layouts
<1>4. PICK collection \in Seq(Parser!Byte) :
        collection = Parser!FlattenSeq(layouts) /\ Len(collection) <= 8 * n
  BY <1>3, EdidRow
<1>5. Len(collection) \in Nat /\ 4 + Len(collection) <= 255
  BY <1>2, <1>4
<1>6. 4 + Len(collection) \in Parser!Byte
  BY <1>5, EdidBytes
<1>7. s.version \in Parser!Byte
  BY EdidBytes DEF EdidSays
<1>8. 2 \in Parser!Byte /\ 1 \in Parser!Byte /\ 29 \in Parser!Byte
  BY EdidBytes
<1>9. PICK head \in Seq(Parser!Byte) :
        head = <<2, s.version, 4 + Len(collection), Parser!Ones(s.flags)>>
  <2>1. <<2, s.version, 4 + Len(collection), Parser!Ones(s.flags)>>
          \in Seq(Parser!Byte)
    BY <1>6, <1>7, <1>8, EdidOnes
  <2>. QED
    BY <2>1, Zenon
<1>10. PICK tail \in Seq(Parser!Byte) : tail = <<1, 29>>
  <2>1. <<1, 29>> \in Seq(Parser!Byte)
    BY <1>8
  <2>. QED
    BY <2>1, Zenon
<1>11. Parser!Extension(s) = head \o collection \o tail
  BY <1>4, <1>9, <1>10 DEF Parser!Extension, layouts
<1>. QED
  BY <1>11

\* The buffer.
LEMMA EdidSegments ==
  ASSUME Parser!EdidAssumption, NEW s \in EdidSays
  PROVE  Parser!Segments(s) \in Seq(Seq(Parser!Byte))
<1>1. Parser!Header \in Seq(Parser!Byte) /\ Parser!Other \in Seq(Parser!Byte)
  <2>1. /\ 0 \in Parser!Byte /\ 255 \in Parser!Byte /\ 112 \in Parser!Byte
        /\ 1 \in Parser!Byte
    BY EdidBytes
  <2>. QED
    BY <2>1 DEF Parser!Header, Parser!Other
<1>2. PICK extension \in Seq(Parser!Byte) : extension = Parser!Extension(s)
  BY EdidExtension
<1>3. PICK base \in Seq(Parser!Byte) : base
               = IF s.valid THEN Parser!Header ELSE Parser!Other
  BY <1>1
<1>4. PICK other \in Seq(Parser!Byte) : other = Parser!Other
  BY <1>1
<1>5. s.place \in {0, 1, 2, 3}
  BY DEF EdidSays
<1>6. \/ Parser!Segments(s) = <<base>> \o <<>>
      \/ Parser!Segments(s) = <<base>> \o <<extension>>
      \/ Parser!Segments(s) = <<base>> \o <<other, extension, other>>
      \/ Parser!Segments(s) = <<base>> \o <<other>>
  <2>1. CASE s.place = 0
    BY <1>3, <2>1 DEF Parser!Segments
  <2>2. CASE s.place = 1
    BY <1>2, <1>3, <2>2 DEF Parser!Segments
  <2>3. CASE s.place = 2
    BY <1>2, <1>3, <1>4, <2>3 DEF Parser!Segments
  <2>4. CASE s.place = 3
    BY <1>3, <1>4, <2>4 DEF Parser!Segments
  <2>. QED
    BY <1>5, <2>1, <2>2, <2>3, <2>4
<1>7. /\ <<base>> \in Seq(Seq(Parser!Byte)) /\ <<>> \in Seq(Seq(Parser!Byte))
      /\ <<extension>> \in Seq(Seq(Parser!Byte))
      /\ <<other>> \in Seq(Seq(Parser!Byte))
      /\ <<other, extension, other>> \in Seq(Seq(Parser!Byte))
  OBVIOUS
<1>8. \A t, u \in Seq(Seq(Parser!Byte)) : t \o u \in Seq(Seq(Parser!Byte))
  OBVIOUS
<1>. QED
  BY <1>6, <1>7, <1>8

\* The copy of a segment keeps a list of segments.
LEMMA EdidCopy ==
  ASSUME NEW S, NEW list \in Seq(S), NEW i \in Nat, NEW segment \in S
  PROVE  Parser!Copy(list, i, segment) \in Seq(S)
<1>1. CASE i = 0
  BY <1>1 DEF Parser!Copy
<1>2. CASE i # 0
  <2>. DEFINE p == Parser!Place(Len(list) - 1, i)
  <2>1. PICK grown \in Seq(S) :
          grown = IF Len(list) < p + 1 THEN Append(list, segment) ELSE list
    <3>. HIDE DEF p
    <3>1. Append(list, segment) \in Seq(S)
      OBVIOUS
    <3>. QED
      BY <3>1, Zenon
  <2>2. Parser!Copy(list, i, segment) = [grown EXCEPT ![p + 1] = segment]
    BY <1>2, <2>1 DEF Parser!Copy
  <2>. HIDE DEF p
  <2>3. PICK n \in Nat : grown \in [1..n -> S]
    OBVIOUS
  <2>4. [grown EXCEPT ![p + 1] = segment] \in [1..n -> S]
    BY <2>3
  <2>5. [1..n -> S] \subseteq Seq(S)
    OBVIOUS
  <2>. QED
    BY <2>2, <2>4, <2>5
<1>. QED
  BY <1>1, <1>2

\* What is inductive of the parser.
EdidInv ==
  /\ e_said \in EdidSays \cup {Parser!Nothing}
  /\ Parser!TypeOK

LEMMA EdidAlways ==
  ASSUME Parser!EdidAssumption
  PROVE  Parser!Spec => []EdidInv
<1>1. Parser!Init => EdidInv
  BY DEF Parser!Init, EdidInv, Parser!TypeOK, Parser!Nothing
<1>2. EdidInv /\ [Parser!Next]_(Parser!vars) => EdidInv'
  <2>1. SUFFICES ASSUME EdidInv, [Parser!Next]_(Parser!vars) PROVE EdidInv'
    OBVIOUS
  <2>2. CASE UNCHANGED Parser!vars
    BY <2>1, <2>2 DEF Parser!vars, EdidInv, Parser!TypeOK
  <2>3. CASE Parser!Obtain
    <3>1. e_said' \in EdidSays
      BY <2>3 DEF Parser!Obtain, EdidSays
    <3>2. e_said'.status = "said"
      BY <3>1 DEF EdidSays
    <3>. QED
      BY <2>1, <2>3, <3>1, <3>2 DEF Parser!Obtain, EdidInv, Parser!TypeOK
  <2>4. CASE Parser!CopySegment
    <3>1. /\ e_said \in EdidSays /\ e_seg_iter \in Nat
          /\ e_copied \in Seq(Seq(Parser!Byte))
      BY <2>1, <2>4 DEF Parser!CopySegment, EdidInv, Parser!TypeOK
    <3>2. PICK segments \in Seq(Seq(Parser!Byte)) :
            segments = Parser!Segments(e_said)
      BY <3>1, EdidSegments
    <3>3. /\ e_seg_iter < Len(segments)
          /\ e_copied'
               = Parser!Copy(e_copied, e_seg_iter, segments[e_seg_iter + 1])
          /\ e_seg_iter' = e_seg_iter + 1 /\ UNCHANGED <<e_said, e_info>>
      BY <2>4, <3>2 DEF Parser!CopySegment
    <3>4. segments[e_seg_iter + 1] \in Seq(Parser!Byte)
      BY <3>1, <3>2, <3>3
    <3>5. e_copied' \in Seq(Seq(Parser!Byte))
      BY <3>1, <3>3, <3>4, EdidCopy
    <3>. QED
      BY <2>1, <3>1, <3>3, <3>5 DEF EdidInv, Parser!TypeOK
  <2>5. CASE Parser!CeaExtensionInfo
    <3>1. UNCHANGED <<e_said, e_seg_iter, e_copied>>
      BY <2>5 DEF Parser!CeaExtensionInfo
    <3>2. e_info'.status \in {"DISPLAYINFO_OK", "DISPLAYINFO_ERROR_GENERAL",
                              "DISPLAYINFO_ERROR_UNAVAILABLE"}
      BY <2>5 DEF Parser!CeaExtensionInfo
    <3>. QED
      BY <2>1, <3>1, <3>2 DEF EdidInv, Parser!TypeOK
  <2>6. CASE Parser!Drop
    BY <2>6 DEF Parser!Drop, EdidInv, Parser!TypeOK, Parser!Nothing
  <2>. QED
    BY <2>1, <2>2, <2>3, <2>4, <2>5, <2>6 DEF Parser!Next
<1>. QED
  BY <1>1, <1>2, PTL DEF Parser!Spec

-----------------------------------------------------------------------------
LEMMA EdidConcat ==
  ASSUME NEW s \in Seq(Parser!Byte), NEW t \in Seq(Parser!Byte)
  PROVE  /\ s \o t \in Seq(Parser!Byte)
         /\ Len(s) \in Nat /\ Len(t) \in Nat /\ Len(s \o t) = Len(s) + Len(t)
         /\ \A i \in 1..Len(s) : (s \o t)[i] = s[i]
         /\ \A j \in 1..Len(t) : (s \o t)[Len(s) + j] = t[j]
<1>1. /\ s \o t \in Seq(Parser!Byte)
      /\ Len(s) \in Nat /\ Len(t) \in Nat /\ Len(s \o t) = Len(s) + Len(t)
      /\ \A i \in 1..Len(s) : (s \o t)[i] = s[i]
  OBVIOUS
<1>2. ASSUME NEW j \in 1..Len(t)
      PROVE  (s \o t)[Len(s) + j] = t[j]
  <2>1. PICK i \in 1..(Len(s) + Len(t)) : i = Len(s) + j /\ ~(i <= Len(s))
    BY <1>1
  <2>2. (s \o t)[i] = t[i - Len(s)]
    BY <2>1
  <2>3. i - Len(s) = j
    BY <1>1, <2>1
  <2>. QED
    BY <2>1, <2>2, <2>3
<1>. QED
  BY <1>1, <1>2

\* The first n sequences lie in a row of theirs.
EdidLie(row, at, seqs, n) ==
  /\ row \in Seq(Parser!Byte)
  /\ at[n + 1] = Len(row)
  /\ \A k \in 1..n :
       /\ at[k] \in Nat /\ at[k] + Len(seqs[k]) <= Len(row)
       /\ at[k + 1] = at[k] + Len(seqs[k])
       /\ \A j \in 1..Len(seqs[k]) : row[at[k] + j] = seqs[k][j]

LEMMA EdidLies ==
  ASSUME NEW seqs \in Seq(Seq(Parser!Byte)), NEW n \in 0..(Len(seqs) - 1),
         NEW at, NEW row, EdidLie(row, at, seqs, n),
         at[n + 2] = Len(row) + Len(seqs[n + 1])
  PROVE  EdidLie(row \o seqs[n + 1], at, seqs, n + 1)
<1>1. PICK last \in Seq(Parser!Byte) : last = seqs[n + 1]
  OBVIOUS
<1>2. PICK long : long = row \o last
  OBVIOUS
<1>3. row \in Seq(Parser!Byte) /\ at[n + 1] = Len(row)
  BY DEF EdidLie
<1>4. /\ long \in Seq(Parser!Byte)
      /\ Len(row) \in Nat /\ Len(last) \in Nat
      /\ Len(long) = Len(row) + Len(last)
      /\ \A i \in 1..Len(row) : long[i] = row[i]
      /\ \A j \in 1..Len(last) : long[Len(row) + j] = last[j]
  BY <1>2, <1>3, EdidConcat
<1>5. n \in Nat /\ at[(n + 1) + 1] = Len(long)
  <2>1. n \in Nat /\ (n + 1) + 1 = n + 2
    OBVIOUS
  <2>. QED
    BY <1>1, <1>4, <2>1
<1>6. ASSUME NEW k \in 1..(n + 1)
      PROVE  /\ at[k] \in Nat /\ at[k] + Len(seqs[k]) <= Len(long)
             /\ at[k + 1] = at[k] + Len(seqs[k])
             /\ \A j \in 1..Len(seqs[k]) : long[at[k] + j] = seqs[k][j]
  <2>1. CASE k = n + 1
    <3>1. at[k] = Len(row) /\ seqs[k] = last
      BY <1>1, <1>3, <2>1
    <3>2. at[k + 1] = Len(long)
      BY <1>5, <2>1
    <3>3. \A j \in 1..Len(seqs[k]) : long[at[k] + j] = seqs[k][j]
      BY <1>4, <3>1
    <3>4. Len(row) + Len(last) <= Len(long)
      BY <1>4
    <3>. QED
      BY <1>4, <3>1, <3>2, <3>3, <3>4
  <2>2. CASE k # n + 1
    <3>1. k \in 1..n
      BY <1>5, <2>2
    <3>2. /\ at[k] \in Nat /\ at[k] + Len(seqs[k]) <= Len(row)
          /\ at[k + 1] = at[k] + Len(seqs[k])
          /\ \A j \in 1..Len(seqs[k]) : row[at[k] + j] = seqs[k][j]
      BY <3>1 DEF EdidLie
    <3>3. Len(seqs[k]) \in Nat
      BY <1>5, <3>1
    <3>4. \A j \in 1..Len(seqs[k]) : at[k] + j \in 1..Len(row)
      <4>1. PICK a, l, m \in Nat :
              a = at[k] /\ l = Len(seqs[k]) /\ m = Len(row)
        BY <1>4, <3>2, <3>3
      <4>2. a + l <= m
        BY <3>2, <4>1
      <4>3. \A j \in 1..l : a + j \in 1..m
        BY <4>2
      <4>. QED
        BY <4>1, <4>3
    <3>5. at[k] + Len(seqs[k]) <= Len(long)
      BY <1>4, <3>2, <3>3, SMTT(30)
    <3>. QED
      BY <1>4, <3>2, <3>4, <3>5
  <2>. QED
    BY <2>1, <2>2
<1>. QED
  BY <1>1, <1>2, <1>4, <1>5, <1>6 DEF EdidLie

LEMMA EdidPlaces ==
  ASSUME NEW seqs \in Seq(Seq(Parser!Byte))
  PROVE  \E at : EdidLie(Parser!FlattenSeq(seqs), at, seqs, Len(seqs))
                 /\ at[1] = 0
<1>1. Len(seqs) \in Nat /\ \A k \in 1..Len(seqs) : seqs[k] \in Seq(Parser!Byte)
  OBVIOUS
<1>2. CASE Len(seqs) = 0
  <2>1. Parser!FlattenSeq(seqs) = <<>>
    BY <1>2 DEF Parser!FlattenSeq
  <2>2. EdidLie(<<>>, [k \in 1..1 |-> 0], seqs, 0)
    BY DEF EdidLie
  <2>. QED
    BY <1>2, <2>1, <2>2
<1>3. CASE Len(seqs) # 0
  <2>1. PICK f : /\ EdidFlat(f, seqs, Len(seqs))
                 /\ Parser!FlattenSeq(seqs) = f[Len(seqs)]
    BY <1>1, <1>3, EdidFlattens DEF Parser!FlattenSeq, EdidFlat, EdidJoin
  <2>2. \A n \in 1..Len(seqs) : f[n]
            = IF n = 1 THEN seqs[n] ELSE f[n - 1] \o seqs[n]
    BY <1>1, <2>1 DEF EdidFlat, EdidJoin
  <2>. DEFINE at == [k \in 1..(Len(seqs) + 1) |->
                       IF k = 1 THEN 0 ELSE Len(f[k - 1])]
              Bad == {n \in 1..Len(seqs) : ~EdidLie(f[n], at, seqs, n)}
  <2>3. at[1] = 0 /\ \A k \in 1..Len(seqs) : at[k + 1] = Len(f[k])
    BY <1>1
  <2>. HIDE DEF at
  <2>4. SUFFICES ASSUME Bad # {} PROVE FALSE
    BY <1>1, <1>3, <2>1, <2>3
  <2>5. PICK n \in Bad : \A k \in Bad : ~(k < n)
    <3>1. Bad \in SUBSET Nat
      BY <1>1
    <3>. HIDE DEF Bad
    <3>. QED
      BY <2>4, <3>1, Least
  <2>6. n \in 1..Len(seqs) /\ ~EdidLie(f[n], at, seqs, n)
    BY <2>5
  <2>7. CASE n = 1
    <3>1. f[1] = seqs[1] /\ seqs[1] \in Seq(Parser!Byte) /\ at[2] = Len(f[1])
      BY <1>1, <2>2, <2>3, <2>6, <2>7
    <3>2. EdidLie(f[1], at, seqs, 1)
      BY <2>3, <3>1, SMTT(30) DEF EdidLie
    <3>. QED
      BY <2>6, <2>7, <3>2
  <2>8. CASE n # 1
    <3>1. /\ n - 1 \in 1..Len(seqs) /\ n - 1 \in 0..(Len(seqs) - 1)
          /\ (n - 1) + 1 = n /\ (n - 1) + 2 = n + 1
      BY <1>1, <2>6, <2>8
    <3>2. EdidLie(f[n - 1], at, seqs, n - 1)
      BY <2>5, <2>6, <3>1
    <3>3. f[n] = f[n - 1] \o seqs[n]
      BY <2>2, <2>6, <2>8
    <3>4. at[n + 1] = Len(f[n])
      BY <2>3, <2>6
    <3>5. f[n - 1] \in Seq(Parser!Byte) /\ seqs[n] \in Seq(Parser!Byte)
      BY <1>1, <2>6, <3>2 DEF EdidLie
    <3>6. at[(n - 1) + 2] = Len(f[n - 1]) + Len(seqs[(n - 1) + 1])
      <4>1. Len(f[n - 1] \o seqs[n]) = Len(f[n - 1]) + Len(seqs[n])
        BY <3>5, EdidConcat
      <4>. QED
        BY <3>1, <3>3, <3>4, <4>1
    <3>7. EdidLie(f[n - 1] \o seqs[(n - 1) + 1], at, seqs, (n - 1) + 1)
      BY <3>1, <3>2, <3>6, EdidLies
    <3>. QED
      BY <2>6, <3>1, <3>3, <3>7
  <2>. QED
    BY <2>7, <2>8
<1>. QED
  BY <1>2, <1>3

-----------------------------------------------------------------------------
\* One step of the walk, and the walk from index m on.
EdidStop(seg, from, i) ==
  IF i < 128 /\ i < seg[3] /\ Parser!BlockSize(seg, i) > 0
  THEN {i} \cup from[i + Parser!BlockSize(seg, i)] ELSE {}
EdidFrom(f, seg, m) == f = [i \in m..160 |-> EdidStop(seg, f, i)]

\* The indices of the data blocks have blocks.
EdidSized(seg) ==
  /\ seg[3] \in Int
  /\ \A i \in 4..127 : i < seg[3] => Parser!BlockSize(seg, i) \in 1..32

LEMMA EdidWalks ==
  ASSUME NEW seg, EdidSized(seg)
  PROVE  \E f : EdidFrom(f, seg, 4) /\ Parser!Walk(seg) = f[4]
<1>. DEFINE Bad == {n \in Nat : n <= 156 /\ ~\E f : EdidFrom(f, seg, 160 - n)}
<1>1. Bad = {}
  <2>1. SUFFICES ASSUME Bad # {} PROVE FALSE
    OBVIOUS
  <2>2. PICK n \in Bad : \A k \in Bad : ~(k < n)
    BY <2>1, Least
  <2>3. PICK m \in 4..160 : m = 160 - n
    BY <2>2
  <2>4. PICK g : m # 160 => EdidFrom(g, seg, m + 1)
    <3>1. CASE m = 160
      BY <3>1
    <3>2. CASE m # 160
      <4>1. n - 1 \in Nat /\ n - 1 <= 156 /\ n - 1 < n /\ 160 - (n - 1) = m + 1
        BY <2>2, <2>3, <3>2
      <4>2. \E h : EdidFrom(h, seg, 160 - (n - 1))
        BY <2>2, <4>1
      <4>. QED
        BY <4>1, <4>2
    <3>. QED
      BY <3>1, <3>2
  <2>. DEFINE f == [i \in m..160 |->
                      IF i = m THEN EdidStop(seg, g, m) ELSE g[i]]
  <2>5. ASSUME NEW i \in m..160 PROVE f[i] = EdidStop(seg, g, i)
    <3>1. i = m \/ (i \in (m + 1)..160 /\ m # 160)
      OBVIOUS
    <3>2. i # m => g[i] = EdidStop(seg, g, i)
      BY <2>4, <3>1 DEF EdidFrom
    <3>. QED
      BY <3>2
  <2>6. ASSUME NEW i \in m..160 PROVE EdidStop(seg, g, i) = EdidStop(seg, f, i)
    <3>1. CASE i < 128 /\ i < seg[3]
      <4>1. Parser!BlockSize(seg, i) \in 1..32
        BY <3>1, SMTT(30) DEF EdidSized
      <4>2. PICK j \in (m + 1)..160 : j = i + Parser!BlockSize(seg, i)
        BY <3>1, <4>1
      <4>3. f[j] = g[j]
        BY <4>2
      <4>. QED
        BY <4>2, <4>3 DEF EdidStop
    <3>2. CASE ~(i < 128 /\ i < seg[3])
      BY <3>2 DEF EdidStop
    <3>. QED
      BY <3>1, <3>2
  <2>7. EdidFrom(f, seg, m)
    <3>1. \A i \in m..160 : f[i] = EdidStop(seg, f, i)
      BY <2>5, <2>6
    <3>. QED
      BY <3>1 DEF EdidFrom
  <2>. QED
    BY <2>2, <2>3, <2>7
<1>2. \E f : EdidFrom(f, seg, 4)
  <2>1. 156 \in Nat /\ 160 - 156 = 4 /\ 156 <= 156
    OBVIOUS
  <2>. QED
    BY <1>1, <2>1
<1>. DEFINE Loop(f) == f = [i \in 4..160 |->
              IF i < 128 /\ i < seg[3] /\ Parser!BlockSize(seg, i) > 0
              THEN {i} \cup f[i + Parser!BlockSize(seg, i)] ELSE {}]
<1>3. \A f : EdidFrom(f, seg, 4) <=> Loop(f)
  BY DEF EdidFrom, EdidStop
<1>4. Parser!Walk(seg) = (CHOOSE f : Loop(f))[4]
  BY Zenon DEF Parser!Walk
<1>. HIDE DEF Loop
<1>5. Loop(CHOOSE f : Loop(f))
  BY <1>2, <1>3
<1>. QED
  BY <1>3, <1>4, <1>5

-----------------------------------------------------------------------------
\* The bytes of a data block.
EdidLaid(b, bytes) ==
  \/ /\ b.type = "audio" /\ b.formats = <<1>>
     /\ Len(bytes) = 4 /\ bytes[1] = 35 /\ bytes[2] = 9 /\ bytes[4] = 1
  \/ /\ b.type = "audio" /\ b.formats = <<2, 10>>
     /\ Len(bytes) = 7 /\ bytes[1] = 38
     /\ bytes[2] = 17 /\ bytes[4] = 1 /\ bytes[5] = 81 /\ bytes[7] = 1
  \/ /\ b.type = "video" /\ b.vics[1] \in Vics
     /\ Len(bytes) = 2 /\ bytes[1] = 65 /\ bytes[2] = b.vics[1]
  \/ /\ b.type = "licensing" /\ b.bits \in {{}, {4}, {3, 4, 5}, {3, 6}}
     /\ Len(bytes) = 7 /\ bytes[1] = 102 /\ bytes[2] = 3 /\ bytes[3] = 12
     /\ bytes[4] = 0 /\ bytes[7] = Parser!Ones(b.bits)
  \/ /\ b.type = "short"
     /\ Len(bytes) = 6 /\ bytes[1] = 101 /\ bytes[2] = 3 /\ bytes[3] = 12
     /\ bytes[4] = 0
  \/ /\ b.type = "forum" /\ b.bits \in {{}, {0}, {2}}
     /\ Len(bytes) = 8 /\ bytes[1] = 103 /\ bytes[2] = 216 /\ bytes[3] = 93
     /\ bytes[4] = 196 /\ bytes[8] = Parser!Ones(b.bits)
  \/ /\ b.type = "map"
     /\ Len(bytes) = 3 /\ bytes[1] = 226 /\ bytes[2] = 15
  \/ /\ b.type = "colorimetry"
     /\ Len(bytes) = 4 /\ bytes[1] = 227 /\ bytes[2] = 5
     /\ bytes[3] = 192 /\ bytes[4] = 128

\* A byte before a row.
LEMMA EdidPrefixed ==
  ASSUME NEW byte \in Parser!Byte, NEW row \in Seq(Parser!Byte)
  PROVE  /\ Len(<<byte>> \o row) = 1 + Len(row) /\ (<<byte>> \o row)[1] = byte
         /\ \A j \in 1..Len(row) : (<<byte>> \o row)[1 + j] = row[j]
<1>1. PICK head \in Seq(Parser!Byte) : head = <<byte>>
  <2>1. <<byte>> \in Seq(Parser!Byte)
    OBVIOUS
  <2>. QED
    BY <2>1, Zenon
<1>2. Len(head) = 1 /\ head[1] = byte
  BY <1>1
<1>3. /\ Len(head \o row) = Len(head) + Len(row)
      /\ \A i \in 1..Len(head) : (head \o row)[i] = head[i]
      /\ \A j \in 1..Len(row) : (head \o row)[Len(head) + j] = row[j]
  BY EdidConcat
<1>4. PICK l : l = head \o row
  OBVIOUS
<1>5. /\ Len(l) = 1 + Len(row) /\ l[1] = byte
      /\ \A j \in 1..Len(row) : l[1 + j] = row[j]
  BY <1>2, <1>3, <1>4
<1>. QED
  BY <1>1, <1>4, <1>5, Zenon

LEMMA EdidAudioLaid ==
  ASSUME NEW b \in [type : {"audio"}, formats : {<< 1 >>, << 2, 10 >>}]
  PROVE  EdidLaid(b, Parser!Layout(b))
<1>. DEFINE sads == [i \in DOMAIN b.formats |->
         <<8 * b.formats[i] + 1, 7, 1>>]
<1>1. /\ b.type = "audio"
      /\ Parser!Layout(b)
           = <<32 + 3 * Len(b.formats)>> \o Parser!FlattenSeq(sads)
  BY DEF Parser!Layout
<1>2. PICK l : l = Parser!Layout(b)
  OBVIOUS
<1>3. /\ 9 \in Parser!Byte /\ 17 \in Parser!Byte /\ 81 \in Parser!Byte
      /\ 35 \in Parser!Byte /\ 38 \in Parser!Byte
      /\ 7 \in Parser!Byte /\ 1 \in Parser!Byte
  BY EdidBytes
<1>4. /\ <<9, 7, 1>> \in Seq(Parser!Byte) /\ <<17, 7, 1>> \in Seq(Parser!Byte)
      /\ <<81, 7, 1>> \in Seq(Parser!Byte)
  BY <1>3
<1>5. CASE b.formats = <<1>>
  <2>1. PICK sad \in Seq(Parser!Byte) : sad = <<9, 7, 1>>
    BY <1>4, Zenon
  <2>2. Len(sad) = 3 /\ sad[1] = 9 /\ sad[3] = 1
    BY <2>1
  <2>3. sads = [i \in 1..1 |-> sad]
    BY <1>5, <2>1
  <2>. HIDE DEF sads
  <2>4. sads \in Seq(Seq(Parser!Byte)) /\ Len(sads) = 1 /\ sads[1] = sad
    BY <2>3
  <2>5. PICK row : row = Parser!FlattenSeq(sads)
    OBVIOUS
  <2>6. PICK at : EdidLie(row, at, sads, 1) /\ at[1] = 0
    BY <2>4, <2>5, EdidPlaces
  <2>7. /\ row \in Seq(Parser!Byte) /\ at[2] = Len(row)
        /\ at[2] = at[1] + Len(sads[1])
        /\ \A j \in 1..Len(sads[1]) : row[at[1] + j] = sads[1][j]
    BY <2>6 DEF EdidLie
  <2>8. Len(row) = 3 /\ \A j \in 1..3 : row[0 + j] = sad[j]
    <3>1. /\ Len(row) = 0 + Len(sad)
          /\ \A j \in 1..Len(sad) : row[0 + j] = sad[j]
      BY <2>4, <2>6, <2>7, Zenon
    <3>. QED
      BY <2>2, <3>1
  <2>9. row[1] = 9 /\ row[3] = 1
    BY <2>2, <2>8
  <2>10. l = <<35>> \o row
    <3>1. 32 + 3 * Len(b.formats) = 35
      BY <1>5
    <3>. QED
      BY <1>1, <1>2, <2>5, <3>1
  <2>11. /\ Len(<<35>> \o row) = 1 + Len(row) /\ (<<35>> \o row)[1] = 35
         /\ \A j \in 1..Len(row) : (<<35>> \o row)[1 + j] = row[j]
    BY <1>3, <2>7, EdidPrefixed, ZenonT(60)
  <2>12. Len(l) = 1 + 3 /\ l[1] = 35 /\ \A j \in 1..3 : l[1 + j] = row[j]
    BY <2>8, <2>10, <2>11, Zenon
  <2>13. Len(l) = 4 /\ l[2] = 9 /\ l[4] = 1
    BY <2>9, <2>12
  <2>. QED
    BY <1>1, <1>2, <1>5, <2>12, <2>13 DEF EdidLaid
<1>6. CASE b.formats = <<2, 10>>
  <2>1. PICK one \in Seq(Parser!Byte), two \in Seq(Parser!Byte) :
          one = <<17, 7, 1>> /\ two = <<81, 7, 1>>
    BY <1>4, Zenon
  <2>2. /\ Len(one) = 3 /\ one[1] = 17 /\ one[3] = 1
        /\ Len(two) = 3 /\ two[1] = 81 /\ two[3] = 1
    BY <2>1
  <2>3. sads = [i \in 1..2 |-> IF i = 1 THEN one ELSE two]
    BY <1>6, <2>1
  <2>. HIDE DEF sads
  <2>4. /\ sads \in Seq(Seq(Parser!Byte)) /\ Len(sads) = 2
        /\ sads[1] = one /\ sads[2] = two
    BY <2>3
  <2>5. PICK row : row = Parser!FlattenSeq(sads)
    OBVIOUS
  <2>6. PICK at : EdidLie(row, at, sads, 2) /\ at[1] = 0
    BY <2>4, <2>5, EdidPlaces
  <2>7. /\ row \in Seq(Parser!Byte) /\ at[2 + 1] = Len(row)
        /\ \A k \in 1..2 :
             /\ at[k + 1] = at[k] + Len(sads[k])
             /\ \A j \in 1..Len(sads[k]) : row[at[k] + j] = sads[k][j]
    BY <2>6 DEF EdidLie
  <2>8. /\ at[1 + 1] = at[1] + Len(one) /\ at[2 + 1] = at[2] + Len(two)
        /\ \A j \in 1..Len(one) : row[at[1] + j] = one[j]
        /\ \A j \in 1..Len(two) : row[at[2] + j] = two[j]
    <3>1. 1 \in 1..2 /\ 2 \in 1..2
      OBVIOUS
    <3>. QED
      BY <2>4, <2>7, <3>1
  <2>9. PICK x, y : x = at[2] /\ y = at[3]
    OBVIOUS
  <2>10. x = 0 + 3 /\ y = x + 3
    BY <2>2, <2>6, <2>8, <2>9
  <2>11. /\ Len(row) = 6 /\ \A j \in 1..3 : row[0 + j] = one[j]
         /\ \A j \in 1..3 : row[3 + j] = two[j]
    BY <2>2, <2>6, <2>7, <2>8, <2>9, <2>10
  <2>12. row[1] = 17 /\ row[3] = 1 /\ row[4] = 81 /\ row[6] = 1
    BY <2>2, <2>11
  <2>13. l = <<38>> \o row
    <3>1. 32 + 3 * Len(b.formats) = 38
      BY <1>6
    <3>. QED
      BY <1>1, <1>2, <2>5, <3>1
  <2>14. /\ Len(<<38>> \o row) = 1 + Len(row) /\ (<<38>> \o row)[1] = 38
         /\ \A j \in 1..Len(row) : (<<38>> \o row)[1 + j] = row[j]
    BY <1>3, <2>7, EdidPrefixed
  <2>15. Len(l) = 1 + 6 /\ l[1] = 38 /\ \A j \in 1..6 : l[1 + j] = row[j]
    BY <2>11, <2>13, <2>14, Zenon
  <2>16. Len(l) = 7 /\ l[2] = 17 /\ l[4] = 1 /\ l[5] = 81 /\ l[7] = 1
    BY <2>12, <2>15
  <2>. QED
    BY <1>1, <1>2, <1>6, <2>15, <2>16 DEF EdidLaid
<1>. QED
  BY <1>5, <1>6

LEMMA EdidLays ==
  ASSUME Parser!EdidAssumption, NEW b \in Parser!DataBlocks
  PROVE  EdidLaid(b, Parser!Layout(b))
<1>1. CASE b \in [type : {"audio"}, formats : {<<1>>, <<2, 10>>}]
  BY <1>1, EdidAudioLaid
<1>2. CASE b \in [type : {"video"}, vics : {<<v>> : v \in Vics}]
  <2>1. PICK v \in Vics : b.vics = <<v>>
    BY <1>2
  <2>2. v \in Parser!Byte /\ 65 \in Parser!Byte
    BY EdidBytes DEF Parser!EdidAssumption
  <2>3. Parser!Layout(b) = <<65>> \o <<v>>
    <3>1. 64 + Len(b.vics) = 65
      BY <2>1
    <3>. QED
      BY <1>2, <2>1, <3>1 DEF Parser!Layout
  <2>4. /\ Len(<<65>> \o <<v>>) = 2 /\ (<<65>> \o <<v>>)[1] = 65
        /\ (<<65>> \o <<v>>)[2] = v
    BY <2>2
  <2>. QED
    BY <1>2, <2>1, <2>3, <2>4 DEF EdidLaid
<1>3. CASE b \in [type : {"licensing"}, bits : {{}, {4}, {3, 4, 5}, {3, 6}}]
  <2>1. Parser!Layout(b) = <<96 + 6, 3, 12, 0, 16, 0, Parser!Ones(b.bits)>>
    BY <1>3 DEF Parser!Layout
  <2>. QED
    BY <1>3, <2>1 DEF EdidLaid
<1>4. CASE b \in [type : {"short", "map", "colorimetry"}]
  <2>1. CASE b.type = "short"
    <3>1. Parser!Layout(b) = <<96 + 5, 3, 12, 0, 16, 0>>
      BY <2>1 DEF Parser!Layout
    <3>. QED
      BY <2>1, <3>1 DEF EdidLaid
  <2>2. CASE b.type = "map"
    <3>1. Parser!Layout(b) = <<224 + 2, 15, 3>>
      BY <2>2 DEF Parser!Layout
    <3>. QED
      BY <2>2, <3>1 DEF EdidLaid
  <2>3. CASE b.type = "colorimetry"
    <3>1. Parser!Layout(b) = <<224 + 3, 5, 192, 128>>
      BY <2>3 DEF Parser!Layout
    <3>. QED
      BY <2>3, <3>1 DEF EdidLaid
  <2>. QED
    BY <1>4, <2>1, <2>2, <2>3
<1>5. CASE b \in [type : {"forum"}, bits : {{}, {0}, {2}}]
  <2>1. Parser!Layout(b)
          = <<96 + 7, 216, 93, 196, 1, 120, 0, Parser!Ones(b.bits)>>
    BY <1>5 DEF Parser!Layout
  <2>. QED
    BY <1>5, <2>1 DEF EdidLaid
<1>. QED
  BY <1>1, <1>2, <1>3, <1>4, <1>5 DEF Parser!DataBlocks

\* Block b begins at index i of the segment.
EdidAt(seg, i, b) ==
  /\ i \in Nat
  /\ EdidLaid(b, Parser!Layout(b))
  /\ \A j \in 1..Len(Parser!Layout(b)) : seg[i + j] = Parser!Layout(b)[j]

\* What the parser takes a block for.
LEMMA EdidMarks ==
  ASSUME NEW seg, NEW i, NEW b, EdidAt(seg, i, b)
  PROVE  /\ Parser!BlockSize(seg, i) = Len(Parser!Layout(b))
         /\ Parser!BlockTag(seg, i) = 1 <=> b.type = "audio"
         /\ Parser!BlockTag(seg, i) = 2 <=> b.type = "video"
         /\ Parser!BlockTag(seg, i) = 256 + 15 <=> b.type = "map"
         /\ Parser!BlockTag(seg, i) = 256 + 5
              /\ Parser!BlockSize(seg, i) > 3 <=> b.type = "colorimetry"
         /\ Parser!Vendor(seg, i, Parser!OUI_HDMI_LICENSING, 6)
              <=> b.type = "licensing"
         /\ Parser!Vendor(seg, i, Parser!OUI_HDMI_FORUM, 7)
              <=> b.type = "forum"
<1>. DEFINE l == Parser!Layout(b)
<1>1. i \in Nat /\ EdidLaid(b, l) /\ \A j \in 1..Len(l) : seg[i + j] = l[j]
  BY DEF EdidAt
<1>. HIDE DEF l
<1>2. PICK size, tag : size = Parser!BlockSize(seg, i)
                       /\ tag = Parser!BlockTag(seg, i)
  OBVIOUS
<1>3. ASSUME NEW x \in Nat, NEW y, seg[i + 1] = x, seg[i + 2] = y
      PROVE  /\ size = (x % 32) + 1
             /\ x \div 32 # 7 => tag = x \div 32
             /\ x \div 32 = 7 /\ (x % 32) + 1 >= 2 => tag = 256 + y
  BY <1>2, <1>3 DEF Parser!BlockSize, Parser!BlockTag
<1>4. /\ 35 % 32 = 3 /\ 38 % 32 = 6 /\ 65 % 32 = 1 /\ 102 % 32 = 6
      /\ 101 % 32 = 5 /\ 103 % 32 = 7 /\ 226 % 32 = 2 /\ 227 % 32 = 3
      /\ 35 \div 32 = 1 /\ 38 \div 32 = 1 /\ 65 \div 32 = 2
      /\ 102 \div 32 = 3 /\ 101 \div 32 = 3 /\ 103 \div 32 = 3
      /\ 226 \div 32 = 7 /\ 227 \div 32 = 7
  OBVIOUS
<1>5. ASSUME NEW n \in 2..8, Len(l) = n
      PROVE  /\ seg[i + 1] = l[1] /\ seg[i + 2] = l[2]
             /\ n >= 4 => seg[i + 3] = l[3] /\ seg[i + 4] = l[4]
  BY <1>1, <1>5
<1>6. /\ size >= 4 => Parser!OUI(seg, i)
                        = seg[i + 2] + 256 * seg[i + 3] + 65536 * seg[i + 4]
      /\ Parser!Vendor(seg, i, Parser!OUI_HDMI_LICENSING, 6)
           <=> tag = 3 /\ size > 6 /\ Parser!OUI(seg, i) = 3075
      /\ Parser!Vendor(seg, i, Parser!OUI_HDMI_FORUM, 7)
           <=> tag = 3 /\ size > 7 /\ Parser!OUI(seg, i) = 12869080
  BY <1>2 DEF Parser!OUI, Parser!Vendor, Parser!OUI_HDMI_LICENSING,
              Parser!OUI_HDMI_FORUM
<1>7. CASE b.type = "audio"
  <2>1. \/ Len(l) = 4 /\ l[1] = 35
        \/ Len(l) = 7 /\ l[1] = 38
    BY <1>1, <1>7 DEF EdidLaid
  <2>2. size = Len(l) /\ tag = 1
    <3>1. CASE Len(l) = 4 /\ l[1] = 35
      BY <1>3, <1>4, <1>5, <3>1
    <3>2. CASE Len(l) = 7 /\ l[1] = 38
      BY <1>3, <1>4, <1>5, <3>2
    <3>. QED
      BY <2>1, <3>1, <3>2
  <2>. QED
    BY <1>2, <1>6, <1>7, <2>2 DEF l
<1>8. CASE b.type = "video"
  <2>1. Len(l) = 2 /\ l[1] = 65
    BY <1>1, <1>8 DEF EdidLaid
  <2>2. size = Len(l) /\ tag = 2
    BY <1>3, <1>4, <1>5, <2>1
  <2>. QED
    BY <1>2, <1>6, <1>8, <2>2 DEF l
<1>9. CASE b.type = "licensing"
  <2>1. Len(l) = 7 /\ l[1] = 102 /\ l[2] = 3 /\ l[3] = 12 /\ l[4] = 0
    BY <1>1, <1>9 DEF EdidLaid
  <2>2. size = 7 /\ tag = 3
    BY <1>3, <1>4, <1>5, <2>1
  <2>3. Parser!OUI(seg, i) = 3075
    BY <1>5, <1>6, <2>1, <2>2
  <2>. QED
    BY <1>2, <1>6, <1>9, <2>1, <2>2, <2>3 DEF l
<1>10. CASE b.type = "short"
  <2>1. Len(l) = 6 /\ l[1] = 101
    BY <1>1, <1>10 DEF EdidLaid
  <2>2. size = 6 /\ tag = 3
    BY <1>3, <1>4, <1>5, <2>1
  <2>. QED
    BY <1>2, <1>6, <1>10, <2>1, <2>2 DEF l
<1>11. CASE b.type = "forum"
  <2>1. Len(l) = 8 /\ l[1] = 103 /\ l[2] = 216 /\ l[3] = 93 /\ l[4] = 196
    BY <1>1, <1>11 DEF EdidLaid
  <2>2. size = 8 /\ tag = 3
    BY <1>3, <1>4, <1>5, <2>1
  <2>3. Parser!OUI(seg, i) = 12869080
    BY <1>5, <1>6, <2>1, <2>2
  <2>. QED
    BY <1>2, <1>6, <1>11, <2>1, <2>2, <2>3 DEF l
<1>12. CASE b.type = "map"
  <2>1. Len(l) = 3 /\ l[1] = 226 /\ l[2] = 15
    BY <1>1, <1>12 DEF EdidLaid
  <2>2. size = 3 /\ tag = 256 + 15
    BY <1>3, <1>4, <1>5, <2>1
  <2>. QED
    BY <1>2, <1>6, <1>12, <2>1, <2>2 DEF l
<1>13. CASE b.type = "colorimetry"
  <2>1. Len(l) = 4 /\ l[1] = 227 /\ l[2] = 5
    BY <1>1, <1>13 DEF EdidLaid
  <2>2. size = 4 /\ tag = 256 + 5
    BY <1>3, <1>4, <1>5, <2>1
  <2>. QED
    BY <1>2, <1>6, <1>13, <2>1, <2>2 DEF l
<1>14. b.type \in {"audio", "video", "licensing", "short", "forum", "map",
                   "colorimetry"}
  BY <1>1 DEF EdidLaid
<1>. QED
  BY <1>7, <1>8, <1>9, <1>10, <1>11, <1>12, <1>13, <1>14, Zenon

-----------------------------------------------------------------------------
\* The data blocks follow each other from index 4 to the descriptors.
EdidChain(seg, blocks, at, n) ==
  /\ n \in Nat /\ at[1] = 4 /\ at[n + 1] = seg[3] /\ seg[3] \in 4..124
  /\ \A k \in 1..n : EdidAt(seg, at[k], blocks[k])
                     /\ at[k + 1] = at[k] + Len(Parser!Layout(blocks[k]))

\* What begins an extension.
EdidTagged(seg, s) ==
  seg[1] = 2 /\ seg[2] = s.version /\ seg[4] = Parser!Ones(s.flags)

\* A row between a head of four bytes and a tail.
LEMMA EdidFrame ==
  ASSUME NEW head \in Seq(Parser!Byte), NEW row \in Seq(Parser!Byte),
         NEW tail \in Seq(Parser!Byte), Len(head) = 4
  PROVE  /\ head \o row \o tail \in Seq(Parser!Byte)
         /\ Len(head \o row \o tail) = 4 + Len(row) + Len(tail)
         /\ \A i \in 1..4 : (head \o row \o tail)[i] = head[i]
         /\ \A i \in 1..Len(row) : (head \o row \o tail)[4 + i] = row[i]
<1>. DEFINE seg == head \o row \o tail
<1>1. PICK most : most = head \o row
  OBVIOUS
<1>2. /\ most \in Seq(Parser!Byte) /\ Len(most) = Len(head) + Len(row)
      /\ \A i \in 1..Len(head) : most[i] = head[i]
      /\ \A i \in 1..Len(row) : most[Len(head) + i] = row[i]
  BY <1>1, EdidConcat, ZenonT(60)
<1>3. /\ seg \in Seq(Parser!Byte) /\ Len(seg) = Len(most) + Len(tail)
      /\ \A i \in 1..Len(most) : seg[i] = most[i]
  <2>1. seg = most \o tail
    BY <1>1
  <2>2. most \in Seq(Parser!Byte)
    BY <1>2
  <2>3. /\ most \o tail \in Seq(Parser!Byte)
        /\ Len(most \o tail) = Len(most) + Len(tail)
        /\ \A i \in 1..Len(most) : (most \o tail)[i] = most[i]
    BY <2>2, EdidConcat, Zenon
  <2>. QED
    BY <2>1, <2>3, Zenon
<1>4. PICK r, t \in Nat : r = Len(row) /\ t = Len(tail)
  OBVIOUS
<1>5. /\ Len(most) = 4 + r /\ Len(seg) = 4 + r + t
      /\ \A i \in 1..4 : most[i] = head[i]
      /\ \A i \in 1..r : most[4 + i] = row[i]
      /\ \A i \in 1..(4 + r) : seg[i] = most[i]
  BY <1>2, <1>3, <1>4
<1>6. /\ \A i \in 1..4 : i \in 1..(4 + r)
      /\ \A i \in 1..r : 4 + i \in 1..(4 + r)
  BY <1>4
<1>. HIDE DEF seg
<1>7. /\ seg \in Seq(Parser!Byte) /\ Len(seg) = 4 + Len(row) + Len(tail)
      /\ \A i \in 1..4 : seg[i] = head[i]
      /\ \A i \in 1..Len(row) : seg[4 + i] = row[i]
  BY <1>3, <1>4, <1>5, <1>6
<1>. QED
  BY <1>7 DEF seg

LEMMA EdidChained ==
  ASSUME Parser!EdidAssumption, NEW s \in EdidSays,
         NEW n \in Nat, s.blocks \in [1..n -> Parser!DataBlocks], n <= 15,
         NEW seg, seg = Parser!Extension(s)
  PROVE  /\ EdidTagged(seg, s) /\ EdidSized(seg)
         /\ \E at : EdidChain(seg, s.blocks, at, n)
<1>. DEFINE layouts == [i \in DOMAIN s.blocks |-> Parser!Layout(s.blocks[i])]
<1>1. /\ layouts \in Seq(Seq(Parser!Byte)) /\ Len(layouts) = n
      /\ \A i \in 1..Len(layouts) : Len(layouts[i]) <= 8
  <2>1. DOMAIN s.blocks = 1..n
    OBVIOUS
  <2>2. \A i \in 1..n : s.blocks[i] \in Parser!DataBlocks
    OBVIOUS
  <2>3. \A i \in 1..n : /\ Parser!Layout(s.blocks[i]) \in Seq(Parser!Byte)
                       /\ Len(Parser!Layout(s.blocks[i])) <= 8
    BY <2>2, EdidLayout
  <2>4. layouts \in [1..n -> Seq(Parser!Byte)]
    BY <2>1, <2>3
  <2>. QED
    BY <2>1, <2>3, <2>4
<1>2. \A k \in 1..n : layouts[k] = Parser!Layout(s.blocks[k])
  OBVIOUS
<1>3. PICK row : row = Parser!FlattenSeq(layouts)
  OBVIOUS
<1>4. Parser!Extension(s)
        = <<2, s.version, 4 + Len(row), Parser!Ones(s.flags)>> \o row
            \o <<1, 29>>
  BY <1>3 DEF Parser!Extension
<1>. HIDE DEF layouts
<1>5. PICK at : EdidLie(row, at, layouts, n) /\ at[1] = 0
  BY <1>1, <1>3, EdidPlaces
<1>6. row \in Seq(Parser!Byte) /\ Len(row) <= 8 * n
  BY <1>1, <1>3, EdidRow
<1>7. Len(row) \in Nat /\ Len(row) <= 120
  BY <1>6
<1>8. PICK head \in Seq(Parser!Byte) :
        head = <<2, s.version, 4 + Len(row), Parser!Ones(s.flags)>>
  <2>1. /\ 2 \in Parser!Byte /\ s.version \in Parser!Byte
        /\ 4 + Len(row) \in Parser!Byte
    BY <1>7, EdidBytes DEF EdidSays
  <2>2. <<2, s.version, 4 + Len(row), Parser!Ones(s.flags)>>
          \in Seq(Parser!Byte)
    BY <2>1, EdidOnes
  <2>. QED
    BY <2>2, Zenon
<1>9. PICK tail \in Seq(Parser!Byte) : tail = <<1, 29>>
  <2>1. <<1, 29>> \in Seq(Parser!Byte)
    BY EdidBytes, SMTT(30)
  <2>. QED
    BY <2>1, Zenon
<1>10. /\ Len(head) = 4 /\ head[1] = 2 /\ head[2] = s.version
       /\ head[3] = 4 + Len(row) /\ head[4] = Parser!Ones(s.flags)
       /\ Len(tail) = 2
  BY <1>8, <1>9
<1>11. seg = head \o row \o tail
  BY <1>4, <1>8, <1>9
<1>12. PICK r \in Nat : r = Len(row) /\ r <= 120
  BY <1>7
<1>13. /\ seg \in Seq(Parser!Byte)
       /\ Len(seg) = 4 + Len(row) + Len(tail)
       /\ \A i \in 1..4 : seg[i] = head[i]
       /\ \A i \in 1..Len(row) : seg[4 + i] = row[i]
  <2>1. row \in Seq(Parser!Byte) /\ Len(head) = 4
    BY <1>6, <1>10
  <2>2. /\ head \o row \o tail \in Seq(Parser!Byte)
        /\ Len(head \o row \o tail) = 4 + Len(row) + Len(tail)
        /\ \A i \in 1..4 : (head \o row \o tail)[i] = head[i]
        /\ \A i \in 1..Len(row) :
             (head \o row \o tail)[4 + i] = row[i]
    BY <2>1, EdidFrame, ZenonT(60)
  <2>. QED
    BY <1>11, <2>2, Zenon
<1>14. /\ seg \in Seq(Parser!Byte) /\ Len(seg) = 4 + r + 2
       /\ \A i \in 1..4 : seg[i] = head[i]
       /\ \A i \in 1..r : seg[4 + i] = row[i]
  BY <1>10, <1>12, <1>13, Zenon
<1>16. seg[1] = 2 /\ seg[2] = s.version /\ seg[3] = 4 + r
       /\ seg[4] = Parser!Ones(s.flags)
  BY <1>10, <1>12, <1>14
<1>17. EdidSized(seg)
  <2>1. ASSUME NEW i \in 4..127, i < seg[3]
        PROVE  Parser!BlockSize(seg, i) \in 1..32
    <3>1. i + 1 \in 1..Len(seg)
      BY <1>12, <1>14, <1>16, <2>1
    <3>2. PICK x \in Nat : x = seg[i + 1]
      BY <1>14, <3>1, EdidBytes
    <3>3. (x % 32) + 1 \in 1..32
      OBVIOUS
    <3>. QED
      BY <3>2, <3>3 DEF Parser!BlockSize
  <2>. QED
    BY <1>12, <1>16, <2>1 DEF EdidSized
<1>18. /\ at[n + 1] = r
       /\ \A k \in 1..n :
            /\ at[k] \in Nat /\ at[k] + Len(layouts[k]) <= r
            /\ at[k + 1] = at[k] + Len(layouts[k])
            /\ \A j \in 1..Len(layouts[k]) : row[at[k] + j] = layouts[k][j]
  BY <1>5, <1>12 DEF EdidLie
<1>19. PICK places : places = [k \in 1..(n + 1) |-> 4 + at[k]]
  OBVIOUS
<1>20. ASSUME NEW k \in 1..n
       PROVE  /\ EdidAt(seg, places[k], s.blocks[k])
              /\ places[k + 1]
                   = places[k] + Len(Parser!Layout(s.blocks[k]))
  <2>1. PICK bytes : bytes = Parser!Layout(s.blocks[k])
    OBVIOUS
  <2>2. layouts[k] = bytes /\ EdidLaid(s.blocks[k], bytes)
    BY <1>2, <2>1, EdidLays
  <2>3. Len(bytes) \in Nat
    BY <2>2 DEF EdidLaid
  <2>4. PICK a, m \in Nat : a = at[k] /\ m = Len(bytes)
    BY <1>18, <2>3
  <2>5. /\ a + m <= r /\ at[k + 1] = a + m
        /\ \A j \in 1..m : row[a + j] = bytes[j]
    BY <1>18, <2>2, <2>4
  <2>6. places[k] = 4 + a /\ places[k + 1] = 4 + (a + m)
    BY <1>19, <2>4, <2>5, SMTT(30)
  <2>7. ASSUME NEW j \in 1..m
        PROVE  seg[(4 + a) + j] = bytes[j]
    <3>1. PICK i \in 1..r : i = a + j /\ 4 + i = (4 + a) + j
      BY <2>5
    <3>2. seg[4 + i] = row[i]
      BY <1>14
    <3>. QED
      BY <2>5, <3>1, <3>2
  <2>8. EdidAt(seg, places[k], s.blocks[k])
    BY <2>1, <2>2, <2>4, <2>6, <2>7 DEF EdidAt
  <2>9. 4 + (a + m) = (4 + a) + m
    OBVIOUS
  <2>. QED
    BY <2>1, <2>4, <2>6, <2>8, <2>9
<1>21. places[1] = 4 /\ places[n + 1] = 4 + r
  BY <1>5, <1>18, <1>19
<1>22. EdidChain(seg, s.blocks, places, n)
  <2>1. \A i \in Nat : i <= 120 => 4 + i \in 4..124
    OBVIOUS
  <2>2. 4 + r \in 4..124
    BY <1>12, <2>1, Zenon
  <2>. QED
    BY <1>16, <1>20, <1>21, <2>2 DEF EdidChain
<1>. QED
  BY <1>16, <1>17, <1>22 DEF EdidTagged

\* The blocks of a chain lie one above the other.
LEMMA EdidRises ==
  ASSUME NEW seg, NEW blocks, NEW at, NEW n, EdidChain(seg, blocks, at, n)
  PROVE  /\ \A k \in 1..(n + 1) : at[k] \in 4..124
         /\ \A j, k \in 1..(n + 1) : j < k => at[j] < at[k]
         /\ \A k \in 1..n : at[k] < at[k + 1]
<1>1. /\ n \in Nat /\ at[1] = 4 /\ at[n + 1] = seg[3] /\ seg[3] \in 4..124
  BY DEF EdidChain
<1>2. ASSUME NEW k \in 1..n
      PROVE  at[k] \in Nat /\ at[k + 1] \in Nat /\ at[k] < at[k + 1]
  <2>1. EdidAt(seg, at[k], blocks[k])
        /\ at[k + 1] = at[k] + Len(Parser!Layout(blocks[k]))
    BY DEF EdidChain
  <2>2. Len(Parser!Layout(blocks[k])) \in 2..8
    BY <2>1 DEF EdidAt, EdidLaid
  <2>3. at[k] \in Nat
    BY <2>1 DEF EdidAt
  <2>4. PICK a \in Nat, m \in 2..8 :
          a = at[k] /\ m = Len(Parser!Layout(blocks[k]))
    BY <2>2, <2>3
  <2>5. PICK c : c = at[k + 1] /\ c = a + m
    BY <2>1, <2>4
  <2>6. a \in Nat /\ c \in Nat /\ a < c
    <3>1. \A x \in Nat, y \in 2..8 : x + y \in Nat /\ x < x + y
      OBVIOUS
    <3>. QED
      BY <2>4, <2>5, <3>1, Zenon
  <2>. QED
    BY <2>4, <2>5, <2>6, Zenon
<1>3. \A k \in 1..(n + 1) : at[k] \in Nat
  BY <1>1, <1>2
<1>. DEFINE Above(k) == \A j \in 1..(n + 1) : j < k => at[j] < at[k]
            Bad == {k \in 1..(n + 1) : ~Above(k)}
<1>4. Bad = {}
  <2>1. SUFFICES ASSUME Bad # {} PROVE FALSE
    OBVIOUS
  <2>2. PICK k \in Bad : \A j \in Bad : ~(j < k)
    <3>1. Bad \in SUBSET Nat
      BY <1>1
    <3>. HIDE DEF Bad
    <3>. QED
      BY <2>1, <3>1, Least
  <2>3. k \in 1..(n + 1) /\ k # 1
    BY <1>1
  <2>4. k - 1 \in 1..n /\ k - 1 \in 1..(n + 1) /\ (k - 1) + 1 = k
    BY <1>1, <2>3
  <2>5. Above(k - 1)
    BY <2>2, <2>4
  <2>6. at[k - 1] < at[k]
    BY <1>2, <2>4
  <2>7. Above(k)
    <3>1. SUFFICES ASSUME NEW j \in 1..(n + 1), j < k PROVE at[j] < at[k]
      OBVIOUS
    <3>2. j = k - 1 \/ j < k - 1
      BY <2>3, <3>1
    <3>3. at[j] < at[k - 1] \/ j = k - 1
      BY <2>5, <3>1, <3>2
    <3>. QED
      BY <1>3, <2>3, <2>4, <2>6, <3>1, <3>3
  <2>. QED
    BY <2>2, <2>7
<1>5. \A k \in 1..(n + 1) : Above(k)
  BY <1>4
<1>6. \A k \in 1..(n + 1) : at[k] \in 4..124
  <2>1. SUFFICES ASSUME NEW k \in 1..(n + 1) PROVE at[k] \in 4..124
    OBVIOUS
  <2>2. k = 1 \/ at[1] < at[k]
    BY <1>1, <1>5
  <2>3. k = n + 1 \/ at[k] < at[n + 1]
    BY <1>1, <1>5
  <2>. QED
    BY <1>1, <1>3, <2>2, <2>3
<1>. QED
  BY <1>2, <1>5, <1>6

\* The walk stops at every block and nowhere else.
LEMMA EdidVisits ==
  ASSUME NEW seg, NEW blocks, NEW at, NEW n, EdidChain(seg, blocks, at, n),
         EdidSized(seg)
  PROVE  Parser!Walk(seg) = {at[k] : k \in 1..n}
<1>1. PICK f : EdidFrom(f, seg, 4) /\ Parser!Walk(seg) = f[4]
  BY EdidWalks
<1>2. \A i \in 4..160 : f[i] = EdidStop(seg, f, i)
  BY <1>1 DEF EdidFrom
<1>3. n \in Nat /\ at[1] = 4 /\ at[n + 1] = seg[3] /\ seg[3] \in 4..124
  BY DEF EdidChain
<1>4. /\ \A k \in 1..(n + 1) : at[k] \in 4..124
      /\ \A k \in 1..n : at[k] < seg[3]
  BY <1>3, EdidRises
<1>5. \A k \in 1..n : /\ Parser!BlockSize(seg, at[k]) > 0
                      /\ at[k] + Parser!BlockSize(seg, at[k]) = at[k + 1]
  <2>1. SUFFICES ASSUME NEW k \in 1..n
                 PROVE  /\ Parser!BlockSize(seg, at[k]) > 0
                        /\ at[k] + Parser!BlockSize(seg, at[k]) = at[k + 1]
    OBVIOUS
  <2>2. EdidAt(seg, at[k], blocks[k])
        /\ at[k + 1] = at[k] + Len(Parser!Layout(blocks[k]))
    BY DEF EdidChain
  <2>3. Parser!BlockSize(seg, at[k]) = Len(Parser!Layout(blocks[k]))
    BY <2>2, EdidMarks
  <2>4. Len(Parser!Layout(blocks[k])) \in 2..8
    BY <2>2 DEF EdidAt, EdidLaid
  <2>5. PICK m \in 2..8 : m = Len(Parser!Layout(blocks[k]))
    BY <2>4
  <2>6. m > 0
    <3>1. \A x \in 2..8 : x > 0
      OBVIOUS
    <3>. QED
      BY <2>5, <3>1, Zenon
  <2>. QED
    BY <2>2, <2>3, <2>5, <2>6, Zenon
<1>. DEFINE Rest(k) == {at[j] : j \in k..n}
            Bad == {m \in Nat : m <= n /\ f[at[n + 1 - m]] # Rest(n + 1 - m)}
<1>6. Bad = {}
  <2>1. SUFFICES ASSUME Bad # {} PROVE FALSE
    OBVIOUS
  <2>2. PICK m \in Bad : \A j \in Bad : ~(j < m)
    <3>. HIDE DEF Rest
    <3>. QED
      BY <2>1, Least
  <2>3. PICK k \in 1..(n + 1) : k = n + 1 - m
    BY <1>3, <2>2
  <2>4. f[at[k]] # Rest(k)
    BY <2>2, <2>3
  <2>5. CASE k = n + 1
    <3>1. Rest(k) = {}
      BY <1>3, <2>5
    <3>2. f[at[k]] = {}
      BY <1>2, <1>3, <1>4, <2>5, SMTT(30) DEF EdidStop
    <3>. QED
      BY <2>4, <3>1, <3>2
  <2>6. CASE k # n + 1
    <3>1. k \in 1..n /\ k + 1 \in 1..(n + 1) /\ m - 1 \in Nat
          /\ m - 1 <= n /\ m - 1 < m /\ n + 1 - (m - 1) = k + 1
      BY <1>3, <2>2, <2>3, <2>6
    <3>2. f[at[k + 1]] = Rest(k + 1)
      <4>. HIDE DEF Rest
      <4>. QED
        BY <2>2, <3>1
    <3>3. f[at[k]] = {at[k]} \cup f[at[k + 1]]
      <4>1. at[k] \in 4..160 /\ at[k] < 128 /\ at[k] < seg[3]
        BY <1>3, <1>4, <3>1
      <4>2. f[at[k]] = EdidStop(seg, f, at[k])
        BY <1>2, <4>1
      <4>. QED
        BY <1>5, <3>1, <4>1, <4>2 DEF EdidStop
    <3>4. Rest(k) = {at[k]} \cup Rest(k + 1)
      <4>1. \A j : j \in k..n <=> j = k \/ j \in (k + 1)..n
        BY <1>3, <3>1
      <4>. QED
        BY <4>1
    <3>. QED
      BY <2>4, <3>2, <3>3, <3>4
  <2>. QED
    BY <2>5, <2>6
<1>7. n \in Nat /\ n <= n /\ n + 1 - n = 1
  BY <1>3
<1>8. f[at[1]] = Rest(1)
  <2>. HIDE DEF Rest
  <2>. QED
    BY <1>6, <1>7
<1>. QED
  BY <1>1, <1>3, <1>8

\* Where the blocks of K begin.
EdidAts(at, K) == {at[k] : k \in K}

\* The first of the blocks that pass a test.
LEMMA EdidFirst ==
  ASSUME NEW seg, NEW blocks, NEW at, NEW n, EdidChain(seg, blocks, at, n),
         NEW K \in SUBSET (1..n)
  PROVE  /\ K = {} => Parser!First(EdidAts(at, K)) = 0
         /\ K # {} => /\ Parser!Min(K) \in K
                      /\ Parser!First(EdidAts(at, K)) = at[Parser!Min(K)]
                      /\ Parser!First(EdidAts(at, K)) # 0
<1>. DEFINE found == EdidAts(at, K)
<1>. USE DEF EdidAts
<1>1. CASE K = {}
  BY <1>1 DEF Parser!First
<1>2. CASE K # {}
  <2>1. n \in Nat /\ K \in SUBSET Nat
    BY DEF EdidChain
  <2>2. PICK k \in K : \A j \in K : ~(j < k)
    BY <1>2, <2>1, Least
  <2>3. \E x \in K : \A y \in K : x <= y
    BY <2>1, <2>2
  <2>4. PICK m \in K : m = Parser!Min(K) /\ \A y \in K : m <= y
    BY <2>3 DEF Parser!Min
  <2>5. /\ \A j \in 1..(n + 1) : at[j] \in 4..124
        /\ \A i, j \in 1..(n + 1) : i < j => at[i] < at[j]
    BY EdidRises
  <2>6. \A j \in K : j \in 1..(n + 1) /\ (m = j \/ m < j)
    BY <2>1, <2>4
  <2>7. \A j \in K : at[m] <= at[j]
    <3>1. SUFFICES ASSUME NEW j \in K PROVE at[m] <= at[j]
      OBVIOUS
    <3>2. m \in 1..(n + 1) /\ j \in 1..(n + 1) /\ (m = j \/ m < j)
      BY <2>6
    <3>3. m = j \/ at[m] < at[j]
      BY <2>5, <3>2
    <3>4. at[m] \in 4..124 /\ at[j] \in 4..124
      BY <2>5, <3>2
    <3>. QED
      BY <3>3, <3>4, SMTT(30)
  <2>8. at[m] \in found /\ \A y \in found : at[m] <= y
    BY <2>7
  <2>9. found \in SUBSET (4..124)
    BY <2>5, <2>6
  <2>10. Parser!Min(found) \in found /\ \A y \in found : Parser!Min(found) <= y
    BY <2>8 DEF Parser!Min
  <2>11. Parser!Min(found) = at[m]
    <3>1. PICK x, y \in 4..124 : x = Parser!Min(found) /\ y = at[m]
      BY <2>8, <2>9, <2>10, ZenonT(60)
    <3>2. x <= y /\ y <= x
      BY <2>8, <2>10, <3>1
    <3>. QED
      BY <3>1, <3>2, SMTT(30)
  <2>. QED
    BY <1>2, <2>4, <2>8, <2>9, <2>11, SMTT(30) DEF Parser!First
<1>. QED
  BY <1>1, <1>2

-----------------------------------------------------------------------------
\* The blocks of a type.
EdidOf(blocks, type) == {k \in DOMAIN blocks : blocks[k].type = type}

\* Index i is where the first block of a type begins, or 0.
EdidBegins(seg, blocks, type, i) ==
  LET K == EdidOf(blocks, type) IN
  /\ K = {} => i = 0
  /\ K # {} => /\ Parser!Min(K) \in K /\ i # 0
               /\ EdidAt(seg, i, blocks[Parser!Min(K)])

\* What is found is where the blocks of a type begin.
EdidSpots(found, at, blocks, n, type) ==
  found = EdidAts(at, {k \in 1..n : blocks[k].type = type})

\* A test that recognises a type finds its first block.
LEMMA EdidFinds ==
  ASSUME NEW seg, NEW blocks, NEW at, NEW n, EdidChain(seg, blocks, at, n),
         EdidSized(seg), DOMAIN blocks = 1..n, NEW type, NEW found,
         EdidSpots(found, at, blocks, n, type)
  PROVE  EdidBegins(seg, blocks, type, Parser!First(found))
<1>. DEFINE K == EdidOf(blocks, type)
<1>1. K \in SUBSET (1..n)
  BY DEF EdidOf
<1>2. found = EdidAts(at, K)
  BY DEF EdidOf, EdidSpots
<1>3. \A k \in 1..n : EdidAt(seg, at[k], blocks[k])
  BY DEF EdidChain
<1>4. /\ K = {} => Parser!First(found) = 0
      /\ K # {} => /\ Parser!Min(K) \in K
                   /\ Parser!First(found) = at[Parser!Min(K)]
                   /\ Parser!First(found) # 0
  <2>. HIDE DEF K
  <2>1. /\ K = {} => Parser!First(EdidAts(at, K)) = 0
        /\ K # {} => /\ Parser!Min(K) \in K
                     /\ Parser!First(EdidAts(at, K)) = at[Parser!Min(K)]
                     /\ Parser!First(EdidAts(at, K)) # 0
    BY <1>1, EdidFirst, Zenon
  <2>. QED
    BY <1>2, <2>1, Zenon
<1>5. K # {} => EdidAt(seg, Parser!First(found), blocks[Parser!Min(K)])
  <2>. HIDE DEF K
  <2>. QED
    BY <1>1, <1>3, <1>4
<1>. QED
  BY <1>4, <1>5 DEF EdidBegins

LEMMA EdidFounds ==
  ASSUME NEW seg, NEW blocks, NEW at, NEW n, EdidChain(seg, blocks, at, n),
         EdidSized(seg), DOMAIN blocks = 1..n
  PROVE  /\ EdidBegins(seg, blocks, "audio",
              Parser!First({k \in Parser!Walk(seg) :
                              Parser!BlockTag(seg, k) = 1}))
         /\ EdidBegins(seg, blocks, "video",
              Parser!First({k \in Parser!Walk(seg) :
                              Parser!BlockTag(seg, k) = 2}))
         /\ EdidBegins(seg, blocks, "colorimetry",
              Parser!First({k \in Parser!Walk(seg) :
                              /\ Parser!BlockTag(seg, k) = 256 + 5
                              /\ Parser!BlockSize(seg, k) > 3}))
         /\ EdidBegins(seg, blocks, "licensing", Parser!Licensing(seg))
<1>1. \A i : i \in Parser!Walk(seg) <=> \E k \in 1..n : i = at[k]
  BY EdidVisits
<1>2. ASSUME NEW k \in 1..n
      PROVE  /\ Parser!BlockTag(seg, at[k]) = 1 <=> blocks[k].type = "audio"
             /\ Parser!BlockTag(seg, at[k]) = 2 <=> blocks[k].type = "video"
             /\ Parser!BlockTag(seg, at[k]) = 256 + 5
                  /\ Parser!BlockSize(seg, at[k]) > 3
                  <=> blocks[k].type = "colorimetry"
             /\ Parser!Vendor(seg, at[k], Parser!OUI_HDMI_LICENSING, 6)
                  <=> blocks[k].type = "licensing"
  <2>1. EdidAt(seg, at[k], blocks[k])
    BY DEF EdidChain
  <2>. QED
    BY <2>1, EdidMarks, ZenonT(60)
<1>3. EdidBegins(seg, blocks, "audio",
        Parser!First({k \in Parser!Walk(seg) : Parser!BlockTag(seg, k) = 1}))
  <2>1. PICK found : found
          = {k \in Parser!Walk(seg) : Parser!BlockTag(seg, k) = 1}
    OBVIOUS
  <2>2. EdidSpots(found, at, blocks, n, "audio")
    BY <1>1, <1>2, <2>1 DEF EdidSpots, EdidAts
  <2>3. EdidBegins(seg, blocks, "audio", Parser!First(found))
    BY <2>2, EdidFinds, Zenon
  <2>. QED
    BY <2>1, <2>3
<1>4. EdidBegins(seg, blocks, "video",
        Parser!First({k \in Parser!Walk(seg) : Parser!BlockTag(seg, k) = 2}))
  <2>1. PICK found : found
          = {k \in Parser!Walk(seg) : Parser!BlockTag(seg, k) = 2}
    OBVIOUS
  <2>2. EdidSpots(found, at, blocks, n, "video")
    BY <1>1, <1>2, <2>1 DEF EdidSpots, EdidAts
  <2>3. EdidBegins(seg, blocks, "video", Parser!First(found))
    BY <2>2, EdidFinds, Zenon
  <2>. QED
    BY <2>1, <2>3
<1>5. EdidBegins(seg, blocks, "colorimetry",
        Parser!First({k \in Parser!Walk(seg) :
                        /\ Parser!BlockTag(seg, k) = 256 + 5
                        /\ Parser!BlockSize(seg, k) > 3}))
  <2>1. PICK found : found = {k \in Parser!Walk(seg) :
                                /\ Parser!BlockTag(seg, k) = 256 + 5
                                /\ Parser!BlockSize(seg, k) > 3}
    OBVIOUS
  <2>2. EdidSpots(found, at, blocks, n, "colorimetry")
    BY <1>1, <1>2, <2>1 DEF EdidSpots, EdidAts
  <2>3. EdidBegins(seg, blocks, "colorimetry", Parser!First(found))
    BY <2>2, EdidFinds, Zenon
  <2>. QED
    BY <2>1, <2>3
<1>6. EdidBegins(seg, blocks, "licensing", Parser!Licensing(seg))
  <2>1. PICK found : found = {k \in Parser!Walk(seg) :
          Parser!Vendor(seg, k, Parser!OUI_HDMI_LICENSING, 6)}
    OBVIOUS
  <2>2. EdidSpots(found, at, blocks, n, "licensing")
    BY <1>1, <1>2, <2>1 DEF EdidSpots, EdidAts
  <2>3. EdidBegins(seg, blocks, "licensing", Parser!First(found))
    BY <2>2, EdidFinds, Zenon
  <2>. QED
    BY <2>1, <2>3 DEF Parser!Licensing
<1>. QED
  BY <1>3, <1>4, <1>5, <1>6

\* What is collected from a block is what it says.
LEMMA EdidReads ==
  ASSUME NEW seg, NEW i, NEW b, EdidAt(seg, i, b)
  PROVE  /\ i \in Nat
         /\ b.type = "video" => seg[i + 2] = b.vics[1] /\ b.vics[1] \in Vics
                                /\ Parser!BlockSize(seg, i) = 2
         /\ b.type = "colorimetry" => seg[i + 3] = 192 /\ seg[i + 4] = 128
         /\ b.type = "licensing" => /\ b.bits \in {{}, {4}, {3, 4, 5}, {3, 6}}
                                    /\ seg[i + 7] = Parser!Ones(b.bits)
         /\ b.type = "forum" => /\ b.bits \in {{}, {0}, {2}}
                                /\ seg[i + 8] = Parser!Ones(b.bits)
<1>. DEFINE l == Parser!Layout(b)
<1>1. /\ i \in Nat /\ EdidLaid(b, l) /\ \A j \in 1..Len(l) : seg[i + j] = l[j]
  BY DEF EdidAt
<1>2. Parser!BlockSize(seg, i) = Len(l)
  BY EdidMarks
<1>. HIDE DEF l
<1>3. ASSUME b.type = "video"
      PROVE  /\ seg[i + 2] = b.vics[1] /\ b.vics[1] \in Vics
             /\ Parser!BlockSize(seg, i) = 2
  <2>1. b.vics[1] \in Vics /\ Len(l) = 2 /\ l[2] = b.vics[1]
    BY <1>1, <1>3, Zenon DEF EdidLaid
  <2>. QED
    BY <1>1, <1>2, <2>1
<1>4. ASSUME b.type = "colorimetry"
      PROVE  seg[i + 3] = 192 /\ seg[i + 4] = 128
  <2>1. Len(l) = 4 /\ l[3] = 192 /\ l[4] = 128
    BY <1>1, <1>4, Zenon DEF EdidLaid
  <2>. QED
    BY <1>1, <2>1
<1>5. ASSUME b.type = "licensing"
      PROVE  /\ b.bits \in {{}, {4}, {3, 4, 5}, {3, 6}}
             /\ seg[i + 7] = Parser!Ones(b.bits)
  <2>1. /\ b.bits \in {{}, {4}, {3, 4, 5}, {3, 6}} /\ Len(l) = 7
        /\ l[7] = Parser!Ones(b.bits)
    BY <1>1, <1>5, Zenon DEF EdidLaid
  <2>. QED
    BY <1>1, <2>1
<1>6. ASSUME b.type = "forum"
      PROVE  b.bits \in {{}, {0}, {2}} /\ seg[i + 8] = Parser!Ones(b.bits)
  <2>1. /\ b.bits \in {{}, {0}, {2}} /\ Len(l) = 8
        /\ l[8] = Parser!Ones(b.bits)
    BY <1>1, <1>6, Zenon DEF EdidLaid
  <2>. QED
    BY <1>1, <2>1
<1>. QED
  BY <1>1, <1>3, <1>4, <1>5, <1>6, Zenon

LEMMA EdidReadAudio ==
  ASSUME NEW seg, NEW i, NEW b, EdidAt(seg, i, b), b.type = "audio", i # 0,
         i = Parser!First({k \in Parser!Walk(seg) :
                             Parser!BlockTag(seg, k) = 1})
  PROVE  Parser!AudioFormats(seg)
           = LET formats == Parser!Range(b.formats) IN
             formats \cup (IF 10 \in formats THEN {16} ELSE {})
<1>. DEFINE l == Parser!Layout(b)
            sads == {k \in 1..(Parser!BlockSize(seg, i) - 1) : k % 3 = 1}
            Code(k) == (seg[i + k + 1] \div 8) % 16
<1>1. /\ i \in Nat /\ EdidLaid(b, l) /\ \A j \in 1..Len(l) : seg[i + j] = l[j]
  BY DEF EdidAt
<1>2. Parser!BlockSize(seg, i) = Len(l)
  BY EdidMarks
<1>3. Parser!AudioFormats(seg) = {Code(k) : k \in sads} \cup
           {16 : k \in {k \in sads : /\ Code(k) = 10
                                     /\ Parser!Bit(seg[i + k + 3], 0)}}
  BY DEF Parser!AudioFormats
<1>. HIDE DEF l
<1>4. CASE b.formats = <<1>> /\ Len(l) = 4 /\ l[2] = 9
  <2>1. sads = {1}
    <3>1. \A k : k \in 1..(4 - 1) /\ k % 3 = 1 <=> k = 1
      OBVIOUS
    <3>2. sads = {k \in 1..(4 - 1) : k % 3 = 1}
      BY <1>2, <1>4
    <3>. QED
      BY <3>1, <3>2
  <2>2. i + 1 + 1 = i + 2 /\ seg[i + 2] = 9
    BY <1>1, <1>4
  <2>3. Code(1) = 1
    BY <2>2
  <2>4. Parser!Range(b.formats) = {1}
    BY <1>4 DEF Parser!Range
  <2>. HIDE DEF sads, Code
  <2>. QED
    BY <1>3, <2>1, <2>3, <2>4
<1>5. CASE /\ b.formats = <<2, 10>> /\ Len(l) = 7
           /\ l[2] = 17 /\ l[5] = 81 /\ l[7] = 1
  <2>1. sads = {1, 4}
    <3>1. \A k : k \in 1..(7 - 1) /\ k % 3 = 1 <=> k = 1 \/ k = 4
      OBVIOUS
    <3>2. sads = {k \in 1..(7 - 1) : k % 3 = 1}
      BY <1>2, <1>5
    <3>. QED
      BY <3>1, <3>2
  <2>2. /\ i + 1 + 1 = i + 2 /\ i + 4 + 1 = i + 5 /\ i + 4 + 3 = i + 7
        /\ seg[i + 2] = 17 /\ seg[i + 5] = 81 /\ seg[i + 7] = 1
    BY <1>1, <1>5
  <2>3. Code(1) = 2 /\ Code(4) = 10
    BY <2>2
  <2>4. Parser!Bit(seg[i + 4 + 3], 0)
    BY <2>2, EdidBit
  <2>5. Parser!Range(b.formats) = {2, 10}
    BY <1>5 DEF Parser!Range
  <2>. HIDE DEF sads, Code
  <2>. QED
    BY <1>3, <2>1, <2>3, <2>4, <2>5
<1>. QED
  BY <1>1, <1>4, <1>5 DEF EdidLaid

LEMMA EdidReadVideo ==
  ASSUME NEW seg, NEW i, NEW b, EdidAt(seg, i, b), b.type = "video", i # 0,
         i = Parser!First({k \in Parser!Walk(seg) :
                             Parser!BlockTag(seg, k) = 2})
  PROVE  Parser!Timings(seg) = <<Parser!Vic(b.vics[1])>>
<1>1. i \in Nat /\ seg[i + 2] = b.vics[1]
  BY EdidReads
<1>2. Parser!BlockSize(seg, i) = 2
  BY EdidReads
<1>3. i + 1 + 1 = i + 2
  BY <1>1
<1>4. Parser!Timings(seg)
        = [k \in 1..(2 - 1) |-> Parser!Vic(seg[i + k + 1])]
  BY <1>2 DEF Parser!Timings
<1>5. PICK code : code = Parser!Vic(b.vics[1])
  OBVIOUS
<1>6. Parser!Timings(seg) = [k \in 1..1 |-> code]
  BY <1>1, <1>3, <1>4, <1>5
<1>7. [k \in 1..1 |-> code] = <<code>>
  OBVIOUS
<1>. QED
  BY <1>5, <1>6, <1>7

LEMMA EdidReadColorimetry ==
  ASSUME NEW seg, NEW i, NEW b, EdidAt(seg, i, b), b.type = "colorimetry",
         i # 0,
         i = Parser!First({k \in Parser!Walk(seg) :
                             /\ Parser!BlockTag(seg, k) = 256 + 5
                             /\ Parser!BlockSize(seg, k) > 3})
  PROVE  Parser!ColorSpaces(seg) = {6, 7, 8}
<1>1. i \in Nat /\ seg[i + 3] = 192 /\ seg[i + 4] = 128
  BY EdidReads
<1>2. Parser!ColorSpaces(seg)
        = {n \in 0..7 : Parser!Bit(192, n)}
            \cup (IF Parser!Bit(128, 7) THEN {8} ELSE {})
  BY <1>1 DEF Parser!ColorSpaces
<1>3. Parser!Bit(128, 7)
  BY EdidBit
<1>4. /\ ~Parser!Bit(192, 0) /\ ~Parser!Bit(192, 1) /\ ~Parser!Bit(192, 2)
      /\ ~Parser!Bit(192, 3) /\ ~Parser!Bit(192, 4) /\ ~Parser!Bit(192, 5)
      /\ Parser!Bit(192, 6) /\ Parser!Bit(192, 7)
  BY EdidBit
<1>5. \A n : n \in 0..7 <=> n \in {0, 1, 2, 3, 4, 5, 6, 7}
  OBVIOUS
<1>6. {n \in 0..7 : Parser!Bit(192, n)} = {6, 7}
  BY <1>4, <1>5
<1>. QED
  BY <1>2, <1>3, <1>6

LEMMA EdidReadLicensing ==
  ASSUME NEW seg, NEW i, NEW b, EdidAt(seg, i, b), b.type = "licensing",
         i # 0, i = Parser!Licensing(seg)
  PROVE  Parser!RGBColorDepths(seg)
           = {8} \cup {IF n = 6 THEN 16 ELSE 2 * n + 2 : n \in b.bits \ {3}}
<1>1. /\ i \in Nat /\ b.bits \in {{}, {4}, {3, 4, 5}, {3, 6}}
      /\ seg[i + 7] = Parser!Ones(b.bits)
  BY EdidReads
<1>2. PICK byte : byte = Parser!Ones(b.bits)
  OBVIOUS
<1>3. Parser!RGBColorDepths(seg) = {8} \cup Parser!DeepColors(byte)
  BY <1>1, <1>2 DEF Parser!RGBColorDepths
<1>4. /\ Parser!Bit(byte, 4) <=> 4 \in b.bits
      /\ Parser!Bit(byte, 5) <=> 5 \in b.bits
      /\ Parser!Bit(byte, 6) <=> 6 \in b.bits
  <2>1. 4 \in 3..6 /\ 5 \in 3..6 /\ 6 \in 3..6
    OBVIOUS
  <2>2. b.bits \in {{}, {4}, {4, 5}, {3, 4, 5}, {3, 6}}
    BY <1>1
  <2>. QED
    BY <1>2, <2>1, <2>2, EdidBitsOf, ZenonT(60)
<1>5. Parser!DeepColors(byte)
        = {IF n = 6 THEN 16 ELSE 2 * n + 2 : n \in b.bits \ {3}}
  <2>1. CASE b.bits = {}
    BY <1>4, <2>1 DEF Parser!DeepColors
  <2>2. CASE b.bits = {4}
    BY <1>4, <2>2 DEF Parser!DeepColors
  <2>3. CASE b.bits = {3, 4, 5}
    <3>1. Parser!DeepColors(byte) = {10, 12}
      BY <1>4, <2>3 DEF Parser!DeepColors
    <3>2. b.bits \ {3} = {4, 5}
      BY <2>3
    <3>. QED
      BY <3>1, <3>2
  <2>4. CASE b.bits = {3, 6}
    BY <1>4, <2>4 DEF Parser!DeepColors
  <2>. QED
    BY <1>1, <2>1, <2>2, <2>3, <2>4
<1>. QED
  BY <1>3, <1>5

-----------------------------------------------------------------------------
\* The formats that are reported, and those that have depths.
LEMMA EdidReadFormats ==
  ASSUME NEW seg, NEW s \in EdidSays, EdidTagged(seg, s),
         NEW at, NEW n, EdidChain(seg, s.blocks, at, n), EdidSized(seg),
         DOMAIN s.blocks = 1..n
  PROVE  /\ "444" \in Parser!ColorFormats(seg)
              <=> s.version >= 2 /\ 4 \in s.flags
         /\ "422" \in Parser!ColorFormats(seg)
              <=> s.version >= 2 /\ 5 \in s.flags
         /\ "420" \in Parser!ColorFormats(seg) <=>
              \/ EdidOf(s.blocks, "map") # {}
              \/ \E k \in EdidOf(s.blocks, "forum") : s.blocks[k].bits # {}
<1>1. seg[2] = s.version /\ seg[4] = Parser!Ones(s.flags)
  BY DEF EdidTagged
<1>2. /\ Parser!Bit(Parser!Ones(s.flags), 4) <=> 4 \in s.flags
      /\ Parser!Bit(Parser!Ones(s.flags), 5) <=> 5 \in s.flags
  <2>1. s.flags \in {{}, {4}, {4, 5}, {3, 4, 5}, {3, 6}}
    BY DEF EdidSays
  <2>2. 4 \in 3..6 /\ 5 \in 3..6
    OBVIOUS
  <2>. QED
    BY <2>1, <2>2, EdidBitsOf, Zenon
<1>. DEFINE Deep(k) ==
              IF Parser!Vendor(seg, k, Parser!OUI_HDMI_FORUM, 7)
              THEN seg[k + 8] % 8 # 0
              ELSE Parser!BlockTag(seg, k) = 256 + 15
            deep == \E k \in Parser!Walk(seg) : Deep(k)
<1>3. Parser!ColorFormats(seg)
        = {"RGB"}
            \cup (IF seg[2] >= 2 /\ Parser!Bit(seg[4], 4) THEN {"444"} ELSE {})
            \cup (IF seg[2] >= 2 /\ Parser!Bit(seg[4], 5) THEN {"422"} ELSE {})
            \cup (IF deep THEN {"420"} ELSE {})
  BY DEF Parser!ColorFormats
<1>4. \A k \in 1..n : EdidAt(seg, at[k], s.blocks[k])
  BY DEF EdidChain
<1>5. ASSUME NEW k \in 1..n
      PROVE  Deep(at[k]) <=> \/ s.blocks[k].type = "map"
                             \/ s.blocks[k].type = "forum"
                                  /\ s.blocks[k].bits # {}
  <2>1. /\ Parser!BlockTag(seg, at[k]) = 256 + 15 <=> s.blocks[k].type = "map"
        /\ Parser!Vendor(seg, at[k], Parser!OUI_HDMI_FORUM, 7)
             <=> s.blocks[k].type = "forum"
    BY <1>4, EdidMarks, ZenonT(60)
  <2>2. CASE s.blocks[k].type = "forum"
    <3>1. /\ s.blocks[k].bits \in {{}, {0}, {2}}
          /\ seg[at[k] + 8] = Parser!Ones(s.blocks[k].bits)
      BY <1>4, <2>2, EdidReads
    <3>2. Parser!Ones(s.blocks[k].bits) % 8 # 0 <=> s.blocks[k].bits # {}
      BY <3>1, EdidBitsOf, Zenon
    <3>. QED
      BY <2>1, <2>2, <3>1, <3>2
  <2>3. CASE s.blocks[k].type # "forum"
    BY <2>1, <2>3
  <2>. QED
    BY <2>2, <2>3
<1>6. Parser!Walk(seg) = {at[k] : k \in 1..n}
  BY EdidVisits
<1>. HIDE DEF Deep
<1>7. deep <=> \E k \in 1..n : \/ s.blocks[k].type = "map"
                               \/ s.blocks[k].type = "forum"
                                    /\ s.blocks[k].bits # {}
  <2>1. deep <=> \E k \in 1..n : Deep(at[k])
    BY <1>6
  <2>. QED
    BY <1>5, <2>1
<1>8. deep <=> \/ EdidOf(s.blocks, "map") # {}
               \/ \E k \in EdidOf(s.blocks, "forum") : s.blocks[k].bits # {}
  <2>. HIDE DEF deep
  <2>. QED
    BY <1>7 DEF EdidOf
<1>. HIDE DEF deep
<1>9. PICK one \in BOOLEAN : one <=> seg[2] >= 2 /\ Parser!Bit(seg[4], 4)
  OBVIOUS
<1>10. PICK two \in BOOLEAN : two <=> seg[2] >= 2 /\ Parser!Bit(seg[4], 5)
  OBVIOUS
<1>11. PICK zero \in BOOLEAN : zero <=> deep
  OBVIOUS
<1>12. Parser!ColorFormats(seg)
         = {"RGB"} \cup (IF one THEN {"444"} ELSE {})
             \cup (IF two THEN {"422"} ELSE {})
             \cup (IF zero THEN {"420"} ELSE {})
  BY <1>3, <1>9, <1>10, <1>11
<1>13. /\ "444" \in Parser!ColorFormats(seg) <=> one
       /\ "422" \in Parser!ColorFormats(seg) <=> two
       /\ "420" \in Parser!ColorFormats(seg) <=> zero
  BY <1>12
<1>14. /\ one <=> s.version >= 2 /\ 4 \in s.flags
       /\ two <=> s.version >= 2 /\ 5 \in s.flags
  BY <1>1, <1>2, <1>9, <1>10, Zenon
<1>. QED
  BY <1>8, <1>11, <1>13, <1>14, Zenon

LEMMA EdidReadDepths ==
  ASSUME NEW seg
  PROVE  /\ "444" \in Parser!ColorFormats(seg)
              <=> Parser!YCbCr444ColorDepths(seg) # {}
         /\ "422" \in Parser!ColorFormats(seg)
              <=> Parser!YCbCr422ColorDepths(seg) # {}
         /\ "420" \in Parser!ColorFormats(seg)
              <=> Parser!YCbCr420ColorDepths(seg) # {}
         /\ Parser!YCbCr444ColorDepths(seg) \subseteq Parser!RGBColorDepths(seg)
<1>1. "422" \in Parser!ColorFormats(seg)
        <=> Parser!YCbCr422ColorDepths(seg) # {}
  BY DEF Parser!YCbCr422ColorDepths
<1>2. /\ "444" \in Parser!ColorFormats(seg)
           <=> Parser!YCbCr444ColorDepths(seg) # {}
      /\ Parser!YCbCr444ColorDepths(seg) \subseteq Parser!RGBColorDepths(seg)
  BY DEF Parser!YCbCr444ColorDepths, Parser!RGBColorDepths
<1>3. "420" \in Parser!ColorFormats(seg)
        <=> Parser!YCbCr420ColorDepths(seg) # {}
  <2>1. CASE "420" \notin Parser!ColorFormats(seg)
    BY <2>1 DEF Parser!YCbCr420ColorDepths
  <2>2. CASE "420" \in Parser!ColorFormats(seg)
    <3>1. 8 \in Parser!YCbCr420ColorDepths(seg)
      BY <2>2 DEF Parser!YCbCr420ColorDepths
    <3>. QED
      BY <2>2, <3>1
  <2>. QED
    BY <2>1, <2>2
<1>. QED
  BY <1>1, <1>2, <1>3

-----------------------------------------------------------------------------
\* What an extension gives the parser.
EdidHeard(s, seg) ==
  LET First(type) == s.blocks[Parser!Min(EdidOf(s.blocks, type))]
  IN /\ Parser!Timings(seg) = IF EdidOf(s.blocks, "video") = {} THEN <<>>
                              ELSE <<Parser!Vic(First("video").vics[1])>>
     /\ Parser!AudioFormats(seg) =
          IF EdidOf(s.blocks, "audio") = {} THEN {}
          ELSE LET formats == Parser!Range(First("audio").formats) IN
               formats \cup (IF 10 \in formats THEN {16} ELSE {})
     /\ Parser!RGBColorDepths(seg) =
          {8} \cup IF EdidOf(s.blocks, "licensing") = {} THEN {}
                   ELSE {IF n = 6 THEN 16 ELSE 2 * n + 2 :
                           n \in First("licensing").bits \ {3}}
     /\ Parser!ColorSpaces(seg) =
          IF EdidOf(s.blocks, "colorimetry") = {} THEN {} ELSE {6, 7, 8}
     /\ "444" \in Parser!ColorFormats(seg) <=> s.version >= 2 /\ 4 \in s.flags
     /\ "422" \in Parser!ColorFormats(seg) <=> s.version >= 2 /\ 5 \in s.flags
     /\ "420" \in Parser!ColorFormats(seg) <=>
          \/ EdidOf(s.blocks, "map") # {}
          \/ \E k \in EdidOf(s.blocks, "forum") : s.blocks[k].bits # {}

LEMMA EdidHears ==
  ASSUME Parser!EdidAssumption, NEW s \in EdidSays,
         NEW seg, seg = Parser!Extension(s)
  PROVE  EdidHeard(s, seg) /\ seg[1] = 2
<1>1. PICK n \in 0..MaxBlocks : s.blocks \in [1..n -> Parser!DataBlocks]
  BY DEF EdidSays
<1>2. n \in Nat /\ n <= 15 /\ DOMAIN s.blocks = 1..n
  BY <1>1 DEF Parser!EdidAssumption
<1>3. /\ EdidTagged(seg, s) /\ EdidSized(seg)
      /\ \E at : EdidChain(seg, s.blocks, at, n)
  BY <1>1, <1>2, EdidChained
<1>4. PICK at : EdidChain(seg, s.blocks, at, n)
  BY <1>3
<1>5. PICK blocks : blocks = s.blocks
  OBVIOUS
<1>6. EdidChain(seg, blocks, at, n) /\ EdidSized(seg) /\ DOMAIN blocks = 1..n
  BY <1>2, <1>3, <1>4, <1>5
<1>. DEFINE K(type) == EdidOf(blocks, type)
            B(type) == blocks[Parser!Min(K(type))]
<1>7. Parser!Timings(seg) = IF K("video") = {} THEN <<>>
                            ELSE <<Parser!Vic(B("video").vics[1])>>
  <2>1. PICK i : i = Parser!First({k \in Parser!Walk(seg) :
                                     Parser!BlockTag(seg, k) = 2})
    OBVIOUS
  <2>2. EdidBegins(seg, blocks, "video", i)
    BY <1>6, <2>1, EdidFounds
  <2>3. CASE K("video") = {}
    <3>1. i = 0
      BY <2>2, <2>3 DEF EdidBegins
    <3>2. Parser!Timings(seg) = <<>>
      BY <2>1, <3>1 DEF Parser!Timings
    <3>. QED
      BY <2>3, <3>2
  <2>4. CASE K("video") # {}
    <3>1. /\ i # 0 /\ EdidAt(seg, i, B("video")) /\ B("video").type = "video"
      BY <2>2, <2>4 DEF EdidBegins, EdidOf
    <3>2. Parser!Timings(seg) = <<Parser!Vic(B("video").vics[1])>>
      BY <2>1, <3>1, EdidReadVideo
    <3>. QED
      BY <2>4, <3>2
  <2>. QED
    BY <2>3, <2>4
<1>8. Parser!AudioFormats(seg)
        = IF K("audio") = {} THEN {}
          ELSE LET formats == Parser!Range(B("audio").formats) IN
               formats \cup (IF 10 \in formats THEN {16} ELSE {})
  <2>1. PICK i : i = Parser!First({k \in Parser!Walk(seg) :
                                     Parser!BlockTag(seg, k) = 1})
    OBVIOUS
  <2>2. EdidBegins(seg, blocks, "audio", i)
    BY <1>6, <2>1, EdidFounds
  <2>3. CASE K("audio") = {}
    <3>1. i = 0
      BY <2>2, <2>3 DEF EdidBegins
    <3>2. Parser!AudioFormats(seg) = {}
      BY <2>1, <3>1 DEF Parser!AudioFormats
    <3>. QED
      BY <2>3, <3>2
  <2>4. CASE K("audio") # {}
    <3>1. /\ i # 0 /\ EdidAt(seg, i, B("audio")) /\ B("audio").type = "audio"
      BY <2>2, <2>4 DEF EdidBegins, EdidOf
    <3>2. Parser!AudioFormats(seg)
            = LET formats == Parser!Range(B("audio").formats) IN
              formats \cup (IF 10 \in formats THEN {16} ELSE {})
      BY <2>1, <3>1, EdidReadAudio
    <3>. QED
      BY <2>4, <3>2
  <2>. QED
    BY <2>3, <2>4
<1>9. Parser!RGBColorDepths(seg)
        = {8} \cup IF K("licensing") = {} THEN {}
                   ELSE {IF m = 6 THEN 16 ELSE 2 * m + 2 :
                           m \in B("licensing").bits \ {3}}
  <2>1. PICK i : i = Parser!Licensing(seg)
    OBVIOUS
  <2>2. EdidBegins(seg, blocks, "licensing", i)
    BY <1>6, <2>1, EdidFounds
  <2>3. CASE K("licensing") = {}
    <3>1. i = 0
      BY <2>2, <2>3 DEF EdidBegins
    <3>2. Parser!RGBColorDepths(seg) = {8} \cup {}
      BY <2>1, <3>1 DEF Parser!RGBColorDepths
    <3>. QED
      BY <2>3, <3>2
  <2>4. CASE K("licensing") # {}
    <3>1. /\ i # 0 /\ EdidAt(seg, i, B("licensing"))
          /\ B("licensing").type = "licensing"
      BY <2>2, <2>4 DEF EdidBegins, EdidOf
    <3>2. Parser!RGBColorDepths(seg)
            = {8} \cup {IF m = 6 THEN 16 ELSE 2 * m + 2 :
                          m \in B("licensing").bits \ {3}}
      BY <2>1, <3>1, EdidReadLicensing
    <3>. QED
      BY <2>4, <3>2
  <2>. QED
    BY <2>3, <2>4
<1>10. Parser!ColorSpaces(seg)
         = IF K("colorimetry") = {} THEN {} ELSE {6, 7, 8}
  <2>1. PICK i : i = Parser!First({k \in Parser!Walk(seg) :
                                     /\ Parser!BlockTag(seg, k) = 256 + 5
                                     /\ Parser!BlockSize(seg, k) > 3})
    OBVIOUS
  <2>2. EdidBegins(seg, blocks, "colorimetry", i)
    BY <1>6, <2>1, EdidFounds
  <2>3. CASE K("colorimetry") = {}
    <3>1. i = 0
      BY <2>2, <2>3 DEF EdidBegins
    <3>2. Parser!ColorSpaces(seg) = {}
      BY <2>1, <3>1 DEF Parser!ColorSpaces
    <3>. QED
      BY <2>3, <3>2
  <2>4. CASE K("colorimetry") # {}
    <3>1. /\ i # 0 /\ EdidAt(seg, i, B("colorimetry"))
          /\ B("colorimetry").type = "colorimetry"
      BY <2>2, <2>4 DEF EdidBegins, EdidOf
    <3>2. Parser!ColorSpaces(seg) = {6, 7, 8}
      BY <2>1, <3>1, EdidReadColorimetry
    <3>. QED
      BY <2>4, <3>2
  <2>. QED
    BY <2>3, <2>4
<1>11. /\ "444" \in Parser!ColorFormats(seg) <=> s.version >= 2 /\ 4 \in s.flags
       /\ "422" \in Parser!ColorFormats(seg) <=> s.version >= 2 /\ 5 \in s.flags
       /\ "420" \in Parser!ColorFormats(seg) <=>
            \/ EdidOf(s.blocks, "map") # {}
            \/ \E k \in EdidOf(s.blocks, "forum") : s.blocks[k].bits # {}
  BY <1>2, <1>3, <1>4, EdidReadFormats, Zenon
<1>12. EdidHeard(s, seg)
  BY <1>5, <1>7, <1>8, <1>9, <1>10, <1>11, Zenon DEF EdidHeard
<1>. QED
  BY <1>3, <1>12 DEF EdidTagged

-----------------------------------------------------------------------------
\* Every code the standard assigns has a timing, and packing is undone.
LEMMA EdidKnows ==
  ASSUME NEW byte \in (1..127) \cup (129..192) \cup (193..219)
  PROVE  Parser!HasStandardTiming(Parser!Vic(byte))
<1>1. CASE byte \in 1..127
  BY <1>1 DEF Parser!HasStandardTiming, Parser!StandardTimings,
        Parser!Vic
<1>2. CASE byte \in 129..192
  <2>1. byte % 128 \in 1..64
    BY <1>2
  <2>. QED
    BY <1>2, <2>1 DEF Parser!HasStandardTiming, Parser!StandardTimings,
        Parser!Vic
<1>3. CASE byte \in 193..219
  BY <1>3 DEF Parser!HasStandardTiming, Parser!StandardTimings,
        Parser!Vic
<1>. QED
  BY <1>1, <1>2, <1>3

EdidPacks(a, b, c) ==
  Parser!Manufacturer(a * 1024 + b * 32 + c) = <<a - 1, b - 1, c - 1>>

LEMMA EdidLetters ==
  ASSUME NEW a \in 1..26, NEW b \in 1..26, NEW c \in 1..26
  PROVE  EdidPacks(a, b, c)
<1>1. PICK v \in Nat : v = a * 1024 + b * 32 + c
  OBVIOUS
<1>2. v \div 1024 = a /\ (a - 1) % 32 = a - 1
  BY <1>1
<1>3. (((v \div 32) % 256) - 1) % 32 = b - 1
  <2>1. v \div 32 = a * 32 + b
    BY <1>1
  <2>2. (a * 32 + b) % 256 = (a % 8) * 32 + b
    OBVIOUS
  <2>3. ((a % 8) * 32 + b - 1) % 32 = b - 1
    OBVIOUS
  <2>. QED
    BY <2>1, <2>2, <2>3
<1>4. ((v % 256) - 1) % 32 = c - 1
  <2>1. v % 256 = (b % 8) * 32 + c
    BY <1>1
  <2>2. ((b % 8) * 32 + c - 1) % 32 = c - 1
    OBVIOUS
  <2>. QED
    BY <2>1, <2>2
<1>. QED
  BY <1>1, <1>2, <1>3, <1>4 DEF EdidPacks, Parser!Manufacturer

LEMMA EdidPixels ==
  ASSUME NEW w \in 0..4095
  PROVE  Parser!Preferred(w % 256, (w \div 256) * 16 + 15) = w
<1>1. PICK h \in 0..15 : h = w \div 256 /\ w = h * 256 + (w % 256)
  OBVIOUS
<1>2. (h * 16 + 15) % 16 = 15
  OBVIOUS
<1>3. (h * 16 + 15 - 15) * 16 = h * 256
  OBVIOUS
<1>. QED
  BY <1>1, <1>2, <1>3 DEF Parser!Preferred

LEMMA EdidBase == Parser!BaseIsDecoded
<1>1. \A a, b, c \in {1, 2, 8, 26} :
        Parser!Manufacturer(a * 1024 + b * 32 + c) = <<a - 1, b - 1, c - 1>>
  <2>1. \A a, b, c \in 1..26 : EdidPacks(a, b, c)
    BY EdidLetters, ZenonT(60)
  <2>2. \A a \in {1, 2, 8, 26} : a \in 1..26
    BY SMTT(30)
  <2>3. \A a, b, c \in {1, 2, 8, 26} : EdidPacks(a, b, c)
    BY <2>1, <2>2, ZenonT(60)
  <2>. QED
    BY <2>3, ZenonT(60) DEF EdidPacks
<1>2. \A w \in {0, 255, 256, 1280, 3840, 4095} :
        Parser!Preferred(w % 256, (w \div 256) * 16 + 15) = w
  <2>1. {0, 255, 256, 1280, 3840, 4095} \subseteq 0..4095
    OBVIOUS
  <2>. QED
    BY <2>1, EdidPixels
<1>. QED
  BY <1>1, <1>2 DEF Parser!BaseIsDecoded

-----------------------------------------------------------------------------
\* The copy appends.
EdidGrown(copy, list, segment) ==
  /\ Len(copy) = Len(list) + 1
  /\ \A i \in 1..Len(list) : copy[i] = list[i]
  /\ copy[Len(list) + 1] = segment

LEMMA EdidAppends ==
  ASSUME NEW S, NEW list \in Seq(S), NEW segment \in S
  PROVE  EdidGrown(Parser!Copy(list, Len(list), segment), list, segment)
<1>0. PICK copy : copy = Parser!Copy(list, Len(list), segment)
  OBVIOUS
<1>1. PICK i \in Nat : i = Len(list)
  OBVIOUS
<1>2. CASE i = 0
  <2>1. Parser!Copy(list, i, segment) = <<segment>>
    BY <1>2 DEF Parser!Copy
  <2>2. copy = <<segment>> /\ Len(list) = 0
    BY <1>0, <1>1, <1>2, <2>1, Zenon
  <2>3. /\ Len(copy) = 0 + 1 /\ copy[0 + 1] = segment
        /\ \A j \in 1..0 : copy[j] = list[j]
    BY <2>2
  <2>. QED
    BY <1>0, <2>2, <2>3, Zenon DEF EdidGrown
<1>3. CASE i # 0
  <2>1. Parser!Place(i - 1, i) = i
    BY <1>3 DEF Parser!Place
  <2>2. PICK grown \in Seq(S) : grown = Append(list, segment)
    <3>1. Append(list, segment) \in Seq(S)
      OBVIOUS
    <3>. QED
      BY <3>1, Zenon
  <2>3. /\ Len(grown) = i + 1 /\ \A j \in 1..i : grown[j] = list[j]
        /\ grown[i + 1] = segment
    BY <1>1, <2>2
  <2>4. Parser!Copy(list, i, segment) = [grown EXCEPT ![i + 1] = segment]
    BY <1>1, <1>3, <2>1, <2>2 DEF Parser!Copy
  <2>5. [grown EXCEPT ![i + 1] = segment] = grown
    BY <2>3
  <2>. QED
    BY <1>1, <2>2, <2>3, <2>4, <2>5, Zenon DEF EdidGrown
<1>. QED
  BY <1>2, <1>3

\* Where the CEA extensions are, and what is in the buffer.
EdidMarked(segments) == {i \in 2..Len(segments) : segments[i][1] = 2}

LEMMA EdidBuffer ==
  ASSUME Parser!EdidAssumption, NEW s \in EdidSays,
         NEW segments, segments = Parser!Segments(s)
  PROVE  /\ segments \in Seq(Seq(Parser!Byte)) /\ Len(segments) \in 1..4
         /\ Parser!IsValid(segments[1]) <=> s.valid
         /\ s.place \in {1, 2} =>
              /\ EdidMarked(segments) # {}
              /\ segments[Parser!Min(EdidMarked(segments))]
                   = Parser!Extension(s)
         /\ s.place \notin {1, 2} => EdidMarked(segments) = {}
<1>1. segments \in Seq(Seq(Parser!Byte))
  BY EdidSegments
<1>2. PICK base : base = IF s.valid THEN Parser!Header ELSE Parser!Other
  OBVIOUS
<1>3. PICK ext : ext = Parser!Extension(s)
  OBVIOUS
<1>4. PICK other : other = Parser!Other
  OBVIOUS
<1>5. ext[1] = 2 /\ other[1] # 2
  <2>1. other[1] = 112
    BY <1>4 DEF Parser!Other
  <2>. QED
    BY <1>3, <2>1, EdidHears
<1>6. Parser!IsValid(base) <=> s.valid
  <2>1. Parser!Header[1] = 0 /\ Parser!Other[1] = 112
    BY DEF Parser!Header, Parser!Other
  <2>2. Parser!Header # Parser!Other
    BY <2>1
  <2>. QED
    BY <1>2, <2>2 DEF Parser!IsValid
<1>8. Parser!Min({2}) = 2 /\ Parser!Min({3}) = 3
  BY DEF Parser!Min
<1>. DEFINE marked == EdidMarked(segments)
<1>9. CASE s.place = 0
  <2>1. segments = <<base>> \o <<>>
    BY <1>2, <1>9 DEF Parser!Segments
  <2>2. Len(segments) = 1 /\ segments[1] = base
    BY <2>1
  <2>3. marked = {}
    BY <2>2 DEF EdidMarked
  <2>4. s.place \notin {1, 2} /\ Len(segments) \in 1..4
    BY <1>9, <2>2
  <2>. HIDE DEF marked
  <2>. QED
    BY <1>1, <1>6, <2>2, <2>3, <2>4, Zenon DEF marked
<1>10. CASE s.place = 1
  <2>1. segments = <<base>> \o <<ext>>
    BY <1>2, <1>3, <1>10 DEF Parser!Segments
  <2>2. Len(segments) = 2 /\ segments[1] = base /\ segments[2] = ext
    BY <2>1
  <2>3. marked = {2}
    BY <1>5, <2>2 DEF EdidMarked
  <2>4. s.place \in {1, 2} /\ Len(segments) \in 1..4
    BY <1>10, <2>2
  <2>. HIDE DEF marked
  <2>5. marked # {} /\ segments[Parser!Min(marked)] = ext
    BY <1>8, <2>2, <2>3
  <2>. QED
    BY <1>1, <1>3, <1>6, <2>2, <2>4, <2>5, Zenon DEF marked
<1>11. CASE s.place = 2
  <2>1. segments = <<base>> \o <<other, ext, other>>
    BY <1>2, <1>3, <1>4, <1>11 DEF Parser!Segments
  <2>2. /\ Len(segments) = 4 /\ segments[1] = base /\ segments[2] = other
        /\ segments[3] = ext /\ segments[4] = other
    BY <2>1
  <2>3. marked = {3}
    BY <1>5, <2>2 DEF EdidMarked
  <2>4. s.place \in {1, 2} /\ Len(segments) \in 1..4
    BY <1>11, <2>2
  <2>. HIDE DEF marked
  <2>5. marked # {} /\ segments[Parser!Min(marked)] = ext
    BY <1>8, <2>2, <2>3
  <2>. QED
    BY <1>1, <1>3, <1>6, <2>2, <2>4, <2>5, Zenon DEF marked
<1>12. CASE s.place = 3
  <2>1. segments = <<base>> \o <<other>>
    BY <1>2, <1>4, <1>12 DEF Parser!Segments
  <2>2. Len(segments) = 2 /\ segments[1] = base /\ segments[2] = other
    BY <2>1
  <2>3. marked = {}
    BY <1>5, <2>2 DEF EdidMarked
  <2>4. s.place \notin {1, 2} /\ Len(segments) \in 1..4
    BY <1>12, <2>2
  <2>. HIDE DEF marked
  <2>. QED
    BY <1>1, <1>6, <2>2, <2>3, <2>4, Zenon DEF marked
<1>13. s.place \in {0, 1, 2, 3}
  BY DEF EdidSays
<1>. QED
  BY <1>9, <1>10, <1>11, <1>12, <1>13

-----------------------------------------------------------------------------
\* Sequences with the same elements are the same.
LEMMA EdidSame ==
  ASSUME NEW S, NEW t \in Seq(S), NEW u \in Seq(S), Len(t) = Len(u),
         \A i \in 1..Len(t) : t[i] = u[i]
  PROVE  t = u
<1>1. PICK n \in Nat : n = Len(t) /\ t \in [1..n -> S] /\ u \in [1..n -> S]
  OBVIOUS
<1>. QED
  BY <1>1

\* What the caller was told is what the display said.
EdidTold ==
  /\ Parser!ParsedAsSaid
  /\ Parser!DepthsMatchFormats
  /\ Parser!TimingsAreKnown

\* Nothing is not an answer.
LEMMA EdidSilent == e_info = Parser!Nothing => EdidTold
BY DEF EdidTold, Parser!ParsedAsSaid, Parser!DepthsMatchFormats,
       Parser!TimingsAreKnown, Parser!Nothing

\* An answer is read from the extension that was copied.
EdidAnswer(said, info) ==
  /\ info.status = "DISPLAYINFO_OK" <=> said.valid /\ said.place \in {1, 2}
  /\ info.status = "DISPLAYINFO_OK" =>
       LET seg == Parser!Extension(said)
       IN /\ info.timings = Parser!Timings(seg)
          /\ info.audio_formats = Parser!AudioFormats(seg)
          /\ info.rgb = Parser!RGBColorDepths(seg)
          /\ info.color_formats = Parser!ColorFormats(seg)
          /\ info.color_spaces = Parser!ColorSpaces(seg)
          /\ info.ycbcr444 = Parser!YCbCr444ColorDepths(seg)
          /\ info.ycbcr422 = Parser!YCbCr422ColorDepths(seg)
          /\ info.ycbcr420 = Parser!YCbCr420ColorDepths(seg)

\* What was copied is the beginning of the buffer, and an answer is given after
\* all of it was.
EdidTruth ==
  /\ e_said = Parser!Nothing
       => e_seg_iter = 0 /\ e_copied = <<>> /\ e_info = Parser!Nothing
  /\ e_said # Parser!Nothing =>
       /\ e_seg_iter <= Len(Parser!Segments(e_said))
       /\ Len(e_copied) = e_seg_iter
       /\ \A i \in 1..e_seg_iter : e_copied[i] = Parser!Segments(e_said)[i]
       /\ e_info # Parser!Nothing =>
            /\ e_seg_iter = Len(Parser!Segments(e_said))
            /\ EdidAnswer(e_said, e_info)

\* An answer is true of what was said.
LEMMA EdidAnswers ==
  ASSUME Parser!EdidAssumption, EdidInv, EdidTruth, e_info # Parser!Nothing
  PROVE  EdidTold
<1>. DEFINE seg == Parser!Extension(e_said)
<1>1. /\ e_said \in EdidSays /\ EdidAnswer(e_said, e_info)
      /\ Len(e_copied) = Len(Parser!Segments(e_said))
      /\ \A i \in 1..Len(e_copied) : e_copied[i] = Parser!Segments(e_said)[i]
  BY DEF EdidInv, EdidTruth
<1>2. e_copied = Parser!Segments(e_said)
  <2>1. Parser!Segments(e_said) \in Seq(Seq(Parser!Byte))
    BY <1>1, EdidBuffer
  <2>2. e_copied \in Seq(Seq(Parser!Byte))
    BY DEF EdidInv, Parser!TypeOK
  <2>. QED
    BY <1>1, <2>1, <2>2, EdidSame
<1>3. /\ e_info.status = "DISPLAYINFO_OK"
           <=> e_said.valid /\ e_said.place \in {1, 2}
      /\ e_info.status = "DISPLAYINFO_OK" =>
           /\ e_info.timings = Parser!Timings(seg)
           /\ e_info.audio_formats = Parser!AudioFormats(seg)
           /\ e_info.rgb = Parser!RGBColorDepths(seg)
           /\ e_info.color_formats = Parser!ColorFormats(seg)
           /\ e_info.color_spaces = Parser!ColorSpaces(seg)
           /\ e_info.ycbcr444 = Parser!YCbCr444ColorDepths(seg)
           /\ e_info.ycbcr422 = Parser!YCbCr422ColorDepths(seg)
           /\ e_info.ycbcr420 = Parser!YCbCr420ColorDepths(seg)
  BY <1>1, Zenon DEF EdidAnswer
<1>4. EdidHeard(e_said, seg)
  BY <1>1, EdidHears
<1>. HIDE DEF seg
<1>5. \A type : Parser!Of(type) = EdidOf(e_said.blocks, type)
  BY DEF Parser!Of, EdidOf
<1>6. \A type : Parser!FirstOf(type)
                  = e_said.blocks[Parser!Min(EdidOf(e_said.blocks, type))]
  BY <1>5, Zenon DEF Parser!FirstOf
<1>7. Parser!DepthsMatchFormats
  BY <1>3, EdidReadDepths, Zenon DEF Parser!DepthsMatchFormats
<1>8. ASSUME e_info.status = "DISPLAYINFO_OK"
      PROVE  e_info.timings
               = IF Parser!Of("video") = {} THEN <<>>
                 ELSE <<Parser!Vic(Parser!FirstOf("video").vics[1])>>
  BY <1>4, <1>5, <1>6, <1>8, <1>3, Zenon DEF EdidHeard
<1>9. Parser!ParsedAsSaid
  <2>1. ASSUME e_info.status = "DISPLAYINFO_OK"
        PROVE  /\ e_info.audio_formats =
                    IF Parser!Of("audio") = {} THEN {}
                    ELSE LET formats
                               == Parser!Range(Parser!FirstOf("audio").formats)
                         IN formats \cup (IF 10 \in formats THEN {16} ELSE {})
               /\ e_info.rgb =
                    {8} \cup IF Parser!Of("licensing") = {} THEN {}
                             ELSE {IF n = 6 THEN 16 ELSE 2 * n + 2 :
                                n \in Parser!FirstOf("licensing").bits \ {3}}
               /\ e_info.color_spaces =
                    IF Parser!Of("colorimetry") = {} THEN {} ELSE {6, 7, 8}
    BY <1>4, <1>5, <1>6, <1>3, <2>1, Zenon DEF EdidHeard
  <2>2. ASSUME e_info.status = "DISPLAYINFO_OK"
        PROVE  /\ "444" \in e_info.color_formats
                    <=> e_said.version >= 2 /\ 4 \in e_said.flags
               /\ "422" \in e_info.color_formats
                    <=> e_said.version >= 2 /\ 5 \in e_said.flags
               /\ "420" \in e_info.color_formats <=>
                    \/ Parser!Of("map") # {}
                    \/ \E i \in Parser!Of("forum") : e_said.blocks[i].bits # {}
    BY <1>4, <1>5, <1>3, <2>2, Zenon DEF EdidHeard
  <2>. QED
    BY <1>8, <1>2, <1>3, <2>1, <2>2, Zenon DEF Parser!ParsedAsSaid
<1>10. Parser!TimingsAreKnown
  <2>1. SUFFICES ASSUME e_info.status = "DISPLAYINFO_OK",
                        NEW k \in DOMAIN e_info.timings,
                        Parser!FirstOf("video").vics[k]
                          \in (1..127) \cup (129..192) \cup (193..219)
                 PROVE  Parser!HasStandardTiming(e_info.timings[k])
    BY DEF Parser!TimingsAreKnown
  <2>2. Parser!Of("video") # {}
    BY <1>8, <2>1
  <2>3. PICK byte : byte = Parser!FirstOf("video").vics[1]
    OBVIOUS
  <2>4. PICK vic : vic = Parser!Vic(byte)
    OBVIOUS
  <2>5. e_info.timings = <<vic>>
    BY <1>8, <2>1, <2>2, <2>3, <2>4, Zenon
  <2>6. k = 1 /\ e_info.timings[k] = vic
    BY <2>5
  <2>7. Parser!HasStandardTiming(Parser!Vic(byte))
    BY <2>1, <2>3, <2>6, EdidKnows
  <2>. QED
    BY <2>4, <2>6, <2>7
<1>. QED
  BY <1>7, <1>9, <1>10 DEF EdidTold

LEMMA EdidTruthStep ==
  ASSUME Parser!EdidAssumption, EdidInv, EdidTruth,
         [Parser!Next]_(Parser!vars)
  PROVE  EdidTruth'
<1>1. CASE UNCHANGED Parser!vars
  BY <1>1 DEF Parser!vars, EdidTruth
<1>2. CASE Parser!Obtain
  <2>1. e_said = Parser!Nothing /\ e_said' \in EdidSays
    BY <1>2 DEF Parser!Obtain, EdidSays
  <2>2. e_said' # Parser!Nothing
    BY <2>1 DEF EdidSays, Parser!Nothing
  <2>3. e_seg_iter' = 0 /\ e_copied' = <<>> /\ e_info' = Parser!Nothing
    BY <1>2, <2>1 DEF Parser!Obtain, EdidTruth
  <2>4. Len(Parser!Segments(e_said')) \in 1..4
    BY <2>1, EdidBuffer
  <2>6. /\ e_seg_iter' <= Len(Parser!Segments(e_said'))
        /\ Len(e_copied') = e_seg_iter'
        /\ \A i \in 1..e_seg_iter' :
             e_copied'[i] = Parser!Segments(e_said')[i]
    BY <2>3, <2>4
  <2>. QED
    BY <2>2, <2>3, <2>6 DEF EdidTruth
<1>3. CASE Parser!CopySegment
  <2>1. e_said \in EdidSays /\ e_said # Parser!Nothing
    BY <1>3 DEF Parser!CopySegment, EdidInv
  <2>2. PICK segments : segments = Parser!Segments(e_said)
    OBVIOUS
  <2>3. segments \in Seq(Seq(Parser!Byte)) /\ Len(segments) \in 1..4
    BY <2>1, <2>2, EdidBuffer
  <2>4. PICK n \in Nat : n = e_seg_iter
    BY DEF EdidInv, Parser!TypeOK
  <2>5. /\ e_said' = e_said /\ e_info' = e_info /\ e_seg_iter' = n + 1
        /\ n < Len(segments)
        /\ e_copied' = Parser!Copy(e_copied, n, segments[n + 1])
    BY <1>3, <2>2, <2>4 DEF Parser!CopySegment
  <2>6. /\ Len(e_copied) = n /\ \A i \in 1..n : e_copied[i] = segments[i]
        /\ e_info # Parser!Nothing => n = Len(segments)
    BY <2>1, <2>2, <2>4 DEF EdidTruth
  <2>7. e_info = Parser!Nothing
    BY <2>3, <2>5, <2>6
  <2>8. segments[n + 1] \in Seq(Parser!Byte)
        /\ e_copied \in Seq(Seq(Parser!Byte))
    BY <2>3, <2>4, <2>5 DEF EdidInv, Parser!TypeOK
  <2>9. PICK copy : copy = Parser!Copy(e_copied, Len(e_copied), segments[n + 1])
    OBVIOUS
  <2>10. /\ Len(copy) = n + 1 /\ \A i \in 1..n : copy[i] = e_copied[i]
         /\ copy[n + 1] = segments[n + 1]
    <3>1. PICK S : S = Seq(Parser!Byte)
      OBVIOUS
    <3>2. PICK list \in Seq(S), segment \in S :
            list = e_copied /\ segment = segments[n + 1]
      BY <2>8, <3>1, Zenon
    <3>3. copy = Parser!Copy(list, Len(list), segment)
      BY <2>9, <3>2
    <3>4. EdidGrown(Parser!Copy(list, Len(list), segment), list, segment)
      BY EdidAppends, Zenon
    <3>. QED
      BY <2>6, <3>2, <3>3, <3>4 DEF EdidGrown
  <2>11. e_copied' = copy
    BY <2>5, <2>6, <2>9
  <2>12. \A i \in 1..(n + 1) : copy[i] = segments[i]
    <3>1. \A i \in 1..(n + 1) : i \in 1..n \/ i = n + 1
      OBVIOUS
    <3>. QED
      BY <2>6, <2>10, <3>1
  <2>13. n + 1 <= Len(segments)
    BY <2>3, <2>5
  <2>. QED
    BY <2>1, <2>2, <2>5, <2>7, <2>10, <2>11, <2>12, <2>13 DEF EdidTruth
<1>4. CASE Parser!CeaExtensionInfo
  <2>1. e_said \in EdidSays /\ e_said # Parser!Nothing
    BY <1>4 DEF Parser!CeaExtensionInfo, EdidInv
  <2>2. PICK segments : segments = Parser!Segments(e_said)
    OBVIOUS
  <2>3. segments \in Seq(Seq(Parser!Byte)) /\ Len(segments) \in 1..4
    BY <2>1, <2>2, EdidBuffer
  <2>4. /\ UNCHANGED <<e_said, e_seg_iter, e_copied>>
        /\ e_seg_iter = Len(segments)
    BY <1>4, <2>2 DEF Parser!CeaExtensionInfo
  <2>5. e_copied = segments
    <3>1. /\ e_copied \in Seq(Seq(Parser!Byte)) /\ Len(e_copied) = Len(segments)
          /\ \A i \in 1..Len(segments) : e_copied[i] = segments[i]
      BY <2>1, <2>2, <2>4 DEF EdidTruth, EdidInv, Parser!TypeOK
    <3>. QED
      BY <2>3, <3>1, EdidSame
  <2>6. PICK seg : seg = Parser!Extension(e_said)
    OBVIOUS
  <2>7. Parser!CEASegments = EdidMarked(segments)
    BY <2>5 DEF Parser!CEASegments, EdidMarked
  <2>8. /\ Parser!IsValid(segments[1]) <=> e_said.valid
        /\ e_said.place \in {1, 2} =>
             /\ EdidMarked(segments) # {}
             /\ segments[Parser!Min(EdidMarked(segments))] = seg
        /\ e_said.place \notin {1, 2} => EdidMarked(segments) = {}
    BY <2>1, <2>2, <2>6, EdidBuffer
  <2>9. /\ e_info' # Parser!Nothing
        /\ e_info'.status = "DISPLAYINFO_OK"
             <=> e_said.valid /\ e_said.place \in {1, 2}
        /\ e_info'.status = "DISPLAYINFO_OK" =>
             /\ e_info'.timings = Parser!Timings(seg)
             /\ e_info'.audio_formats = Parser!AudioFormats(seg)
             /\ e_info'.rgb = Parser!RGBColorDepths(seg)
             /\ e_info'.color_formats = Parser!ColorFormats(seg)
             /\ e_info'.color_spaces = Parser!ColorSpaces(seg)
             /\ e_info'.ycbcr444 = Parser!YCbCr444ColorDepths(seg)
             /\ e_info'.ycbcr422 = Parser!YCbCr422ColorDepths(seg)
             /\ e_info'.ycbcr420 = Parser!YCbCr420ColorDepths(seg)
    <3>1. CASE ~e_said.valid
      <4>1. e_info' = [status |-> "DISPLAYINFO_ERROR_GENERAL"]
        BY <1>4, <2>5, <2>8, <3>1 DEF Parser!CeaExtensionInfo
      <4>. QED
        BY <3>1, <4>1 DEF Parser!Nothing
    <3>2. CASE e_said.valid /\ e_said.place \notin {1, 2}
      <4>1. e_info' = [status |-> "DISPLAYINFO_ERROR_UNAVAILABLE"]
        BY <1>4, <2>5, <2>7, <2>8, <3>2 DEF Parser!CeaExtensionInfo
      <4>. QED
        BY <3>2, <4>1 DEF Parser!Nothing
    <3>3. CASE e_said.valid /\ e_said.place \in {1, 2}
      <4>1. /\ Parser!IsValid(e_copied[1]) /\ Parser!CEASegments # {}
            /\ e_copied[Parser!Min(Parser!CEASegments)] = seg
        BY <2>5, <2>7, <2>8, <3>3
      <4>2. e_info' =
              [status |-> "DISPLAYINFO_OK", version |-> seg[2],
               audio_formats |-> Parser!AudioFormats(seg),
               color_spaces |-> Parser!ColorSpaces(seg),
               color_formats |-> Parser!ColorFormats(seg),
               rgb |-> Parser!RGBColorDepths(seg),
               ycbcr444 |-> Parser!YCbCr444ColorDepths(seg),
               ycbcr422 |-> Parser!YCbCr422ColorDepths(seg),
               ycbcr420 |-> Parser!YCbCr420ColorDepths(seg),
               timings |-> Parser!Timings(seg)]
        BY <1>4, <4>1 DEF Parser!CeaExtensionInfo
      <4>. QED
        BY <3>3, <4>2 DEF Parser!Nothing
    <3>. QED
      BY <3>1, <3>2, <3>3
  <2>10. EdidAnswer(e_said, e_info')
    BY <2>6, <2>9, Zenon DEF EdidAnswer
  <2>11. /\ Len(e_copied) = e_seg_iter
         /\ \A i \in 1..e_seg_iter : e_copied[i] = segments[i]
    BY <2>1, <2>2 DEF EdidTruth
  <2>12. e_seg_iter <= Len(segments)
    BY <2>3, <2>4
  <2>. QED
    BY <2>1, <2>2, <2>4, <2>10, <2>11, <2>12 DEF EdidTruth
<1>5. CASE Parser!Drop
  <2>1. /\ e_said' = Parser!Nothing /\ e_seg_iter' = 0 /\ e_copied' = <<>>
        /\ e_info' = Parser!Nothing
    BY <1>5 DEF Parser!Drop
  <2>. QED
    BY <2>1 DEF EdidTruth
<1>. QED
  BY <1>1, <1>2, <1>3, <1>4, <1>5 DEF Parser!Next

\* The answers of the parser match what the display said.
LEMMA EdidMatchAlways ==
  ASSUME Parser!EdidAssumption
  PROVE  Parser!Spec => [](EdidTold /\ Parser!BaseIsDecoded)
<1>1. Parser!Init => EdidTruth
  <2>1. SUFFICES ASSUME Parser!Init PROVE EdidTruth
    OBVIOUS
  <2>2. /\ e_said = Parser!Nothing /\ e_seg_iter = 0 /\ e_copied = <<>>
        /\ e_info = Parser!Nothing
    BY <2>1 DEF Parser!Init
  <2>. QED
    BY <2>2 DEF EdidTruth
<1>2. EdidInv /\ EdidTruth /\ [Parser!Next]_(Parser!vars) => EdidTruth'
  BY EdidTruthStep
<1>3. EdidInv /\ EdidTruth => EdidTold
  BY EdidAnswers, EdidSilent
<1>. QED
  BY <1>1, <1>2, <1>3, EdidAlways, EdidBase, PTL DEF Parser!Spec

-----------------------------------------------------------------------------
(* A behaviour of the libraries is a behaviour of each *)

LEMMA OpenSSLMoves == Spec => OpenSSL!Spec
<1>1. Init => OpenSSL!Init
  BY DEF Init
<1>2. [Next]_vars => [OpenSSL!Next]_(OpenSSL!vars)
  BY DEF Next, Alone, vars, openssl_vars, OpenSSL!vars
<1>. QED
  BY <1>1, <1>2, PTL DEF Spec, OpenSSL!Spec

LEMMA SecApiMoves == Spec => SecApi!Spec
<1>1. Init => SecApi!Init
  BY DEF Init
<1>2. [Next]_vars => [SecApi!Next]_(SecApi!vars)
  BY DEF Next, Alone, vars, secapi_vars, SecApi!vars
<1>. QED
  BY <1>1, <1>2, PTL DEF Spec, SecApi!Spec

LEMMA NetflixMoves == Spec => Netflix!Spec
<1>1. Init => Netflix!Init
  BY DEF Init
<1>2. [Next]_vars => [Netflix!Next]_(Netflix!vars)
  BY DEF Next, Alone, vars, netflix_vars, Netflix!vars
<1>. QED
  BY <1>1, <1>2, PTL DEF Spec, Netflix!Spec

LEMMA CryptoMoves == Spec => Crypto!Spec
<1>1. Init => Crypto!Init
  BY DEF Init
<1>2. [Next]_vars => [Crypto!Next]_(Crypto!vars)
  BY DEF Next, Alone, vars, cryptography_vars, Crypto!vars, Crypto!proxyVars,
         Crypto!localVars
<1>. QED
  BY <1>1, <1>2, PTL DEF Spec, Crypto!Spec

LEMMA SourceMoves == Spec => Source!Spec
<1>1. Init => Source!Init
  BY DEF Init
<1>2. [Next]_vars => [Source!Next]_(Source!vars)
  BY DEF Next, Alone, vars, source_vars, Source!vars
<1>. QED
  BY <1>1, <1>2, PTL DEF Spec, Source!Spec

LEMMA SinkMoves == Spec => Sink!Spec
<1>1. Init => Sink!Init
  BY DEF Init
<1>2. [Next]_vars => [Sink!Next]_(Sink!vars)
  BY DEF Next, Alone, vars, sink_vars, Sink!vars
<1>. QED
  BY <1>1, <1>2, PTL DEF Spec, Sink!Spec

LEMMA PlayerMoves == Spec => Player!Spec
<1>1. Init => Player!Init
  BY DEF Init
<1>2. [Next]_vars => [Player!Next]_(Player!vars)
  BY DEF Next, Alone, vars, player_vars, Player!vars
<1>. QED
  BY <1>1, <1>2, PTL DEF Spec, Player!Spec

LEMMA DisplayMoves == Spec => Display!Spec
<1>1. Init => Display!Init
  BY DEF Init
<1>2. [Next]_vars => [Display!Next]_(Display!vars)
  BY DEF Next, Alone, vars, displayinfo_vars, Display!vars
<1>. QED
  BY <1>1, <1>2, PTL DEF Spec, Display!Spec

LEMMA ParserMoves == Spec => Parser!Spec
<1>1. Init => Parser!Init
  BY DEF Init
<1>2. [Next]_vars => [Parser!Next]_(Parser!vars)
  BY DEF Next, Alone, vars, edid_vars, Parser!vars
<1>. QED
  BY <1>1, <1>2, PTL DEF Spec, Parser!Spec

LEMMA DeviceMoves == Spec => Device!Spec
<1>1. Init => Device!Init
  BY DEF Init
<1>2. [Next]_vars => [Device!Next]_(Device!vars)
  BY DEF Next, Alone, vars, device_vars, Device!vars
<1>. QED
  BY <1>1, <1>2, PTL DEF Spec, Device!Spec

LEMMA MesaMoves == Spec => Mesa!Spec
<1>1. Init => Mesa!Init
  BY DEF Init
<1>2. [Next]_vars => [Mesa!Next]_(Mesa!vars)
  BY DEF Next, Alone, vars, mesa_vars, Mesa!vars
<1>. QED
  BY <1>1, <1>2, PTL DEF Spec, Mesa!Spec

LEMMA RpiMoves == Spec => Rpi!Spec
<1>1. Init => Rpi!Init
  BY DEF Init
<1>2. [Next]_vars => [Rpi!Next]_(Rpi!vars)
  BY DEF Next, Alone, vars, rpi_vars, Rpi!vars
<1>. QED
  BY <1>1, <1>2, PTL DEF Spec, Rpi!Spec

LEMMA WaylandMoves == Spec => Wayland!Spec
<1>1. Init => Wayland!Init
  BY DEF Init
<1>2. [Next]_vars => [Wayland!Next]_(Wayland!vars)
  BY DEF Next, Alone, vars, westeros_vars, Wayland!vars
<1>. QED
  BY <1>1, <1>2, PTL DEF Spec, Wayland!Spec

-----------------------------------------------------------------------------
(* The invariants proved of each, here *)

\* Of the cryptography client.
LEMMA CryptoKeeps ==
  Spec => [](/\ Crypto!TypeOK
             /\ Crypto!RemoteReferencesBalance
             /\ Crypto!LocalVaultOutlives)
<1>1. Crypto!Spec => []CryptoInv
  BY CryptoAlways, LibrariesAssumption DEF LibrariesAssumption
<1>2. CryptoInv => /\ Crypto!TypeOK
                   /\ Crypto!RemoteReferencesBalance
                   /\ Crypto!LocalVaultOutlives
  BY CryptoBalances DEF CryptoInv
<1>. QED
  BY <1>1, <1>2, CryptoMoves, PTL

\* Of the audio source.
LEMMA SourceKeeps ==
  Spec => [](/\ Source!TypeOK
             /\ Source!FramesOnlyWhilePlaying
             /\ Source!CallbacksAreRegistered
             /\ Source!InterfacesAreAlive
             /\ Source!NothingIsKept)
<1>1. Source!Spec => []SourceInv
  BY SourceAlways, LibrariesAssumption DEF LibrariesAssumption
<1>2. SourceInv => /\ Source!TypeOK
                   /\ Source!FramesOnlyWhilePlaying
                   /\ Source!CallbacksAreRegistered
                   /\ Source!InterfacesAreAlive
                   /\ Source!NothingIsKept
  BY SourceProperties
<1>. QED
  BY <1>1, <1>2, SourceMoves, PTL

\* Of the audio sink.
LEMMA SinkKeeps ==
  Spec => [](/\ Sink!TypeOK
             /\ Sink!InstanceIsShared
             /\ Sink!CallbacksAreRegistered)
<1>1. Sink!Spec => []SinkInv
  BY SinkAlways, LibrariesAssumption DEF LibrariesAssumption
<1>2. SinkInv => /\ Sink!TypeOK
                 /\ Sink!InstanceIsShared
                 /\ Sink!CallbacksAreRegistered
  BY SinkProperties
<1>. QED
  BY <1>1, <1>2, SinkMoves, PTL

\* Of the client of PlayerInfo.
LEMMA PlayerKeeps ==
  Spec => [](/\ Player!TypeOK
             /\ Player!ReferencesBalance
             /\ Player!InterfacesAreAlive
             /\ Player!CallbacksAreRegistered
             /\ Player!CodecsFit)
<1>1. Player!Spec => []PlayerInv
  BY PlayerAlways, LibrariesAssumption DEF LibrariesAssumption
<1>2. Player!Spec => []Player!CodecsFit
  BY PlayerCodecs, LibrariesAssumption DEF LibrariesAssumption
<1>3. PlayerInv => /\ Player!TypeOK
                   /\ Player!ReferencesBalance
                   /\ Player!InterfacesAreAlive
                   /\ Player!CallbacksAreRegistered
  BY DEF PlayerInv, PlayerHeldInv
<1>. QED
  BY <1>1, <1>2, <1>3, PlayerMoves, PTL

\* Of the client of DisplayInfo.
LEMMA DisplayKeeps ==
  Spec => [](/\ Display!TypeOK
             /\ Display!ReferencesBalance
             /\ Display!InterfacesAreAlive
             /\ Display!CallbacksAreRegistered)
<1>1. Display!Spec => []DisplayInv
  BY DisplayAlways, LibrariesAssumption DEF LibrariesAssumption
<1>2. DisplayInv => /\ Display!TypeOK
                    /\ Display!ReferencesBalance
                    /\ Display!InterfacesAreAlive
                    /\ Display!CallbacksAreRegistered
  BY DEF DisplayInv, DisplayHeld
<1>. QED
  BY <1>1, <1>2, DisplayMoves, PTL

\* Of the client of DeviceInfo; also that it answers what the device said.
LEMMA DeviceKeeps ==
  Spec => [](/\ Device!TypeOK
             /\ Device!ReferencesBalance
             /\ Device!AnswersFit
             /\ Device!AnswersMatch)
<1>1. Device!Spec => []DeviceInv
  BY DeviceAlways, LibrariesAssumption DEF LibrariesAssumption
<1>2. DeviceHeld /\ DeviceInv /\ DeviceUp => /\ Device!TypeOK
                                           /\ Device!ReferencesBalance
                                           /\ Device!AnswersFit
  BY DeviceTypes, LibrariesAssumption
     DEF LibrariesAssumption, DeviceHeld, DeviceInv, DeviceAnswers
<1>3. Device!Spec => []Device!AnswersMatch
  BY DeviceMatchAlways, LibrariesAssumption DEF LibrariesAssumption
<1>. QED
  BY <1>1, <1>2, <1>3, DeviceHeldAlways, DeviceUpAlways, DeviceMoves, PTL

\* Of the EDID parser; also that it answers what the display said.
LEMMA ParserKeeps ==
  Spec => [](/\ Parser!TypeOK
             /\ Parser!ParsedAsSaid
             /\ Parser!DepthsMatchFormats
             /\ Parser!TimingsAreKnown
             /\ Parser!BaseIsDecoded)
<1>1. Parser!Spec => []EdidInv
  BY EdidAlways, LibrariesAssumption DEF LibrariesAssumption
<1>2. Parser!Spec => [](EdidTold /\ Parser!BaseIsDecoded)
  BY EdidMatchAlways, LibrariesAssumption DEF LibrariesAssumption
<1>3. EdidInv => Parser!TypeOK
  BY DEF EdidInv
<1>4. EdidTold => /\ Parser!ParsedAsSaid
                  /\ Parser!DepthsMatchFormats
                  /\ Parser!TimingsAreKnown
  BY DEF EdidTold
<1>. QED
  BY <1>1, <1>2, <1>3, <1>4, ParserMoves, PTL

\* Of the Mesa backend.
LEMMA MesaKeeps ==
  Spec => [](/\ Mesa!TypeOK
             /\ Mesa!ReferencesBalance
             /\ Mesa!RegistriesAreSound
             /\ Mesa!CallbacksAreRegistered)
<1>1. Mesa!Spec => []MesaInv
  BY MesaAlways, LibrariesAssumption DEF LibrariesAssumption
<1>2. MesaInv => /\ Mesa!TypeOK
                 /\ Mesa!ReferencesBalance
                 /\ Mesa!RegistriesAreSound
                 /\ Mesa!CallbacksAreRegistered
  BY MesaProperties, LibrariesAssumption DEF LibrariesAssumption
<1>. QED
  BY <1>1, <1>2, MesaMoves, PTL

\* Of the RPI backend.
LEMMA RpiKeeps ==
  Spec => [](/\ Rpi!TypeOK
             /\ Rpi!ReferencesBalance
             /\ Rpi!RegistriesAreSound
             /\ Rpi!ValuesFit)
<1>1. Rpi!Spec => []RpiInv
  BY RpiAlways, LibrariesAssumption DEF LibrariesAssumption
<1>2. RpiInv => /\ Rpi!TypeOK
                /\ Rpi!ReferencesBalance
                /\ Rpi!RegistriesAreSound
                /\ Rpi!ValuesFit
  BY RpiProperties, LibrariesAssumption DEF LibrariesAssumption
<1>. QED
  BY <1>1, <1>2, RpiMoves, PTL

\* Of the Westeros backend; also that it answers what the server said.
LEMMA WaylandKeeps ==
  Spec => [](/\ Wayland!TypeOK
             /\ Wayland!ReferencesBalance
             /\ Wayland!RegistriesAreSound
             /\ Wayland!AnswersMatch)
<1>1. Wayland!Spec => []WaylandInv
  BY WaylandAlways, LibrariesAssumption DEF LibrariesAssumption
<1>2. WaylandInv => /\ Wayland!TypeOK
                    /\ Wayland!ReferencesBalance
                    /\ Wayland!RegistriesAreSound
                    /\ Wayland!AnswersMatch
  BY WaylandProperties, LibrariesAssumption DEF LibrariesAssumption
<1>. QED
  BY <1>1, <1>2, WaylandMoves, PTL

-----------------------------------------------------------------------------
(* What they have in common *)

\* vault_export() of the OpenSSL vault hands out nothing but what was imported in
\* clear or made as a public key: no sequence of calls of any number of threads,
\* blobs that are cut or made by the client among them, makes it hand out a
\* sealed secret or a part of one.
THEOREM LibrariesExportNoSecret == Spec => []SealedIsNotExported
<1>1. OpenSSL!Spec => []OpenSSL!SealedIsNotExported
  BY VaultSealedIsNotExported, LibrariesAssumption DEF LibrariesAssumption
<1>2. OpenSSL!SealedIsNotExported => SealedIsNotExported
  BY DEF SealedIsNotExported
<1>. QED
  BY <1>1, <1>2, OpenSSLMoves, PTL

\* The handle an AES cipher or an HMAC of the OpenSSL vault was created with never
\* finds a key other than the one it named then, and the one
\* netflix_security_encryption_key() gives out names the encryption key for ever,
\* or nothing.
THEOREM LibrariesKeepKeys == Spec => []ObjectsKeepTheirKey
<1>1. OpenSSL!Spec => []OpenSSL!ObjectsKeepTheirKey
  BY VaultHandlesNameOneKey, LibrariesAssumption DEF LibrariesAssumption
<1>2. Netflix!Spec => []Netflix!EncryptionKeyStays
  BY NetflixEncryptionKeyForEver, LibrariesAssumption DEF LibrariesAssumption
<1>3. (live = "openssl" => OpenSSL!ObjectsKeepTheirKey)
        /\ (live = "netflix" => Netflix!EncryptionKeyStays)
        => ObjectsKeepTheirKey
  BY DEF ObjectsKeepTheirKey
<1>. QED
  BY <1>1, <1>2, <1>3, OpenSSLMoves, NetflixMoves, PTL

\* An object in the security processor's memory that no item of the vault names
\* is one the processor refused to delete when it was asked, whichever of its
\* calls fail, deletions among them.
THEOREM LibrariesOrphansWereRefused == Spec => []OrphansWereRefused
<1>1. SecApi!Spec => []SecApi!OrphansWereRefused
  BY SecApiOrphansWereRefused, LibrariesAssumption DEF LibrariesAssumption
<1>2. SecApi!OrphansWereRefused => OrphansWereRefused
  BY DEF OrphansWereRefused
<1>. QED
  BY <1>1, <1>2, SecApiMoves, PTL

\* Every reference a library takes of a proxy, an interface, a display or a
\* surface is given back once and only once, by any number of threads and
\* however often the plugin goes away in the middle of a call.
THEOREM LibrariesBalance == Spec => []ReferencesBalance
<1>1. (/\ Crypto!RemoteReferencesBalance /\ Crypto!LocalVaultOutlives
       /\ Source!NothingIsKept /\ Sink!InstanceIsShared
       /\ Player!ReferencesBalance /\ Display!ReferencesBalance
       /\ Device!ReferencesBalance /\ Mesa!ReferencesBalance
       /\ Rpi!ReferencesBalance /\ Wayland!ReferencesBalance)
        => ReferencesBalance
  BY DEF ReferencesBalance
<1>. QED
  BY <1>1, CryptoKeeps, SourceKeeps, SinkKeeps, PlayerKeeps, DisplayKeeps,
     DeviceKeeps, MesaKeeps, RpiKeeps, WaylandKeeps, PTL

\* A thread in a call of an interface of the plugin holds one that was not
\* released, although OPERATIONAL(false) may come at any moment.
THEOREM LibrariesUseWhatIsAlive == Spec => []InterfacesAreAlive
<1>1. (/\ Source!InterfacesAreAlive /\ Player!InterfacesAreAlive
       /\ Display!InterfacesAreAlive)
        => InterfacesAreAlive
  BY DEF InterfacesAreAlive
<1>. QED
  BY <1>1, SourceKeeps, PlayerKeeps, DisplayKeeps, PTL

\* A thread of the plugin, the monitor or the input, and a client that still has
\* the lock, is only in a callback that is registered.  (The call of a callback
\* that its own client makes without a lock, after registering it, is not meant.)
THEOREM LibrariesCallRegistered == Spec => []CallbacksAreRegistered
<1>1. (/\ Source!CallbacksAreRegistered /\ Sink!CallbacksAreRegistered
       /\ Player!CallbacksAreRegistered /\ Display!CallbacksAreRegistered
       /\ Mesa!CallbacksAreRegistered)
        => CallbacksAreRegistered
  BY DEF CallbacksAreRegistered
<1>. QED
  BY <1>1, SourceKeeps, SinkKeeps, PlayerKeeps, DisplayKeeps, MesaKeeps, PTL

\* The audio source hands frames to its sink only between the callbacks that
\* say it plays and that it stops.
THEOREM LibrariesPlayInOrder == Spec => []FramesOnlyWhilePlaying
<1>1. Source!FramesOnlyWhilePlaying => FramesOnlyWhilePlaying
  BY DEF FramesOnlyWhilePlaying
<1>. QED
  BY <1>1, SourceKeeps, PTL

\* The maps of displays and surfaces find what is alive and nothing else, for
\* any number of displays, surfaces, devices and threads.
THEOREM LibrariesRegister == Spec => []RegistriesAreSound
<1>1. (/\ Mesa!RegistriesAreSound /\ Rpi!RegistriesAreSound
       /\ Wayland!RegistriesAreSound)
        => RegistriesAreSound
  BY DEF RegistriesAreSound
<1>. QED
  BY <1>1, MesaKeeps, RpiKeeps, WaylandKeeps, PTL

\* What a library answers is what the other side said, and fits where it is written:
\* any display with its EDID, through displayinfo_edid_cea_extension_info() and the
\* collectors of the CEA blocks; the codecs of the player, in the caller's array; any
\* device with its attributes, through the caches of the client of DeviceInfo and
\* however often the plugin goes away, but for an empty serial number once the model
\* name is known and a default resolution the device refused to tell, and with a
\* string of up to 254 bytes that fits the length it was refused with; the numbers
\* and coordinates sent to the compositor of the RPI; the Westeros server with its
\* events.
THEOREM LibrariesAnswer == Spec => []AnswersMatch
<1>1. (/\ Parser!ParsedAsSaid /\ Parser!DepthsMatchFormats
       /\ Parser!TimingsAreKnown /\ Parser!BaseIsDecoded
       /\ Player!CodecsFit /\ Device!AnswersMatch /\ Device!AnswersFit
       /\ Rpi!ValuesFit /\ Wayland!AnswersMatch)
        => AnswersMatch
  BY DEF AnswersMatch
<1>. QED
  BY <1>1, ParserKeeps, PlayerKeeps, DeviceKeeps, RpiKeeps, WaylandKeeps, PTL

\* Type correctness of all the libraries.
THEOREM LibrariesTypes == Spec => []TypeOK
<1>1. OpenSSL!Spec => []OpenSSL!TypeOK
  BY VaultTypes, LibrariesAssumption DEF LibrariesAssumption
<1>2. SecApi!Spec => []SecApi!TypeOK
  BY SecApiTypes, LibrariesAssumption DEF LibrariesAssumption
<1>3. Netflix!Spec => []Netflix!TypeOK
  BY NetflixTypes, LibrariesAssumption DEF LibrariesAssumption
<1>4. (/\ OpenSSL!TypeOK /\ SecApi!TypeOK /\ Netflix!TypeOK /\ Crypto!TypeOK
       /\ Source!TypeOK /\ Sink!TypeOK /\ Player!TypeOK /\ Display!TypeOK
       /\ Parser!TypeOK /\ Device!TypeOK /\ Mesa!TypeOK /\ Rpi!TypeOK
       /\ Wayland!TypeOK)
        => TypeOK
  BY DEF TypeOK
<1>. QED
  BY <1>1, <1>2, <1>3, <1>4, OpenSSLMoves, SecApiMoves, NetflixMoves,
     CryptoKeeps, SourceKeeps, SinkKeeps, PlayerKeeps, DisplayKeeps,
     ParserKeeps, DeviceKeeps, MesaKeeps, RpiKeeps, WaylandKeeps, PTL
=============================================================================
