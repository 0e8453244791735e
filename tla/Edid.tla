-------------------------------- MODULE Edid --------------------------------
(***************************************************************************)
(* The parser of a display's EDID: the copy of a buffer into a base block  *)
(* and a list of extension blocks, the walk over the data blocks of the    *)
(* first CEA extension, and the decoding of the base block.                *)
(*                                                                         *)
(* What a display says is a record of a few choices; the layout operators  *)
(* turn it into the bytes of the CEA standard, and the parser's operators  *)
(* are applied to those bytes.  Assumed of the buffer: it announces the    *)
(* extensions it holds, and no data block ends after its collection.       *)
(***************************************************************************)
EXTENDS Integers, Sequences, SequencesExt

CONSTANTS
  MaxBlocks, \* data blocks in a collection
  Vics       \* bytes of a video data block

Byte == 0..255

\* What is assumed of the constants: an extension has 128 bytes, of which six are
\* not of the collection, and a data block takes eight of them at most.
EdidAssumption == MaxBlocks \in 0..15 /\ Vics \subseteq Byte

VARIABLES
  said,     \* what the display says
  seg_iter, \* segments copied so far
  copied,   \* the base and _segments
  info      \* what the caller was told

vars == <<said, seg_iter, copied, info>>

Nothing == [status |-> "none"]
Weight == <<1, 2, 4, 8, 16, 32, 64, 128>>
Bit(byte, n) == (byte \div Weight[n + 1]) % 2 = 1
Ones(bits) ==
  LET One(n) == IF n \in bits THEN Weight[n + 1] ELSE 0
  IN One(0) + One(1) + One(2) + One(3) + One(4) + One(5) + One(6) + One(7)

-----------------------------------------------------------------------------
\* What displays say, and how the standard lays it out.

\* A data block: audio formats, video codes, an HDMI vendor block (of the first
\* specification, its short form, or of the forum), two extended ones.
DataBlocks ==
  [type : {"audio"}, formats : {<<1>>, <<2, 10>>}] \cup
  [type : {"video"}, vics : {<<v>> : v \in Vics}] \cup
  [type : {"licensing"}, bits : {{}, {4}, {3, 4, 5}, {3, 6}}] \cup
  [type : {"short", "map", "colorimetry"}] \cup
  [type : {"forum"}, bits : {{}, {0}, {2}}]

Layout(b) ==
  CASE b.type = "audio" -> <<32 + 3 * Len(b.formats)>> \o
                           FlattenSeq([i \in DOMAIN b.formats |-> <<8 * b.formats[i] + 1, 7, 1>>])
    [] b.type = "video" -> <<64 + Len(b.vics)>> \o b.vics
    [] b.type = "licensing" -> <<96 + 6, 3, 12, 0, 16, 0, Ones(b.bits)>>
    [] b.type = "short" -> <<96 + 5, 3, 12, 0, 16, 0>>
    [] b.type = "forum" -> <<96 + 7, 216, 93, 196, 1, 120, 0, Ones(b.bits)>>
    [] b.type = "map" -> <<224 + 2, 15, 3>>
    [] b.type = "colorimetry" -> <<224 + 3, 5, 192, 128>>

\* The extension: tag, version, where the timing descriptors begin, the flags for
\* YCbCr 4:4:4 and 4:2:2, and the collection.
Extension(s) ==
  LET collection == FlattenSeq([i \in DOMAIN s.blocks |-> Layout(s.blocks[i])])
  IN <<2, s.version, 4 + Len(collection), Ones(s.flags)>> \o collection \o <<1, 29>>

\* The buffer: a base, whose header may be wrong, and the extensions, of which a
\* CEA extension may be one.
Header == <<0, 255, 255, 255, 255, 255, 255, 0>>
Other == <<112, 1, 0, 0>>
Segments(s) == <<IF s.valid THEN Header ELSE Other>> \o
  CASE s.place = 0 -> <<>>
    [] s.place = 1 -> <<Extension(s)>>
    [] s.place = 2 -> <<Other, Extension(s), Other>>
    [] s.place = 3 -> <<Other>>

-----------------------------------------------------------------------------
\* The copy.

\* Mutant: one step fewer along the list.
Place_Short(n, i) == IF i - 1 < n /\ i > 1 THEN i - 1 ELSE IF n = 0 THEN 1 ELSE n

\* Segment(): where index i > 0 is in a list that had n blocks.  It goes i steps
\* from the first, and a step from the end adds a block.
Place(n, i) == IF i < n THEN i + 1 ELSE IF n < i THEN i ELSE n

\* One round of the loop that copies.
Copy(list, i, segment) ==
  IF i = 0 THEN <<segment>>
  ELSE LET p == Place(Len(list) - 1, i)
           grown == IF Len(list) < p + 1 THEN Append(list, segment) ELSE list
       IN [grown EXCEPT ![p + 1] = segment]

-----------------------------------------------------------------------------
\* The walk.  seg[i + 1] is the byte with index i.

BlockSize(seg, i) == (seg[i + 1] % 32) + 1

BlockTag(seg, i) ==
  LET tag == seg[i + 1] \div 32 IN
  IF tag # 7 THEN tag ELSE IF BlockSize(seg, i) >= 2 THEN 256 + seg[i + 2] ELSE 0

\* DataBlockIterator: the indices at which Next() stops.
Walk(seg) ==
  LET from[i \in 4..160] ==
        IF i < 128 /\ i < seg[3] /\ BlockSize(seg, i) > 0
        THEN {i} \cup from[i + BlockSize(seg, i)] ELSE {}
  IN from[4]

OUI(seg, i) ==
  IF BlockSize(seg, i) >= 4
  THEN seg[i + 2] + 256 * seg[i + 3] + 65536 * seg[i + 4] ELSE 0

OUI_HDMI_LICENSING == 3075
OUI_HDMI_FORUM == 12869080

Vendor(seg, i, oui, size) ==
  BlockTag(seg, i) = 3 /\ BlockSize(seg, i) > size /\ OUI(seg, i) = oui

\* The first of the indices at which a loop breaks, 0 if it never does.
First(found) == IF found = {} THEN 0 ELSE Min(found)

Licensing(seg) == First({k \in Walk(seg) : Vendor(seg, k, OUI_HDMI_LICENSING, 6)})

DeepColors(byte) == (IF Bit(byte, 6) THEN {16} ELSE {}) \cup
                    (IF Bit(byte, 5) THEN {12} ELSE {}) \cup
                    (IF Bit(byte, 4) THEN {10} ELSE {})

RGBColorDepths(seg) ==
  LET i == Licensing(seg)
  IN {8} \cup IF i = 0 THEN {} ELSE DeepColors(seg[i + 7])

\* GetColorFormats()
ColorFormats(seg) ==
  {"RGB"} \cup
  (IF seg[2] >= 2 /\ Bit(seg[4], 4) THEN {"444"} ELSE {}) \cup
  (IF seg[2] >= 2 /\ Bit(seg[4], 5) THEN {"422"} ELSE {}) \cup
  (IF \E k \in Walk(seg) :
        IF Vendor(seg, k, OUI_HDMI_FORUM, 7) THEN seg[k + 8] % 8 # 0
        ELSE BlockTag(seg, k) = 256 + 15
   THEN {"420"} ELSE {})

YCbCr444ColorDepths(seg) ==
  LET i == Licensing(seg)
  IN IF "444" \notin ColorFormats(seg) THEN {}
     ELSE {8} \cup IF i # 0 /\ Bit(seg[i + 7], 3) THEN DeepColors(seg[i + 7]) ELSE {}

YCbCr422ColorDepths(seg) == IF "422" \in ColorFormats(seg) THEN {8, 10, 12} ELSE {}

\* Of several bits only the lowest counts.
YCbCr420ColorDepths(seg) ==
  LET i == First({k \in Walk(seg) : Vendor(seg, k, OUI_HDMI_FORUM, 7)})
  IN IF "420" \notin ColorFormats(seg) THEN {}
     ELSE {8} \cup
          IF i = 0 THEN {}
          ELSE CASE Bit(seg[i + 8], 0) -> {10}
                 [] ~Bit(seg[i + 8], 0) /\ Bit(seg[i + 8], 1) -> {12}
                 [] ~Bit(seg[i + 8], 0) /\ ~Bit(seg[i + 8], 1) /\ Bit(seg[i + 8], 2) -> {16}
                 [] OTHER -> {}

\* The bits of bytes 2 and 3 of the colorimetry block.
ColorSpaces(seg) ==
  LET i == First({k \in Walk(seg) : BlockTag(seg, k) = 256 + 5 /\ BlockSize(seg, k) > 3})
  IN IF i = 0 THEN {}
     ELSE {n \in 0..7 : Bit(seg[i + 3], n)} \cup IF Bit(seg[i + 4], 7) THEN {8} ELSE {}

\* The native flag of codes 1 to 64.
Vic(byte) == IF byte >= 128 /\ byte <= 192 THEN byte % 128 ELSE byte

Timings(seg) ==
  LET i == First({k \in Walk(seg) : BlockTag(seg, k) = 2})
  IN IF i = 0 THEN <<>> ELSE [k \in 1..(BlockSize(seg, i) - 1) |-> Vic(seg[i + k + 1])]

\* Every third byte of the audio block; format 10 is also Atmos (16) if it says so.
AudioFormats(seg) ==
  LET i == First({k \in Walk(seg) : BlockTag(seg, k) = 1})
      sads == IF i = 0 THEN {} ELSE {k \in 1..(BlockSize(seg, i) - 1) : k % 3 = 1}
      Code(k) == (seg[i + k + 1] \div 8) % 16
  IN {Code(k) : k \in sads} \cup
     {16 : k \in {k \in sads : Code(k) = 10 /\ Bit(seg[i + k + 3], 0)}}

\* displayinfo_edid_vic_to_standard_timing(): the codes in its table, and a search
\* of it.
StandardTimings == (1..127) \cup (193..219)

HasStandardTiming(vic) == vic \in StandardTimings

-----------------------------------------------------------------------------
\* The decoding of the base block.

\* Manufacturer(): ManufactereChar() takes the low byte of each shift; 0 is 'A'.
Manufacturer(value) ==
  <<((value \div 1024) - 1) % 32, (((value \div 32) % 256) - 1) % 32,
    ((value % 256) - 1) % 32>>

\* PreferredWidthInPixels() and -HeightInPixels(): eight bits, and the upper four
\* of another byte.
Preferred(low, high) == (high - (high % 16)) * 16 + low

-----------------------------------------------------------------------------
Init ==
  /\ said = Nothing
  /\ seg_iter = 0
  /\ copied = <<>>
  /\ info = Nothing

\* The caller has a buffer.  (A wrong header: at most one extension.)
Obtain ==
  /\ said = Nothing
  /\ \E valid \in BOOLEAN, place \in 0..3, version \in {1, 3}, flags \in {{}, {4}, {4, 5}},
        blocks \in UNION {[1..n -> DataBlocks] : n \in 0..MaxBlocks} :
       /\ ~valid => place \in {0, 3}
       /\ place \notin {1, 2} => blocks = <<>> /\ version = 1 /\ flags = {}
       /\ said' = [status |-> "said", valid |-> valid, place |-> place, version |-> version,
                   flags |-> flags, blocks |-> blocks]
  /\ UNCHANGED <<seg_iter, copied, info>>

\* displayinfo_edid_cea_extension_info(): the copy, segment by segment ...
CopySegment ==
  /\ said # Nothing
  /\ LET segments == Segments(said) IN
       /\ seg_iter < Len(segments)
       /\ copied' = Copy(copied, seg_iter, segments[seg_iter + 1])
  /\ seg_iter' = seg_iter + 1
  /\ UNCHANGED <<said, info>>

IsValid(base) == base = Header

\* The extensions with the tag; CEASegment() stops at the first.
CEASegments == {i \in 2..Len(copied) : copied[i][1] = 2}

\* ... and what it says.
CeaExtensionInfo ==
  /\ said # Nothing /\ info = Nothing
  /\ seg_iter = Len(Segments(said))
  /\ info' =
       IF ~IsValid(copied[1]) THEN [status |-> "DISPLAYINFO_ERROR_GENERAL"]
       ELSE IF CEASegments = {} THEN [status |-> "DISPLAYINFO_ERROR_UNAVAILABLE"]
       ELSE LET seg == copied[Min(CEASegments)] IN
            [status |-> "DISPLAYINFO_OK", version |-> seg[2],
             audio_formats |-> AudioFormats(seg), color_spaces |-> ColorSpaces(seg),
             color_formats |-> ColorFormats(seg),
             rgb |-> RGBColorDepths(seg), ycbcr444 |-> YCbCr444ColorDepths(seg),
             ycbcr422 |-> YCbCr422ColorDepths(seg), ycbcr420 |-> YCbCr420ColorDepths(seg),
             timings |-> Timings(seg)]
  /\ UNCHANGED <<said, seg_iter, copied>>

\* The caller is done with it.
Drop ==
  /\ info # Nothing
  /\ said' = Nothing /\ seg_iter' = 0 /\ copied' = <<>> /\ info' = Nothing

Next == Obtain \/ CopySegment \/ CeaExtensionInfo \/ Drop

Spec == Init /\ [][Next]_vars

-----------------------------------------------------------------------------
\* Every variable keeps its type.
TypeOK ==
  /\ said.status \in {"none", "said"}
  /\ seg_iter \in Nat
  /\ copied \in Seq(Seq(Byte))
  /\ info.status \in {"none", "DISPLAYINFO_OK", "DISPLAYINFO_ERROR_GENERAL",
                      "DISPLAYINFO_ERROR_UNAVAILABLE"}

\* The data blocks of a type, and the first of them.
Of(type) == {i \in DOMAIN said.blocks : said.blocks[i].type = type}
FirstOf(type) == said.blocks[Min(Of(type))]

\* The segments are copied to where they belong, and what is collected from the
\* bytes of the data blocks is what the first block of each type says, or for
\* YCbCr 4:2:0 any block.
ParsedAsSaid ==
  info # Nothing =>
    /\ copied = Segments(said)
    /\ info.status = "DISPLAYINFO_OK" <=> said.valid /\ said.place \in {1, 2}
    /\ info.status = "DISPLAYINFO_OK" =>
         /\ info.timings = IF Of("video") = {} THEN <<>>
                           ELSE <<Vic(FirstOf("video").vics[1])>>
         /\ info.audio_formats =
              IF Of("audio") = {} THEN {}
              ELSE LET formats == Range(FirstOf("audio").formats) IN
                   formats \cup (IF 10 \in formats THEN {16} ELSE {})
         /\ info.rgb = {8} \cup IF Of("licensing") = {} THEN {}
                                ELSE {IF n = 6 THEN 16 ELSE 2 * n + 2 :
                                        n \in FirstOf("licensing").bits \ {3}}
         /\ "444" \in info.color_formats <=> said.version >= 2 /\ 4 \in said.flags
         /\ "422" \in info.color_formats <=> said.version >= 2 /\ 5 \in said.flags
         /\ "420" \in info.color_formats <=>
              \/ Of("map") # {}
              \/ \E i \in Of("forum") : said.blocks[i].bits # {}
         /\ info.color_spaces = IF Of("colorimetry") = {} THEN {} ELSE {6, 7, 8}

\* A format has depths exactly if it is reported, and a deep colour of YCbCr 4:4:4
\* is one of RGB.
DepthsMatchFormats ==
  info.status = "DISPLAYINFO_OK" =>
    /\ "444" \in info.color_formats <=> info.ycbcr444 # {}
    /\ "422" \in info.color_formats <=> info.ycbcr422 # {}
    /\ "420" \in info.color_formats <=> info.ycbcr420 # {}
    /\ info.ycbcr444 \subseteq info.rgb

\* Every code of a video block that the standard assigns has a timing.
TimingsAreKnown ==
  info.status = "DISPLAYINFO_OK" =>
    \A k \in DOMAIN info.timings :
      LET byte == FirstOf("video").vics[k] IN
      byte \in (1..127) \cup (129..192) \cup (193..219) => HasStandardTiming(info.timings[k])

\* Three letters are decoded as they were packed, and so are twelve bits.
BaseIsDecoded ==
  /\ \A a, b, c \in {1, 2, 8, 26} :
       Manufacturer(a * 1024 + b * 32 + c) = <<a - 1, b - 1, c - 1>>
  /\ \A w \in {0, 255, 256, 1280, 3840, 4095} :
       Preferred(w % 256, (w \div 256) * 16 + 15) = w
=============================================================================
