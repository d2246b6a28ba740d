-------------------------- MODULE ArtifactsProofs --------------------------
(***************************************************************************)
(* Proofs about the artifacts crate: what Chroma makes of a picture, and,  *)
(* in Artifacts, which files a publication, a cleanup and a repair leave,  *)
(* for any number of requests, images, records and faults.                 *)
(***************************************************************************)
EXTENDS Artifacts, Chroma, FiniteSetTheorems, WellFoundedInduction, TLAPS

(***************************************************************************)
(* Before a picture is stored, its background may be removed: what that    *)
(* does to every pixel, and what the samples of a border say of it, for    *)
(* all colors, options and pictures.                                       *)
(***************************************************************************)
Options == [transparent : Byte, opaque : Byte, despill : BOOLEAN]

USE DEF Byte, Channels

-----------------------------------------------------------------------------
(* Of channels that are not none, one is the brightest and one the darkest.  *)
LEMMA Brightest ==
  ASSUME NEW color \in Color, NEW D \in SUBSET Channels, D # {}
  PROVE  /\ \E c \in D : \A d \in D : color[d] <= color[c]
         /\ \E c \in D : \A d \in D : color[c] <= color[d]
  <1>1. color[1] \in Int /\ color[2] \in Int /\ color[3] \in Int
        BY DEF Color
  <1>2. \A c \in D : c = 1 \/ c = 2 \/ c = 3
        OBVIOUS
  <1>3. \E c \in D : \A d \in D : color[d] <= color[c]
        <2>1. SUFFICES ASSUME \A c \in D : \E d \in D : ~(color[d] <= color[c])
                       PROVE  FALSE
              OBVIOUS
        <2>2. PICK i \in D : TRUE
              OBVIOUS
        <2>3. PICK j \in D : ~(color[j] <= color[i])
              BY <2>1
        <2>4. PICK k \in D : ~(color[k] <= color[j])
              BY <2>1
        <2>5. PICK l \in D : ~(color[l] <= color[k])
              BY <2>1
        <2>6. QED
              BY <1>1, <1>2, <2>3, <2>4, <2>5
  <1>4. \E c \in D : \A d \in D : color[c] <= color[d]
        <2>1. SUFFICES ASSUME \A c \in D : \E d \in D : ~(color[c] <= color[d])
                       PROVE  FALSE
              OBVIOUS
        <2>2. PICK i \in D : TRUE
              OBVIOUS
        <2>3. PICK j \in D : ~(color[i] <= color[j])
              BY <2>1
        <2>4. PICK k \in D : ~(color[j] <= color[k])
              BY <2>1
        <2>5. PICK l \in D : ~(color[k] <= color[l])
              BY <2>1
        <2>6. QED
              BY <1>1, <1>2, <2>3, <2>4, <2>5
  <1>5. QED
        BY <1>3, <1>4

(* Largest() and Smallest() of channels bound them.                          *)
LEMMA LargestBounds ==
  ASSUME NEW color \in Color, NEW D \in SUBSET Channels
  PROVE  /\ Largest({color[c] : c \in D}) \in Byte
         /\ \A c \in D : color[c] <= Largest({color[d] : d \in D})
  <1> DEFINE S == {color[c] : c \in D}
  <1>1. \A c \in Channels : color[c] \in Byte
        BY DEF Color
  <1>2. CASE D = {}
        BY <1>2 DEF Largest
  <1>3. CASE D # {}
        <2>1. \E v \in S : \A w \in S : w <= v
              <3>1. PICK c \in D : \A d \in D : color[d] <= color[c]
                    BY <1>3, Brightest
              <3>2. color[c] \in S
                    OBVIOUS
              <3>3. QED
                    BY <3>1, <3>2
        <2>2. S # {}
              BY <1>3
        <2>3. Largest(S) \in S /\ \A w \in S : w <= Largest(S)
              BY <2>1, <2>2 DEF Largest
        <2>4. QED
              BY <2>3, <1>1
  <1>4. QED
        BY <1>2, <1>3

LEMMA SmallestBounds ==
  ASSUME NEW color \in Color, NEW D \in SUBSET Channels
  PROVE  /\ Smallest({color[c] : c \in D}) \in Byte
         /\ \A c \in D : Smallest({color[d] : d \in D}) <= color[c]
  <1> DEFINE S == {color[c] : c \in D}
  <1>1. \A c \in Channels : color[c] \in Byte
        BY DEF Color
  <1>2. CASE D = {}
        BY <1>2 DEF Smallest
  <1>3. CASE D # {}
        <2>1. \E v \in S : \A w \in S : v <= w
              <3>1. PICK c \in D : \A d \in D : color[c] <= color[d]
                    BY <1>3, Brightest
              <3>2. color[c] \in S
                    OBVIOUS
              <3>3. QED
                    BY <3>1, <3>2
        <2>2. S # {}
              BY <1>3
        <2>3. Smallest(S) \in S /\ \A w \in S : Smallest(S) <= w
              BY <2>1, <2>2 DEF Smallest
        <2>4. QED
              BY <2>3, <1>1
  <1>4. QED
        BY <1>2, <1>3

LEMMA SpillIsChannels ==
  ASSUME NEW key
  PROVE  Spill(key) \in SUBSET Channels
  BY DEF Spill

LEMMA StrengthTypes ==
  ASSUME NEW color \in Color, NEW key
  PROVE  /\ OtherStrength(color, key) \in Byte
         /\ KeyStrength(color, key) \in Byte
         /\ \A c \in Spill(key) : KeyStrength(color, key) <= color[c]
  <1>1. \A D \in SUBSET Channels : Largest({color[c] : c \in D}) \in Byte
        BY LargestBounds
  <1>2. \A D \in SUBSET Channels : /\ Smallest({color[c] : c \in D}) \in Byte
                                   /\ \A c \in D : Smallest({color[d] : d \in D}) <= color[c]
        BY SmallestBounds
  <1>3. Channels \ Spill(key) \in SUBSET Channels /\ Spill(key) \in SUBSET Channels
        BY SpillIsChannels
  <1>4. OtherStrength(color, key) \in Byte
        BY <1>1, <1>3, Zenon DEF OtherStrength
  <1>5. /\ KeyStrength(color, key) \in Byte
        /\ \A c \in Spill(key) : KeyStrength(color, key) <= color[c]
        BY <1>2, <1>3, Zenon DEF KeyStrength
  <1>6. QED
        BY <1>4, <1>5

LEMMA DistanceType ==
  ASSUME NEW color \in Color, NEW key \in Color
  PROVE  Distance(color, key) \in Byte /\ (color = key => Distance(color, key) = 0)
  <1> DEFINE apart == <<Apart(color[1], key[1]), Apart(color[2], key[2]), Apart(color[3], key[3])>>
  <1>1. apart \in Color
        <2>1. color[1] \in Byte /\ color[2] \in Byte /\ color[3] \in Byte
              BY DEF Color
        <2>2. key[1] \in Byte /\ key[2] \in Byte /\ key[3] \in Byte
              BY DEF Color
        <2>3. \A a, b \in Byte : Apart(a, b) \in Byte
              BY DEF Apart
        <2> HIDE DEF Byte
        <2>4. /\ Apart(color[1], key[1]) \in Byte /\ Apart(color[2], key[2]) \in Byte
              /\ Apart(color[3], key[3]) \in Byte
              BY <2>1, <2>2, <2>3
        <2>5. QED
              BY <2>4 DEF Color
  <1>2. {Apart(color[c], key[c]) : c \in Channels} = {apart[c] : c \in Channels}
        OBVIOUS
  <1>3. Distance(color, key) \in Byte
        BY <1>1, <1>2, LargestBounds DEF Distance
  <1>4. ASSUME color = key PROVE Distance(color, key) = 0
        <2>1. \A c \in Channels : Apart(color[c], key[c]) = 0
              BY <1>4 DEF Apart, Color
        <2>2. {Apart(color[c], key[c]) : c \in Channels} = {0}
              BY <2>1
        <2>3. QED
              BY <2>2 DEF Distance, Largest
  <1>5. QED
        BY <1>3, <1>4

-----------------------------------------------------------------------------
(* An alpha is a byte, whatever the division that gave it.                   *)
LEMMA AsByteType ==
  ASSUME NEW value
  PROVE  AsByte(value) \in Byte
  BY DEF AsByte, Byte

LEMMA SoftAlphaType ==
  ASSUME NEW distance, NEW options
  PROVE  SoftAlpha(distance, options) \in Byte
  <1> DEFINE from   == options.transparent
             to     == options.opaque
             ratio  == ((distance - from) * AlphaScale) \div (to - from)
             smooth == (ratio * ratio * (3 * AlphaScale - 2 * ratio)) \div (AlphaScale * AlphaScale)
             value  == (smooth * 255 + AlphaScale \div 2) \div AlphaScale
  <1>1. SoftAlpha(distance, options) =
          IF distance <= from THEN 0 ELSE IF distance >= to THEN 255 ELSE AsByte(value)
        BY Zenon DEF SoftAlpha
  <1> HIDE DEF value
  <1>2. AsByte(value) \in Byte /\ 0 \in Byte /\ 255 \in Byte
        BY AsByteType DEF Byte
  <1>3. QED
        BY <1>1, <1>2

LEMMA DominanceAlphaType ==
  ASSUME NEW color, NEW key
  PROVE  DominanceAlpha(color, key) \in Byte
  <1> DEFINE dominance == Dominance(color, key)
             reach     == Largest({key[c] : c \in Channels}) - OtherStrength(color, key)
             whole     == IF reach < 1 THEN 1 ELSE reach
             remaining == IF dominance < whole THEN whole - dominance ELSE 0
             value     == (remaining * 255 + whole \div 2) \div whole
  <1>1. DominanceAlpha(color, key) = IF dominance <= 0 THEN 255 ELSE AsByte(value)
        BY Zenon DEF DominanceAlpha
  <1> HIDE DEF value
  <1>2. AsByte(value) \in Byte /\ 255 \in Byte
        BY AsByteType DEF Byte
  <1>3. QED
        BY <1>1, <1>2

(* chroma.rs:51 "Remove key-colored spill from partially transparent edges": *)
(* what cleanup_spill() leaves is nowhere brighter in the channels of the    *)
(* key than in the others.                                                   *)
THEOREM EdgesDoNotShine ==
  ASSUME NEW color \in Color, NEW key \in Color, NEW alpha \in 0..251, Spill(key) # {}
  PROVE  Dominance(Cleaned(color, key, alpha), key) <= 0
  <1> DEFINE other  == OtherStrength(color, key)
             anchor == IF other = 0 THEN 0 ELSE other - 1
             clean  == Cleaned(color, key, alpha)
  <1>1. other \in Byte
        BY StrengthTypes
  <1>2. \A c \in Channels : color[c] \in Byte
        BY DEF Color
  <1>3. \A c \in Channels :
          clean[c] = IF c \in Spill(key) /\ anchor < color[c] THEN anchor ELSE color[c]
        BY DEF Cleaned
  <1>4. clean \in Color
        <2> DEFINE Dimmed(c) == IF c \in Spill(key) /\ anchor < color[c] THEN anchor ELSE color[c]
        <2>1. clean = <<Dimmed(1), Dimmed(2), Dimmed(3)>>
              BY DEF Cleaned
        <2>2. anchor \in Byte
              BY <1>1 DEF Byte
        <2>3. \A c \in Channels : Dimmed(c) \in Byte
              BY <1>2, <2>2
        <2> HIDE DEF clean, Dimmed
        <2>4. QED
              BY <2>1, <2>3 DEF Channels, Color
  <1>5. {clean[c] : c \in Channels \ Spill(key)} = {color[c] : c \in Channels \ Spill(key)}
        <2>1. \A c \in Channels \ Spill(key) : clean[c] = color[c]
              BY <1>3
        <2> HIDE DEF clean
        <2>2. QED
              BY <2>1
  <1>6. OtherStrength(clean, key) = other
        BY <1>5 DEF OtherStrength
  <1>7. PICK c \in Spill(key) : TRUE
        OBVIOUS
  <1>8. c \in Channels
        BY <1>7, SpillIsChannels
  <1>9. KeyStrength(clean, key) \in Byte /\ KeyStrength(clean, key) <= clean[c]
        BY <1>4, <1>7, StrengthTypes
  <1>10. anchor \in Byte /\ anchor <= other
        BY <1>1
  <1>11. Dominance(clean, key) = KeyStrength(clean, key) - other
        BY <1>6, <1>7 DEF Dominance
  <1> HIDE DEF other, anchor, clean
  <1>12. clean[c] = IF anchor < color[c] THEN anchor ELSE color[c]
        BY <1>3, <1>7, <1>8
  <1>13. color[c] \in Byte
        BY <1>2, <1>8
  <1>14. clean[c] \in Byte /\ clean[c] <= anchor
        BY <1>10, <1>12, <1>13
  <1>15. \A k, d, a, o \in Byte : k <= d /\ d <= a /\ a <= o => k - o <= 0
        OBVIOUS
  <1> HIDE DEF Byte
  <1>16. KeyStrength(clean, key) - other <= 0
        BY <1>1, <1>9, <1>10, <1>14, <1>15
  <1>17. QED
        BY <1>11, <1>16 DEF clean

(* A pixel of exactly the key's color is gone, whatever the thresholds.      *)
THEOREM KeyVanishes ==
  ASSUME NEW pixel \in Pixel, NEW options \in Options
  PROVE  Cut(pixel, ColorOf(pixel), options) = <<0, 0, 0, 0>>
  <1> DEFINE key == ColorOf(pixel)
  <1>1. key \in Color /\ pixel[4] \in Byte
        BY DEF ColorOf, Color, Pixel
  <1>2. Distance(key, key) = 0
        BY <1>1, DistanceType
  <1>3. SoftAlpha(0, options) = 0
        <2>1. 0 <= options.transparent
              BY DEF Options
        <2>2. QED
              BY <2>1 DEF SoftAlpha
  <1>4. KeyLike(key, key)
        BY <1>2 DEF KeyLike
  <1>5. DominanceAlpha(key, key) \in Byte
        BY DominanceAlphaType
  <1>6. MatteAlpha(key, key, options) = 0
        <2> DEFINE hard == DominanceAlpha(key, key)
        <2>1. MatteAlpha(key, key, options) = IF 0 < hard THEN 0 ELSE hard
              BY <1>2, <1>3, <1>4 DEF MatteAlpha
        <2>2. hard \in 0..255
              BY <1>5 DEF Byte
        <2> HIDE DEF hard
        <2>3. QED
              BY <2>1, <2>2
  <1>7. CutAlpha(pixel, key, options) = 0
        BY <1>1, <1>6 DEF CutAlpha, NoiseFloor
  <1>8. QED
        BY <1>7 DEF Cut

(* The subject stays: a pixel that is not like the key comes out as it came  *)
(* in, unless it was next to invisible already.                              *)
THEOREM SubjectStays ==
  ASSUME NEW pixel \in Pixel, NEW key \in Color, NEW options \in Options,
         ~KeyLike(ColorOf(pixel), key), pixel[4] > NoiseFloor
  PROVE  Cut(pixel, key, options) = pixel
  <1>1. pixel[4] \in Byte /\ pixel = <<pixel[1], pixel[2], pixel[3], pixel[4]>>
        BY DEF Pixel
  <1>2. MatteAlpha(ColorOf(pixel), key, options) = 255
        BY DEF MatteAlpha
  <1>3. (255 * pixel[4] + 127) \div 255 = pixel[4]
        BY <1>1
  <1>4. CutAlpha(pixel, key, options) = pixel[4] /\ pixel[4] # 0
        BY <1>1, <1>2, <1>3 DEF CutAlpha, NoiseFloor
  <1>5. QED
        BY <1>1, <1>4 DEF Cut, ColorOf

(* No pixel becomes more opaque than the model drew it.                      *)
THEOREM NothingSolidifies ==
  ASSUME NEW pixel \in Pixel, NEW key \in Color, NEW options \in Options
  PROVE  Cut(pixel, key, options)[4] \in Byte /\ Cut(pixel, key, options)[4] <= pixel[4]
  <1> DEFINE matte == MatteAlpha(ColorOf(pixel), key, options)
             solid == pixel[4]
  <1>1. solid \in 0..255
        BY DEF Pixel
  <1>3. \A distance : SoftAlpha(distance, options) \in 0..255
        BY SoftAlphaType DEF Byte
  <1>4. DominanceAlpha(ColorOf(pixel), key) \in 0..255
        BY DominanceAlphaType DEF Byte
  <1>5. matte \in 0..255
        BY <1>3, <1>4 DEF MatteAlpha
  <1> HIDE DEF matte, solid
  <1>6. matte * solid \in Nat /\ matte * solid <= 255 * solid
        BY <1>1, <1>5
  <1>7. \A product \in Nat : product <= 255 * solid =>
          (product + 127) \div 255 \in 0..255 /\ (product + 127) \div 255 <= solid
        BY <1>1
  <1>8. (matte * solid + 127) \div 255 \in 0..255 /\ (matte * solid + 127) \div 255 <= solid
        BY <1>6, <1>7
  <1>9. CutAlpha(pixel, key, options) \in 0..255 /\ CutAlpha(pixel, key, options) <= solid
        BY <1>1, <1>8 DEF CutAlpha, NoiseFloor, matte, solid
  <1>10. Cut(pixel, key, options)[4] = CutAlpha(pixel, key, options)
        BY DEF Cut
  <1>11. QED
        BY <1>9, <1>10 DEF solid

-----------------------------------------------------------------------------
(* A value that more than half of the samples have is the middle one.        *)
LEMMA MajorityIsMiddle ==
  ASSUME NEW spots, IsFiniteSet(spots), NEW f, \A s \in spots : f[s] \in Int,
         NEW v \in Int, 2 * Cardinality({s \in spots : f[s] = v}) > Cardinality(spots)
  PROVE  Middle(spots, f) = v
  <1> DEFINE Equal(w)   == {s \in spots : f[s] = w}
             Less(w)    == {s \in spots : f[s] < w}
             AtMost(w)  == {s \in spots : f[s] <= w}
             n          == Cardinality(spots)
  <1>1. \A T \in SUBSET spots : IsFiniteSet(T) /\ Cardinality(T) \in Nat /\ Cardinality(T) <= n
        BY FS_Subset, FS_CardinalityType
  <1>2. n \in Nat
        BY FS_CardinalityType
  <1>3. \A T, U \in SUBSET spots : T \subseteq U => Cardinality(T) <= Cardinality(U)
        BY <1>1, FS_Subset
  <1>4. \A T, U \in SUBSET spots : T \cap U = {} => Cardinality(T) + Cardinality(U) <= n
        <2>1. TAKE T, U \in SUBSET spots
        <2>2. HAVE T \cap U = {}
        <2>3. Cardinality(T \cup U) = Cardinality(T) + Cardinality(U) - Cardinality(T \cap U)
              BY <1>1, FS_Union
        <2>4. Cardinality(T \cap U) = 0
              BY <2>2, FS_EmptySet
        <2>5. Cardinality(T \cup U) <= n
              BY <1>1
        <2>6. QED
              BY <1>1, <2>3, <2>4, <2>5
  <1>5. IsMiddle(v, spots, f)
        <2>1. Cardinality(Less(v)) + Cardinality(Equal(v)) <= n
              <3>1. Less(v) \cap Equal(v) = {}
                    OBVIOUS
              <3>2. QED
                    BY <1>4, <3>1
        <2>2. Cardinality(Equal(v)) <= Cardinality(AtMost(v))
              <3>1. Equal(v) \subseteq AtMost(v)
                    OBVIOUS
              <3>2. QED
                    BY <1>3, <3>1
        <2>3. Cardinality(Less(v)) \in Nat /\ Cardinality(Equal(v)) \in Nat /\ Cardinality(AtMost(v)) \in Nat
              BY <1>1
        <2> HIDE DEF Less, AtMost, n
        <2>4. Cardinality(Less(v)) <= n \div 2 /\ n \div 2 < Cardinality(AtMost(v))
              BY <1>2, <2>1, <2>2, <2>3 DEF n
        <2>5. QED
              BY <2>4 DEF IsMiddle, Less, AtMost, n
  <1>6. v \in {f[s] : s \in spots}
        <2>1. Equal(v) # {}
              BY <1>2, FS_EmptySet
        <2>2. QED
              BY <2>1
  <1>7. ASSUME NEW w \in {f[s] : s \in spots}, IsMiddle(w, spots, f)
        PROVE  w = v
        <2>1. w \in Int
              OBVIOUS
        <2>2. CASE v < w
              <3>1. AtMost(v) \subseteq Less(w)
                    BY <2>1, <2>2
              <3>2. Cardinality(AtMost(v)) <= Cardinality(Less(w))
                    BY <1>3, <3>1
              <3>3. Cardinality(Less(w)) <= n \div 2 /\ n \div 2 < Cardinality(AtMost(v))
                    BY <1>5, <1>7 DEF IsMiddle
              <3>4. Cardinality(Less(w)) \in Nat /\ Cardinality(AtMost(v)) \in Nat /\ n \div 2 \in Nat
                    BY <1>1, <1>2
              <3>5. QED
                    BY <3>2, <3>3, <3>4
        <2>3. CASE w < v
              <3>1. AtMost(w) \subseteq Less(v)
                    BY <2>1, <2>3
              <3>2. Cardinality(AtMost(w)) <= Cardinality(Less(v))
                    BY <1>3, <3>1
              <3>3. Cardinality(Less(v)) <= n \div 2 /\ n \div 2 < Cardinality(AtMost(w))
                    BY <1>5, <1>7 DEF IsMiddle
              <3>4. Cardinality(Less(v)) \in Nat /\ Cardinality(AtMost(w)) \in Nat /\ n \div 2 \in Nat
                    BY <1>1, <1>2
              <3>5. QED
                    BY <3>2, <3>3, <3>4
        <2>4. QED
              BY <2>1, <2>2, <2>3
  <1>8. QED
        BY <1>5, <1>6, <1>7 DEF Middle

Pictures ==
  {picture \in Seq(Seq(Pixel)) :
     /\ Len(picture) > 0 /\ Len(picture[1]) > 0
     /\ \A y \in 1..Len(picture) : Len(picture[y]) = Len(picture[1])}

LEMMA CellsArePixels ==
  ASSUME NEW picture \in Pictures
  PROVE  /\ Width(picture) \in Nat \ {0} /\ Height(picture) \in Nat \ {0}
         /\ \A cell \in Cells(picture) : PixelAt(picture, cell) \in Pixel
  <1>1. /\ Len(picture) \in Nat \ {0} /\ DOMAIN picture = 1..Len(picture)
        /\ \A y \in 1..Len(picture) : picture[y] \in Seq(Pixel)
        BY DEF Pictures
  <1>2. Len(picture[1]) \in Nat \ {0}
        BY <1>1 DEF Pictures
  <1>3. ASSUME NEW cell \in Cells(picture)
        PROVE  PixelAt(picture, cell) \in Pixel
        <2>1. cell[2] \in 1..Len(picture) /\ cell[1] \in 1..Len(picture[1])
              BY <1>3 DEF Cells, Width, Height
        <2>2. picture[cell[2]] \in Seq(Pixel) /\ Len(picture[cell[2]]) = Len(picture[1])
              BY <1>1, <2>1 DEF Pictures
        <2>3. QED
              BY <2>1, <2>2 DEF PixelAt
  <1>4. QED
        BY <1>1, <1>2, <1>3 DEF Width, Height

LEMMA BorderIsFinite ==
  ASSUME NEW picture \in Pictures
  PROVE  IsFiniteSet(Border(picture)) /\ IsFiniteSet(Cells(picture))
  <1>1. Width(picture) \in Int /\ Height(picture) \in Int
        BY CellsArePixels
  <1>2. IsFiniteSet(1..Width(picture)) /\ IsFiniteSet(1..Height(picture))
        BY <1>1, FS_Interval
  <1>3. IsFiniteSet({"top", "bottom"}) /\ IsFiniteSet({"left", "right"})
        <2>1. IsFiniteSet({"top"} \cup {"bottom"}) /\ IsFiniteSet({"left"} \cup {"right"})
              BY FS_Singleton, FS_Union
        <2>2. {"top"} \cup {"bottom"} = {"top", "bottom"}
              OBVIOUS
        <2>3. {"left"} \cup {"right"} = {"left", "right"}
              OBVIOUS
        <2>4. IsFiniteSet({"top", "bottom"})
              BY <2>1, <2>2, Zenon
        <2>5. IsFiniteSet({"left", "right"})
              BY <2>1, <2>3, Zenon
        <2>6. QED
              BY <2>4, <2>5
  <1>4. /\ IsFiniteSet({"top", "bottom"} \X (1..Width(picture)))
        /\ IsFiniteSet({"left", "right"} \X (1..Height(picture)))
        /\ IsFiniteSet((1..Width(picture)) \X (1..Height(picture)))
        BY <1>2, <1>3, FS_Product
  <1>5. QED
        BY <1>4, FS_Union DEF Border, Cells

LEMMA SamplesArePixels ==
  ASSUME NEW picture \in Pictures, NEW spot \in Border(picture)
  PROVE  Sample(picture, spot) \in Pixel
  <1>1. Width(picture) \in Nat \ {0} /\ Height(picture) \in Nat \ {0}
        BY CellsArePixels
  <1>2. \A x \in 1..Width(picture), y \in 1..Height(picture) : PixelAt(picture, <<x, y>>) \in Pixel
        BY CellsArePixels DEF Cells
  <1>3. CASE spot[1] = "top"
        <2>1. spot[2] \in 1..Width(picture)
              BY <1>3 DEF Border
        <2>2. QED
              BY <1>1, <1>2, <1>3, <2>1 DEF Sample
  <1>4. CASE spot[1] = "bottom"
        <2>1. spot[2] \in 1..Width(picture)
              BY <1>4 DEF Border
        <2>2. QED
              BY <1>1, <1>2, <1>4, <2>1 DEF Sample
  <1>5. CASE spot[1] = "left"
        <2>1. spot[2] \in 1..Height(picture)
              BY <1>5 DEF Border
        <2>2. QED
              BY <1>1, <1>2, <1>5, <2>1 DEF Sample
  <1>6. CASE spot[1] = "right"
        <2>1. spot[2] \in 1..Height(picture)
              BY <1>6 DEF Border
        <2>2. QED
              BY <1>1, <1>2, <1>6, <2>1 DEF Sample
  <1>7. QED
        BY <1>3, <1>4, <1>5, <1>6 DEF Border

(* detect_border_chroma_key(): a color that more than half of the border has *)
(* is the key, whatever the rest of the border and the picture is.  Without  *)
(* a majority the channels are sampled apart, and the key may be the color   *)
(* of no pixel at all.                                                       *)
THEOREM MajorityIsDetected ==
  ASSUME NEW picture \in Pictures, NEW key \in Color,
         2 * Cardinality({spot \in Border(picture) : ColorOf(Sample(picture, spot)) = key})
           > Cardinality(Border(picture))
  PROVE  Detected(picture) = key
  <1> DEFINE B     == Border(picture)
             F(c)  == [spot \in B |-> Sample(picture, spot)[c]]
             alike == {spot \in B : ColorOf(Sample(picture, spot)) = key}
  <1>1. IsFiniteSet(B)
        BY BorderIsFinite
  <1>2. ASSUME NEW c \in Channels
        PROVE  Middle(B, F(c)) = key[c]
        <2>1. \A s \in B : F(c)[s] \in Int
              BY <1>2, SamplesArePixels DEF Pixel
        <2>2. key[c] \in Int
              BY <1>2 DEF Color
        <2>3. alike \subseteq {s \in B : F(c)[s] = key[c]}
              BY <1>2 DEF ColorOf
        <2>4. IsFiniteSet({s \in B : F(c)[s] = key[c]})
              BY <1>1, FS_Subset
        <2>5. Cardinality(alike) <= Cardinality({s \in B : F(c)[s] = key[c]})
              BY <2>3, <2>4, FS_Subset
        <2>6. /\ Cardinality(alike) \in Nat /\ Cardinality(B) \in Nat
              /\ Cardinality({s \in B : F(c)[s] = key[c]}) \in Nat
              <3>1. IsFiniteSet(alike)
                    BY <1>1, FS_Subset
              <3>2. QED
                    BY <1>1, <2>4, <3>1, FS_CardinalityType
        <2>7. 2 * Cardinality({s \in B : F(c)[s] = key[c]}) > Cardinality(B)
              BY <2>5, <2>6
        <2> HIDE DEF B, F
        <2>8. QED
              BY <1>1, <2>1, <2>2, <2>7, MajorityIsMiddle
  <1>3. Detected(picture) = <<Middle(B, F(1)), Middle(B, F(2)), Middle(B, F(3))>>
        BY DEF Detected
  <1>4. key = <<key[1], key[2], key[3]>>
        BY DEF Color
  <1>5. QED
        BY <1>2, <1>3, <1>4

HIDE DEF Byte, Channels
-----------------------------------------------------------------------------
(***************************************************************************)
(* The store.                                                              *)
(***************************************************************************)
Task ==
  [want : Want, pc : Working \cup {"idle", "done", "failed", "dead"},
   ids : Seq(Images), at : 1..MaxImages, path : Paths \cup {None}]
Keeper ==
  [pc : {"off", "scanning", "removing", "repairing"}, old : 0..MaxImages,
   max : Nat \cup {None}, scanned : SUBSET Images, found : SUBSET Found,
   stage : {None, "sidecar", "file", "record"}]

FilesTyped ==
  /\ disk \in [Paths -> Images \cup {None, User}]
  /\ sidecar \in [Images -> {None, "own", User}]
  /\ record \in [Images -> Record \cup {None}]

PathIsKnown(t) == t.path # None <=> t.pc \in {"placed", "checked", "persisted"}

TasksTyped ==
  /\ request \in [Requests -> Task]
  /\ \A r \in Requests : PathIsKnown(request[r])

KeeperTyped ==
  /\ keeper \in Keeper
  /\ keeper.stage # None => keeper.pc = "removing" /\ keeper.found # {}

CountsTyped ==
  next \in 1..(MaxImages + 1) /\ crossed \subseteq Images /\ faults \in 0..MaxFaults

Typed == FilesTyped /\ TasksTyped /\ KeeperTyped /\ CountsTyped

(***************************************************************************)
(* The inductive invariant.  Ids are given out once: to one request, which *)
(* publishes at most one file under it.                                    *)
(***************************************************************************)
IdsOf(r) == {request[r].ids[k] : k \in 1..Len(request[r].ids)}

IdsAreFresh ==
  /\ \A r \in Requests : /\ Len(request[r].ids) < next
                         /\ \A i \in IdsOf(r) : i < next
  /\ \A p \in Paths : disk[p] \in Images => disk[p] < next
  /\ \A i \in Images : record[i] # None => i < next

IdsAreUnique ==
  /\ \A r, s \in Requests : r # s => IdsOf(r) \cap IdsOf(s) = {}
  /\ \A p, q \in Paths : disk[p] \in Images /\ disk[p] = disk[q] => p = q

(* A request that placed a file and one that attaches metadata work on an    *)
(* image whose bytes are in the file they know, or nowhere.                  *)
TaskIsSound(r) ==
  LET t == request[r] IN
  /\ t.pc = "placed" => /\ t.ids # <<>> /\ record[Last(t.ids)] = None
                        /\ \A p \in Paths : disk[p] = Last(t.ids) => p = t.path
  /\ t.pc \in {"idle", "projecting", "placed"} => t.at = 1
  /\ t.pc \in {"attaching", "checked", "persisted"} => t.at <= Len(t.ids)
  /\ t.pc \in {"checked", "persisted"} =>
       /\ record[Attaching(r)] # None => record[Attaching(r)].path = t.path
       /\ \A p \in Paths : disk[p] = Attaching(r) => p = t.path

TasksAreSound == \A r \in Requests : TaskIsSound(r)

(* The records that a cleanup has read are as it read them, but for the      *)
(* metadata attached since.                                                  *)
FoundIsRecorded ==
  /\ keeper.found # {} => keeper.pc \in {"scanning", "removing"}
  /\ \A c \in keeper.found : /\ c.id \in keeper.scanned
                             /\ record[c.id] # None /\ record[c.id].path = c.record.path
  /\ \A c, d \in keeper.found : c.id = d.id => c = d

(* Of the image that it removes nothing is elsewhere, and what has taken its *)
(* place was published.                                                      *)
RemovalIsSound ==
  /\ keeper.stage \in {"sidecar", "file"} =>
       /\ disk[Candidate.record.path] # User
       /\ \A p \in Paths : disk[p] = Candidate.id => p = Candidate.record.path
  /\ keeper.stage = "record" => \A p \in Paths : disk[p] # Candidate.id

(* What is to be removed is expired or has max_artifacts newer ones.         *)
DoomedIsOld ==
  keeper.pc = "removing" =>
    \A c \in keeper.found :
      \/ c.id <= keeper.old
      \/ /\ keeper.max # None
         /\ Cardinality({i \in keeper.scanned : i > c.id}) >= keeper.max

IsLast(r, i) ==
  request[r].pc \in {"placed", "dead"} /\ request[r].ids # <<>> /\ Last(request[r].ids) = i

HasOwner(i, p) ==
  \/ record[i] # None /\ record[i].path = p
  \/ \E r \in Requests : IsLast(r, i)

EveryFileHasAnOwner == \A i \in Images, p \in Paths : disk[p] = i => HasOwner(i, p)

(***************************************************************************)
(* While nothing has failed, what an image has on disk is what the step    *)
(* its request or its removal is at says, unless a cleanup and the         *)
(* attachment of its metadata have crossed.                                *)
(***************************************************************************)
At(stages, i)      == keeper.stage \in stages /\ Candidate.id = i
PersistedFor(r, i) == request[r].pc = "persisted" /\ Attaching(r) = i

CrossedIsNoted ==
  keeper.pc # "off" =>
    \A r \in Requests : request[r].pc \in {"checked", "persisted"} => Attaching(r) \in crossed

ImageIsClean(i) ==
  /\ sidecar[i] \in {None, "own"}
  /\ record[i] # None /\ ~At({"record"}, i) => Intact(i, record[i])
  /\ record[i] # None /\ record[i].sidecar /\ ~At({"file", "record"}, i) => sidecar[i] = "own"
  /\ sidecar[i] # None => \/ record[i] # None /\ record[i].sidecar
                          \/ \E r \in Requests : PersistedFor(r, i)
  /\ At({"file", "record"}, i) => sidecar[i] = None

TaskIsClean(r) ==
  LET t == request[r] IN
  /\ t.pc = "placed" => disk[t.path] = Last(t.ids)
  /\ t.pc \in {"checked", "persisted"} /\ Attaching(r) \notin crossed =>
       /\ record[Attaching(r)] # None /\ ~record[Attaching(r)].sidecar
       /\ t.pc = "persisted" => sidecar[Attaching(r)] = "own"

ImagesAreClean == \A i \in Images \ crossed : ImageIsClean(i)
TasksAreClean  == \A r \in Requests : TaskIsClean(r)
FoundIsAsRead  == \A c \in keeper.found : c.id \notin crossed => record[c.id] = c.record
FileIsThere    == keeper.stage \in {"sidecar", "file"} => Intact(Candidate.id, Candidate.record)

CleanNow   == ImagesAreClean /\ TasksAreClean /\ FoundIsAsRead /\ FileIsThere
CleanSoFar == faults = 0 => CleanNow

(* A repair has the store for itself, and leaves each record it has seen     *)
(* sound.                                                                    *)
RecordIsHealed(i) ==
  \/ Verified(i, record[i])
  \/ disk[record[i].path] \notin {None, i}
  \/ sidecar[i] = User

RepairSoFar ==
  keeper.pc = "repairing" =>
    /\ Stopped
    /\ \A i \in keeper.scanned : record[i] # None => RecordIsHealed(i)

IInv ==
  /\ Typed /\ IdsAreFresh /\ IdsAreUnique /\ TasksAreSound
  /\ FoundIsRecorded /\ RemovalIsSound /\ DoomedIsOld /\ EveryFileHasAnOwner
  /\ CrossedIsNoted /\ CleanSoFar /\ RepairSoFar

USE ArtifactAssumption, DistinctValues
LEMMA TypedIsTypeOK == Typed => TypeOK
  BY DEF Typed, FilesTyped, TasksTyped, PathIsKnown, KeeperTyped, CountsTyped, TypeOK, Task, Keeper

-----------------------------------------------------------------------------
(* What the steps do, one variable at a time.                                *)

Others(r) == \A s \in Requests \ {r} : request'[s] = request[s]

LEMMA SetIs ==
  ASSUME TasksTyped, NEW r \in Requests, NEW t, Set(r, t)
  PROVE  request'[r] = t /\ Others(r)
  BY DEF TasksTyped, Set, Others

LEMMA SetTyped ==
  ASSUME TasksTyped, NEW r \in Requests, NEW t \in Task, PathIsKnown(t), Set(r, t)
  PROVE  TasksTyped'
  BY DEF TasksTyped, Set, PathIsKnown

LEMMA IdTyped ==
  ASSUME TasksTyped, NEW r \in Requests
  PROVE  /\ request[r] \in Task
         /\ Len(request[r].ids) \in Nat
         /\ IdsOf(r) \subseteq Images
         /\ request[r].ids # <<>> => Last(request[r].ids) \in IdsOf(r)
         /\ request[r].at <= Len(request[r].ids) => Attaching(r) \in IdsOf(r)
  <1>1. request[r] \in Task
        BY DEF TasksTyped
  <1>2. request[r].ids \in Seq(Images) /\ request[r].at \in 1..MaxImages
        BY <1>1 DEF Task
  <1>3. request[r].ids # <<>> => Len(request[r].ids) \in 1..Len(request[r].ids)
        BY <1>2
  <1>4. \A k \in 1..Len(request[r].ids) : request[r].ids[k] \in Images
        BY <1>2
  <1>5. request[r].at <= Len(request[r].ids) => request[r].at \in 1..Len(request[r].ids)
        BY <1>2 DEF Images
  <1>6. IdsOf(r) \subseteq Images
        BY <1>4 DEF IdsOf
  <1>7. request[r].ids # <<>> => Last(request[r].ids) \in IdsOf(r)
        BY <1>3 DEF IdsOf, Last
  <1>8. request[r].at <= Len(request[r].ids) => Attaching(r) \in IdsOf(r)
        BY <1>5 DEF IdsOf, Attaching
  <1>9. QED
        BY <1>1, <1>2, <1>6, <1>7, <1>8

(* The request keeps what it has published, its turn and its wish.           *)
SameImages(r) == request'[r].ids = request[r].ids /\ request'[r].want = request[r].want
SameTurn(r)   == SameImages(r) /\ request'[r].at = request[r].at
Ends(r)       == SameTurn(r) /\ request'[r].pc = "failed" /\ request'[r].path = None

LEMMA MaterializeDoes ==
  ASSUME TasksTyped, NEW r \in Requests, Materialize(r)
  PROVE  /\ TasksTyped' /\ Others(r) /\ SameTurn(r)
         /\ request[r].pc = "idle" /\ request'[r].pc \in {"projecting", "failed"}
         /\ keeper.pc # "repairing"
         /\ UNCHANGED <<Files, keeper, next, crossed, faults>>
  <1> DEFINE t == request[r]
  <1>1. t \in Task /\ PathIsKnown(t) /\ t.pc = "idle"
        BY DEF TasksTyped, Materialize
  <1>2. PICK pc \in {"projecting", "failed"} : Set(r, [t EXCEPT !.pc = pc])
        BY DEF Materialize
  <1> DEFINE u == [t EXCEPT !.pc = pc]
  <1>3. /\ u \in Task /\ PathIsKnown(u)
        /\ u.ids = t.ids /\ u.want = t.want /\ u.at = t.at /\ u.pc = pc
        BY <1>1 DEF Task, PathIsKnown, Working
  <1>4. Set(r, u)
        BY <1>2
  <1> HIDE DEF u
  <1>5. TasksTyped' /\ Others(r) /\ request'[r] = u
        BY <1>3, <1>4, SetIs, SetTyped
  <1>6. QED
        BY <1>1, <1>3, <1>5 DEF SameTurn, SameImages, Materialize

LEMMA FailsDoes ==
  ASSUME TasksTyped, NEW r \in Requests, Set(r, [Fails(r) EXCEPT !.path = None])
  PROVE  TasksTyped' /\ Others(r) /\ Ends(r)
  <1> DEFINE t == request[r]
             u == [Fails(r) EXCEPT !.path = None]
  <1>1. t \in Task
        BY DEF TasksTyped
  <1>2. /\ u \in Task /\ PathIsKnown(u)
        /\ u.ids = t.ids /\ u.want = t.want /\ u.at = t.at /\ u.pc = "failed" /\ u.path = None
        BY <1>1 DEF Fails, Task, PathIsKnown, Working
  <1> HIDE DEF u
  <1>3. TasksTyped' /\ Others(r) /\ request'[r] = u
        BY <1>2, SetIs, SetTyped DEF u
  <1>4. QED
        BY <1>2, <1>3 DEF Ends, SameTurn, SameImages

LEMMA FailsAtOnceDoes ==
  ASSUME TasksTyped, NEW r \in Requests, Set(r, Fails(r)), request[r].path = None
  PROVE  TasksTyped' /\ Others(r) /\ Ends(r)
  <1>1. request[r] \in Task
        BY DEF TasksTyped
  <1>2. Fails(r) = [Fails(r) EXCEPT !.path = None]
        BY <1>1 DEF Fails, Task
  <1>3. QED
        BY <1>2, FailsDoes

LEMMA FreePathIsFree ==
  ASSUME NEW w \in Want, NEW i \in Images, NEW p \in FreePath(w, i)
  PROVE  p \in Paths /\ disk[p] = None
  <1>1. 1 \in Images
        BY DEF Images
  <1>2. <<i, 1>> \in Paths
        BY <1>1 DEF Paths
  <1>3. w.filename # None => w.filename \in Filenames
        BY DEF Want
  <1>4. w.filename # None => {<<w.filename, 1>>} \subseteq Paths /\ {w.filename} \X Images \subseteq Paths
        BY <1>1, <1>3 DEF Paths
  <1>5. QED
        BY <1>2, <1>4 DEF FreePath

Places(r, p) ==
  /\ disk[p] = None
  /\ disk' = [disk EXCEPT ![p] = next]
  /\ request'[r].ids = Append(request[r].ids, next)
  /\ request'[r].pc = "placed" /\ request'[r].path = p
  /\ request'[r].at = request[r].at

LEMMA PlaceDoes ==
  ASSUME Typed, NEW r \in Requests, Place(r)
  PROVE  /\ TasksTyped' /\ Others(r)
         /\ request[r].pc = "projecting" /\ next \in Images /\ next' = next + 1
         /\ \/ \E p \in Paths : Places(r, p) /\ UNCHANGED faults
            \/ Ends(r) /\ UNCHANGED disk /\ (UNCHANGED faults \/ Fault)
         /\ UNCHANGED <<sidecar, record, keeper, crossed>>
  <1> DEFINE t == request[r]
  <1>1. TasksTyped /\ t \in Task /\ PathIsKnown(t) /\ t.pc = "projecting" /\ t.path = None
        BY DEF Typed, TasksTyped, Place, PathIsKnown
  <1>2. next \in Images /\ next' = next + 1 /\ UNCHANGED <<sidecar, record, keeper, crossed>>
        BY DEF Place
  <1>3. CASE \E p \in FreePath(t.want, next) :
               /\ disk' = [disk EXCEPT ![p] = next]
               /\ Set(r, [t EXCEPT !.pc = "placed", !.ids = Append(@, next), !.path = p])
               /\ UNCHANGED faults
    <2>1. PICK p \in FreePath(t.want, next) :
               /\ disk' = [disk EXCEPT ![p] = next]
               /\ Set(r, [t EXCEPT !.pc = "placed", !.ids = Append(@, next), !.path = p])
               /\ UNCHANGED faults
          BY <1>3
    <2>2. t.want \in Want /\ t.ids \in Seq(Images)
          BY <1>1 DEF Task
    <2>3. p \in Paths /\ disk[p] = None
          BY <1>2, <2>2, FreePathIsFree
    <2> DEFINE u == [t EXCEPT !.pc = "placed", !.ids = Append(@, next), !.path = p]
    <2>4. p # None /\ Append(t.ids, next) \in Seq(Images)
          BY <1>2, <2>2, <2>3
    <2>5. /\ u \in Task /\ u.ids = Append(t.ids, next) /\ u.at = t.at
          /\ u.pc = "placed" /\ u.path = p
          BY <1>1, <2>3, <2>4 DEF Task, Working
    <2>6. Set(r, u)
          BY <2>1
    <2> HIDE DEF u
    <2>7. PathIsKnown(u)
          BY <2>4, <2>5 DEF PathIsKnown
    <2>8. TasksTyped' /\ Others(r) /\ request'[r] = u
          BY <1>1, <2>5, <2>6, <2>7, SetIs, SetTyped
    <2>9. Places(r, p)
          BY <2>1, <2>3, <2>5, <2>8 DEF Places
    <2>10. QED
          BY <1>1, <1>2, <2>1, <2>3, <2>8, <2>9
  <1>4. CASE Set(r, Fails(r)) /\ UNCHANGED disk /\ (UNCHANGED faults \/ Fault)
    <2>1. TasksTyped' /\ Others(r) /\ Ends(r)
          BY <1>1, <1>4, FailsAtOnceDoes
    <2>2. QED
          BY <1>1, <1>2, <1>4, <2>1
  <1>5. QED
        BY <1>3, <1>4 DEF Place

Owns(id, p, with) == record' = [record EXCEPT ![id] = [path |-> p, sidecar |-> with]]

LEMMA OwnDoes ==
  ASSUME Typed, NEW r \in Requests, Own(r)
  PROVE  /\ TasksTyped' /\ Others(r) /\ SameTurn(r)
         /\ request[r].pc = "placed" /\ request[r].path \in Paths
         /\ \/ /\ request'[r].pc \in {"projecting", "attaching", "done"}
               /\ Owns(Last(request[r].ids), request[r].path, FALSE)
               /\ UNCHANGED <<disk, faults>>
            \/ /\ Fault /\ Ends(r)
               /\ disk' = [disk EXCEPT ![request[r].path] = None]
               /\ record' = record \/ Owns(Last(request[r].ids), request[r].path, FALSE)
         /\ UNCHANGED <<sidecar, keeper, next, crossed>>
  <1> DEFINE t == request[r]
  <1>1. TasksTyped /\ t \in Task /\ PathIsKnown(t) /\ t.pc = "placed"
        BY DEF Typed, TasksTyped, Own
  <1>2. t.path \in Paths
        BY <1>1 DEF Task, PathIsKnown
  <1>3. UNCHANGED <<sidecar, keeper, next, crossed>>
        BY DEF Own
  <1>4. CASE /\ Owns(Last(t.ids), t.path, FALSE) /\ Set(r, Owned(t)) /\ UNCHANGED <<disk, faults>>
    <2> DEFINE u == Owned(t)
    <2>1. /\ u \in Task /\ u.ids = t.ids /\ u.want = t.want /\ u.at = t.at /\ u.path = None
          /\ u.pc \in {"projecting", "attaching", "done"}
          BY <1>1 DEF Owned, Task, Working
    <2>2. PathIsKnown(u)
          BY <2>1 DEF PathIsKnown
    <2>3. Set(r, u)
          BY <1>4
    <2> HIDE DEF u
    <2>4. TasksTyped' /\ Others(r) /\ request'[r] = u
          BY <1>1, <2>1, <2>2, <2>3, SetIs, SetTyped
    <2>5. QED
          BY <1>1, <1>2, <1>3, <1>4, <2>1, <2>4 DEF SameTurn, SameImages
  <1>5. CASE /\ Fault /\ Set(r, [Fails(r) EXCEPT !.path = None])
             /\ disk' = [disk EXCEPT ![t.path] = None]
             /\ record' = record \/ Owns(Last(t.ids), t.path, FALSE)
    <2>1. TasksTyped' /\ Others(r) /\ Ends(r)
          BY <1>1, <1>5, FailsDoes
    <2>2. SameTurn(r)
          BY <2>1 DEF Ends
    <2>3. QED
          BY <1>1, <1>2, <1>3, <1>5, <2>1, <2>2
  <1>6. QED
        BY <1>4, <1>5 DEF Own, Owns

CrossesHere(r) == crossed' = IF keeper.pc = "off" THEN crossed ELSE crossed \cup {Attaching(r)}

LEMMA CheckOwnerDoes ==
  ASSUME Typed, TasksAreSound, NEW r \in Requests, CheckOwner(r)
  PROVE  /\ TasksTyped' /\ Others(r) /\ SameTurn(r) /\ Attaching(r) \in Images
         /\ request[r].pc = "attaching"
         /\ \/ /\ record[Attaching(r)] # None /\ ~record[Attaching(r)].sidecar
               /\ Verified(Attaching(r), record[Attaching(r)])
               /\ request'[r].pc = "checked" /\ request'[r].path = record[Attaching(r)].path
            \/ Ends(r)
         /\ CrossesHere(r) /\ UNCHANGED <<Files, keeper, next, faults>>
  <1> DEFINE t == request[r]  id == Attaching(r)
  <1>1. TasksTyped /\ t \in Task /\ PathIsKnown(t) /\ t.pc = "attaching" /\ t.path = None
        BY DEF Typed, TasksTyped, CheckOwner, PathIsKnown
  <1>2. t.at <= Len(t.ids)
        BY <1>1 DEF TasksAreSound, TaskIsSound
  <1>3. id \in Images
        BY <1>1, <1>2, IdTyped
  <1>4. CrossesHere(r) /\ UNCHANGED <<Files, keeper, next, faults>>
        BY DEF CheckOwner, CrossesHere, Cross
  <1>5. CASE /\ record[id] # None /\ ~record[id].sidecar /\ Verified(id, record[id])
             /\ Set(r, [t EXCEPT !.pc = "checked", !.path = record[id].path])
    <2>1. record[id] \in Record
          BY <1>3, <1>5 DEF Typed, FilesTyped
    <2>2. record[id].path \in Paths /\ record[id].path # None
          BY <2>1 DEF Record
    <2> DEFINE u == [t EXCEPT !.pc = "checked", !.path = record[id].path]
    <2>3. /\ u \in Task /\ u.ids = t.ids /\ u.want = t.want /\ u.at = t.at
          /\ u.pc = "checked" /\ u.path = record[id].path
          BY <1>1, <2>2 DEF Task, Working
    <2>4. PathIsKnown(u)
          BY <2>2, <2>3 DEF PathIsKnown
    <2>5. Set(r, u)
          BY <1>5
    <2> HIDE DEF u
    <2>6. TasksTyped' /\ Others(r) /\ request'[r] = u
          BY <1>1, <2>3, <2>4, <2>5, SetIs, SetTyped
    <2>7. QED
          BY <1>1, <1>3, <1>4, <1>5, <2>3, <2>6 DEF SameTurn, SameImages
  <1>6. CASE Set(r, Fails(r))
    <2>1. TasksTyped' /\ Others(r) /\ Ends(r)
          BY <1>1, <1>6, FailsAtOnceDoes
    <2>2. SameTurn(r)
          BY <2>1 DEF Ends
    <2>3. QED
          BY <1>1, <1>3, <1>4, <2>1, <2>2
  <1>7. QED
        BY <1>5, <1>6 DEF CheckOwner

LEMMA PersistSidecarDoes ==
  ASSUME Typed, TasksAreSound, NEW r \in Requests, PersistSidecar(r)
  PROVE  /\ TasksTyped' /\ Others(r) /\ SameTurn(r) /\ Attaching(r) \in Images
         /\ request[r].pc = "checked"
         /\ \/ /\ sidecar[Attaching(r)] = None
               /\ sidecar' = [sidecar EXCEPT ![Attaching(r)] = "own"]
               /\ request'[r].pc = "persisted" /\ request'[r].path = request[r].path
               /\ UNCHANGED faults
            \/ Ends(r) /\ UNCHANGED <<sidecar, faults>>
            \/ /\ Fault /\ Ends(r)
               /\ sidecar' = sidecar \/ sidecar' = [sidecar EXCEPT ![Attaching(r)] = "own"]
         /\ CrossesHere(r) /\ UNCHANGED <<disk, record, keeper, next>>
  <1> DEFINE t == request[r]  id == Attaching(r)
  <1>1. TasksTyped /\ t \in Task /\ PathIsKnown(t) /\ t.pc = "checked" /\ t.path # None
        BY DEF Typed, TasksTyped, PersistSidecar, PathIsKnown
  <1>2. t.at <= Len(t.ids)
        BY <1>1 DEF TasksAreSound, TaskIsSound
  <1>3. id \in Images
        BY <1>1, <1>2, IdTyped
  <1>4. CrossesHere(r) /\ UNCHANGED <<disk, record, keeper, next>>
        BY DEF PersistSidecar, CrossesHere, Cross
  <1>5. CASE /\ sidecar[id] = None /\ sidecar' = [sidecar EXCEPT ![id] = "own"]
             /\ Set(r, [t EXCEPT !.pc = "persisted"]) /\ UNCHANGED faults
    <2> DEFINE u == [t EXCEPT !.pc = "persisted"]
    <2>1. /\ u \in Task /\ u.ids = t.ids /\ u.want = t.want /\ u.at = t.at
          /\ u.pc = "persisted" /\ u.path = t.path
          BY <1>1 DEF Task, Working
    <2>2. PathIsKnown(u)
          BY <1>1, <2>1 DEF PathIsKnown
    <2>3. Set(r, u)
          BY <1>5
    <2> HIDE DEF u
    <2>4. TasksTyped' /\ Others(r) /\ request'[r] = u
          BY <1>1, <2>1, <2>2, <2>3, SetIs, SetTyped
    <2>5. QED
          BY <1>1, <1>3, <1>4, <1>5, <2>1, <2>4 DEF SameTurn, SameImages
  <1>6. CASE /\ Set(r, [Fails(r) EXCEPT !.path = None])
             /\ \/ UNCHANGED <<sidecar, faults>>
                \/ Fault /\ (sidecar' = sidecar \/ sidecar' = [sidecar EXCEPT ![id] = "own"])
    <2>1. TasksTyped' /\ Others(r) /\ Ends(r)
          BY <1>1, <1>6, FailsDoes
    <2>2. SameTurn(r)
          BY <2>1 DEF Ends
    <2>3. QED
          BY <1>1, <1>3, <1>4, <1>6, <2>1, <2>2
  <1>7. QED
        BY <1>5, <1>6 DEF PersistSidecar

LEMMA ReplaceRecordDoes ==
  ASSUME Typed, IdsAreFresh, TasksAreSound, NEW r \in Requests, ReplaceRecord(r)
  PROVE  /\ TasksTyped' /\ Others(r) /\ SameImages(r) /\ Attaching(r) \in Images
         /\ request[r].pc = "persisted" /\ request[r].path \in Paths
         /\ \/ /\ Owns(Attaching(r), request[r].path, TRUE)
               /\ request'[r].pc \in {"attaching", "done"} /\ request'[r].at <= Len(request[r].ids)
               /\ UNCHANGED <<sidecar, faults>>
            \/ /\ Fault /\ Ends(r)
               /\ sidecar' = [sidecar EXCEPT ![Attaching(r)] = None]
               /\ record' = record \/ Owns(Attaching(r), request[r].path, TRUE)
         /\ CrossesHere(r) /\ UNCHANGED <<disk, keeper, next>>
  <1> DEFINE t == request[r]  id == Attaching(r)
  <1>1. TasksTyped /\ t \in Task /\ PathIsKnown(t) /\ t.pc = "persisted" /\ t.path # None
        BY DEF Typed, TasksTyped, ReplaceRecord, PathIsKnown
  <1>2. t.at <= Len(t.ids)
        BY <1>1 DEF TasksAreSound, TaskIsSound
  <1>3. id \in Images /\ t.path \in Paths
        BY <1>1, <1>2, IdTyped DEF Task
  <1>4. CrossesHere(r) /\ UNCHANGED <<disk, keeper, next>>
        BY DEF ReplaceRecord, CrossesHere, Cross
  <1>5. Len(t.ids) \in Nat /\ Len(t.ids) <= MaxImages /\ t.at \in Nat /\ t.at >= 1
    <2>1. Len(t.ids) \in Nat /\ t.at \in 1..MaxImages
          BY <1>1 DEF Task
    <2>2. Len(t.ids) < next /\ next \in 1..(MaxImages + 1)
          BY DEF IdsAreFresh, Typed, CountsTyped
    <2>3. QED
          BY <2>1, <2>2
  <1>6. CASE /\ Owns(id, t.path, TRUE) /\ Set(r, Attached(t)) /\ UNCHANGED <<sidecar, faults>>
    <2> DEFINE u == Attached(t)
    <2>1. /\ u \in Task /\ u.ids = t.ids /\ u.want = t.want /\ u.at <= Len(t.ids)
          /\ u.pc \in {"attaching", "done"} /\ u.path = None
      <3>1. CASE t.at < Len(t.ids)
        <4>1. u = [t EXCEPT !.pc = "attaching", !.at = @ + 1, !.path = None]
              BY <3>1 DEF Attached
        <4>2. t.at + 1 \in 1..MaxImages /\ t.at + 1 <= Len(t.ids)
              BY <1>5, <3>1
        <4>3. QED
              BY <1>1, <4>1, <4>2 DEF Task, Working
      <3>2. CASE ~(t.at < Len(t.ids))
        <4>1. u = [t EXCEPT !.pc = "done", !.path = None]
              BY <3>2 DEF Attached
        <4>2. QED
              BY <1>1, <1>2, <4>1 DEF Task, Working
      <3>3. QED
            BY <3>1, <3>2
    <2>2. PathIsKnown(u)
          BY <2>1 DEF PathIsKnown
    <2>3. Set(r, u)
          BY <1>6
    <2> HIDE DEF u
    <2>4. TasksTyped' /\ Others(r) /\ request'[r] = u
          BY <1>1, <2>1, <2>2, <2>3, SetIs, SetTyped
    <2>5. QED
          BY <1>1, <1>3, <1>4, <1>6, <2>1, <2>4 DEF SameImages
  <1>7. CASE /\ Fault /\ Set(r, [Fails(r) EXCEPT !.path = None])
             /\ sidecar' = [sidecar EXCEPT ![id] = None]
             /\ record' = record \/ Owns(id, t.path, TRUE)
    <2>1. TasksTyped' /\ Others(r) /\ Ends(r)
          BY <1>1, <1>7, FailsDoes
    <2>2. SameImages(r)
          BY <2>1 DEF Ends, SameTurn
    <2>3. QED
          BY <1>1, <1>3, <1>4, <1>7, <2>1, <2>2
  <1>8. QED
        BY <1>6, <1>7 DEF ReplaceRecord, Owns

LEMMA BridgeDiesDoes ==
  ASSUME TasksTyped, BridgeDies
  PROVE  /\ TasksTyped' /\ Fault /\ ~Stopped
         /\ \A r \in Requests :
              /\ SameTurn(r)
              /\ request[r].pc \in Working => request'[r].pc = "dead"
              /\ request[r].pc \notin Working => request'[r] = request[r]
         /\ UNCHANGED <<Files, keeper, next, crossed>>
  <1> DEFINE u == [r \in Requests |-> [request[r] EXCEPT !.pc = "dead", !.path = None]]
  <1>1. request' = [r \in Requests |-> IF request[r].pc \in Working THEN u[r] ELSE request[r]]
        BY DEF BridgeDies
  <1>2. \A r \in Requests : /\ u[r] \in Task /\ PathIsKnown(u[r]) /\ u[r].pc = "dead"
                            /\ u[r].ids = request[r].ids /\ u[r].want = request[r].want
                            /\ u[r].at = request[r].at
    <2> SUFFICES ASSUME NEW r \in Requests
                 PROVE  /\ u[r] \in Task /\ PathIsKnown(u[r]) /\ u[r].pc = "dead"
                        /\ u[r].ids = request[r].ids /\ u[r].want = request[r].want
                        /\ u[r].at = request[r].at
          OBVIOUS
    <2>1. request[r] \in Task
          BY DEF TasksTyped
    <2>2. QED
          BY <2>1 DEF Task, PathIsKnown
  <1> HIDE DEF u
  <1>3. TasksTyped'
        BY <1>1, <1>2 DEF TasksTyped
  <1>4. \A r \in Requests : /\ SameTurn(r)
                            /\ request[r].pc \in Working => request'[r].pc = "dead"
                            /\ request[r].pc \notin Working => request'[r] = request[r]
        BY <1>1, <1>2 DEF SameTurn, SameImages
  <1>5. QED
        BY <1>3, <1>4 DEF BridgeDies, Stopped

-----------------------------------------------------------------------------
(* The candidate is well chosen, and the same as long as the list is.        *)
Newest(S) == CHOOSE c \in S : \A d \in S : d.id <= c.id

LEMMA NewestIsIn ==
  ASSUME NEW S \in SUBSET Found, S # {}
  PROVE  Newest(S) \in S
  <1> DEFINE R == {p \in Nat \X Nat : p[1] < p[2]}
             K == {MaxImages - c.id : c \in S}
  <1>1. R = OpToRel(<, Nat)
        BY DEF OpToRel
  <1>2. IsWellFoundedOn(R, Nat)
        BY <1>1, NatLessThanWellFounded
  <1>3. \A c \in S : c.id \in 1..MaxImages
        BY DEF Found, Images
  <1>4. K \subseteq Nat /\ K # {}
        BY <1>3
  <1>5. PICK m \in K : \A k \in K : ~(<<k, m>> \in R)
        BY <1>2, <1>4, WFMin
  <1>6. PICK c \in S : m = MaxImages - c.id
        BY <1>5
  <1>7. \A d \in S : d.id <= c.id
    <2> SUFFICES ASSUME NEW d \in S PROVE d.id <= c.id
          OBVIOUS
    <2>1. MaxImages - d.id \in Nat /\ m \in Nat /\ MaxImages - d.id \in K
          BY <1>3, <1>4
    <2>2. ~(MaxImages - d.id < m)
          BY <1>5, <2>1
    <2>3. d.id \in Nat /\ c.id \in Nat
          BY <1>3
    <2>4. QED
          BY <1>6, <2>2, <2>3
  <1>8. QED
        BY <1>6, <1>7 DEF Newest

LEMMA CandidateIsNewest == Candidate = Newest(keeper.found) /\ (Candidate = Newest(keeper.found))'
  BY DEF Candidate, Newest

LEMMA CandidateIsFound ==
  ASSUME KeeperTyped, keeper.found # {}
  PROVE  /\ Candidate \in keeper.found /\ Candidate \in Found
         /\ Candidate.id \in Images /\ Candidate.record \in Record /\ Candidate.record.path \in Paths
  <1>1. keeper.found \in SUBSET Found
        BY DEF KeeperTyped, Keeper
  <1>2. Candidate \in keeper.found
        BY <1>1, NewestIsIn, CandidateIsNewest
  <1>3. QED
        BY <1>1, <1>2 DEF Found, Record

LEMMA CandidateStays ==
  ASSUME keeper'.found = keeper.found
  PROVE  Candidate' = Candidate
  BY CandidateIsNewest

LEMMA AtWork ==
  ASSUME KeeperTyped, keeper.stage # None
  PROVE  keeper.pc = "removing" /\ keeper.found # {}
  BY DEF KeeperTyped

-----------------------------------------------------------------------------
(* A command that begins or ends has nothing at hand.                        *)
IsEmpty == keeper.scanned = {} /\ keeper.found = {} /\ keeper.stage = None

SameSearch == /\ keeper'.pc = keeper.pc /\ keeper'.old = keeper.old /\ keeper'.max = keeper.max
              /\ keeper'.scanned = keeper.scanned

Skips == SameSearch /\ keeper'.found = keeper.found \ {Candidate} /\ keeper'.stage = None

Advances(stage) ==
  SameSearch /\ keeper'.found = keeper.found /\ Candidate' = Candidate /\ keeper'.stage = stage

LEMMA OffDoes ==
  ASSUME keeper' = NoKeeper
  PROVE  KeeperTyped' /\ IsEmpty' /\ keeper'.pc = "off"
  BY DEF NoKeeper, KeeperTyped, Keeper, IsEmpty

LEMMA SkipDoes ==
  ASSUME KeeperTyped, keeper' = Skip
  PROVE  KeeperTyped' /\ Skips
  BY DEF KeeperTyped, Keeper, Skip, Skips, SameSearch

LEMMA AdvanceDoes ==
  ASSUME KeeperTyped, keeper.pc = "removing", keeper.found # {},
         NEW stage \in {"sidecar", "file", "record"}, keeper' = [keeper EXCEPT !.stage = stage]
  PROVE  KeeperTyped' /\ Advances(stage)
  <1>1. KeeperTyped' /\ SameSearch /\ keeper'.found = keeper.found /\ keeper'.stage = stage
        BY DEF KeeperTyped, Keeper, SameSearch
  <1>2. QED
        BY <1>1, CandidateStays DEF Advances

LEMMA CleanupBeginDoes ==
  ASSUME NEW old \in 0..MaxImages, NEW max \in {None, 1}, CleanupBegin(old, max),
         Typed, TasksAreSound
  PROVE  /\ KeeperTyped' /\ IsEmpty' /\ keeper.pc = "off" /\ keeper'.pc = "scanning"
         /\ crossed' \subseteq Images /\ crossed \subseteq crossed'
         /\ \A r \in Requests : request[r].pc \in {"checked", "persisted"} => Attaching(r) \in crossed'
         /\ UNCHANGED <<Files, request, next, faults>>
  <1>1. KeeperTyped' /\ IsEmpty' /\ keeper.pc = "off" /\ keeper'.pc = "scanning"
    <2>1. keeper.pc = "off" /\ keeper' = [pc |-> "scanning", old |-> old, max |-> max,
                                         scanned |-> {}, found |-> {}, stage |-> None]
          BY DEF CleanupBegin, NoKeeper
    <2>2. old \in 0..MaxImages /\ max \in Nat \cup {None}
          OBVIOUS
    <2>3. keeper' \in Keeper
          BY ONLY <2>1, <2>2 DEF Keeper
    <2>4. QED
          BY <2>1, <2>3 DEF KeeperTyped, IsEmpty
  <1>2. \A r \in Requests : request[r].pc \in {"checked", "persisted"} => Attaching(r) \in Images
        BY IdTyped DEF TasksAreSound, TaskIsSound, Typed
  <1>3. crossed \subseteq Images
        BY DEF Typed, CountsTyped
  <1>4. crossed' \subseteq Images /\ crossed \subseteq crossed'
        BY <1>2, <1>3 DEF CleanupBegin
  <1>5. QED
        BY <1>1, <1>4 DEF CleanupBegin

LEMMA ScanOneDoes ==
  ASSUME Typed, NEW i \in Images, ScanOne(i)
  PROVE  /\ KeeperTyped' /\ keeper.pc = "scanning" /\ keeper'.pc = "scanning"
         /\ keeper'.stage = None /\ keeper.stage = None
         /\ i \notin keeper.scanned /\ keeper'.scanned = keeper.scanned \cup {i}
         /\ record[i] # None
         /\ keeper'.found = IF Verified(i, record[i])
                            THEN keeper.found \cup {[id |-> i, record |-> record[i]]}
                            ELSE keeper.found
         /\ UNCHANGED <<Files, request, next, crossed, faults>>
  <1>1. record[i] # None /\ record[i] \in Record /\ [id |-> i, record |-> record[i]] \in Found
        BY DEF ScanOne, Recorded, Typed, FilesTyped, Found
  <1>2. keeper \in Keeper /\ keeper.pc = "scanning" /\ keeper.stage = None
        BY DEF Typed, KeeperTyped, ScanOne
  <1>3. QED
        BY <1>1, <1>2 DEF ScanOne, KeeperTyped, Keeper

LEMMA ScanEndDoes ==
  ASSUME KeeperTyped, ScanEnd
  PROVE  /\ KeeperTyped' /\ keeper.pc = "scanning" /\ keeper'.pc = "removing"
         /\ keeper'.stage = None /\ keeper.stage = None
         /\ keeper'.scanned = keeper.scanned /\ keeper'.old = keeper.old /\ keeper'.max = keeper.max
         /\ keeper'.found = Doomed(keeper) /\ keeper'.found \subseteq keeper.found
         /\ UNCHANGED <<Files, request, next, crossed, faults>>
  <1>1. Doomed(keeper) \subseteq keeper.found
        BY DEF Doomed
  <1> DEFINE D == Doomed(keeper)
  <1>2. keeper' = [keeper EXCEPT !.pc = "removing", !.found = D]
        BY DEF ScanEnd
  <1>3. keeper \in Keeper /\ keeper.pc = "scanning" /\ keeper.stage = None
        BY DEF KeeperTyped, ScanEnd
  <1>4. D \subseteq keeper.found
        BY <1>1
  <1> HIDE DEF D
  <1>5. /\ KeeperTyped' /\ keeper'.pc = "removing" /\ keeper'.stage = None
        /\ keeper'.scanned = keeper.scanned /\ keeper'.old = keeper.old /\ keeper'.max = keeper.max
        /\ keeper'.found = D
        BY <1>2, <1>3, <1>4 DEF KeeperTyped, Keeper
  <1>6. QED
        BY <1>3, <1>4, <1>5 DEF ScanEnd, D

LEMMA VerifyDoes ==
  ASSUME KeeperTyped, Verify
  PROVE  /\ KeeperTyped' /\ keeper.pc = "removing" /\ keeper.stage = None /\ keeper.found # {}
         /\ \/ Verified(Candidate.id, Candidate.record) /\ Advances("sidecar")
            \/ Skips
         /\ UNCHANGED <<Files, request, next, crossed, faults>>
  BY SkipDoes, AdvanceDoes DEF Verify

LEMMA RemoveSidecarDoes ==
  ASSUME KeeperTyped, RemoveSidecar
  PROVE  /\ KeeperTyped' /\ keeper.pc = "removing" /\ keeper.stage = "sidecar" /\ keeper.found # {}
         /\ \/ ~Candidate.record.sidecar /\ UNCHANGED sidecar /\ Advances("file")
            \/ /\ Candidate.record.sidecar /\ sidecar[Candidate.id] = None
               /\ UNCHANGED sidecar /\ Skips
            \/ sidecar' = [sidecar EXCEPT ![Candidate.id] = None] /\ Advances("file")
         /\ UNCHANGED <<disk, record, request, next, crossed, faults>>
  <1>1. keeper.pc = "removing" /\ keeper.stage = "sidecar" /\ keeper.found # {}
        BY AtWork DEF RemoveSidecar
  <1>2. QED
        BY <1>1, SkipDoes, AdvanceDoes DEF RemoveSidecar

LEMMA RemoveFileDoes ==
  ASSUME KeeperTyped, RemoveFile
  PROVE  /\ KeeperTyped' /\ keeper.pc = "removing" /\ keeper.stage = "file" /\ keeper.found # {}
         /\ \/ disk[Candidate.record.path] = None /\ UNCHANGED disk /\ Skips
            \/ /\ disk[Candidate.record.path] # None
               /\ disk' = [disk EXCEPT ![Candidate.record.path] = None] /\ Advances("record")
         /\ UNCHANGED <<sidecar, record, request, next, crossed, faults>>
  <1>1. keeper.pc = "removing" /\ keeper.stage = "file" /\ keeper.found # {}
        BY AtWork DEF RemoveFile
  <1>2. QED
        BY <1>1, SkipDoes, AdvanceDoes DEF RemoveFile

LEMMA RemoveRecordDoes ==
  ASSUME KeeperTyped, RemoveRecord
  PROVE  /\ KeeperTyped' /\ keeper.pc = "removing" /\ keeper.stage = "record" /\ keeper.found # {}
         /\ Skips /\ record' = [record EXCEPT ![Candidate.id] = None]
         /\ UNCHANGED <<disk, sidecar, request, next, crossed, faults>>
  <1>1. keeper.pc = "removing" /\ keeper.stage = "record" /\ keeper.found # {}
        BY AtWork DEF RemoveRecord
  <1>2. QED
        BY <1>1, SkipDoes DEF RemoveRecord

LEMMA RepairBeginDoes ==
  ASSUME RepairBegin
  PROVE  /\ KeeperTyped' /\ IsEmpty' /\ Stopped /\ keeper.pc = "off" /\ keeper'.pc = "repairing"
         /\ UNCHANGED <<Files, request, next, crossed, faults>>
  <1>1. keeper' = [pc |-> "repairing", old |-> 0, max |-> None, scanned |-> {}, found |-> {},
                   stage |-> None]
        BY DEF RepairBegin, NoKeeper
  <1>2. KeeperTyped' /\ IsEmpty' /\ keeper'.pc = "repairing"
        BY <1>1 DEF KeeperTyped, Keeper, IsEmpty
  <1>3. QED
        BY <1>2 DEF RepairBegin

(* A repair looks at one record: it mends it, removes it, or leaves it.      *)
Mends(i) ==
  /\ Intact(i, record[i]) /\ SidecarState(i, record[i]) = "missing"
  /\ record' = [record EXCEPT ![i].sidecar = FALSE] /\ UNCHANGED <<sidecar, faults>>

Clears(i) ==
  /\ disk[record[i].path] = None /\ SidecarState(i, record[i]) # "invalid"
  /\ sidecar' = [sidecar EXCEPT ![i] = IF record[i].sidecar THEN None ELSE @]

LEMMA RepairOneDoes ==
  ASSUME Typed, NEW i \in Images, RepairOne(i)
  PROVE  /\ KeeperTyped' /\ keeper.pc = "repairing" /\ keeper.stage = None /\ record[i] \in Record
         /\ \/ /\ keeper'.pc = "repairing" /\ keeper'.scanned = keeper.scanned \cup {i}
               /\ keeper'.found = keeper.found /\ keeper'.stage = None
               /\ \/ Mends(i)
                  \/ Clears(i) /\ record' = [record EXCEPT ![i] = None] /\ UNCHANGED faults
                  \/ /\ ~(Intact(i, record[i]) /\ SidecarState(i, record[i]) = "missing")
                     /\ ~(disk[record[i].path] = None /\ SidecarState(i, record[i]) # "invalid")
                     /\ UNCHANGED <<record, sidecar, faults>>
            \/ Clears(i) /\ Fault /\ UNCHANGED record /\ keeper' = NoKeeper
         /\ UNCHANGED <<disk, request, next, crossed>>
  <1>1. record[i] \in Record
        BY DEF RepairOne, Recorded, Typed, FilesTyped
  <1>2. keeper \in Keeper /\ keeper.pc = "repairing" /\ keeper.stage = None
        BY DEF Typed, KeeperTyped, RepairOne
  <1>3. keeper' = [keeper EXCEPT !.scanned = @ \cup {i}]
          => /\ KeeperTyped' /\ keeper'.pc = "repairing" /\ keeper'.found = keeper.found
             /\ keeper'.scanned = keeper.scanned \cup {i} /\ keeper'.stage = None
        BY <1>2 DEF KeeperTyped, Keeper
  <1>4. keeper' = NoKeeper => KeeperTyped'
        BY OffDoes
  <1>5. UNCHANGED <<disk, request, next, crossed>>
        BY DEF RepairOne, Files
  <1>6. QED
        BY <1>1, <1>2, <1>3, <1>4, <1>5 DEF RepairOne, Mends, Clears, Files

EditsFile(p, new) ==
  /\ disk' = [disk EXCEPT ![p] = new] /\ UNCHANGED sidecar
EditsSidecar(i, new) ==
  /\ sidecar' = [sidecar EXCEPT ![i] = new] /\ UNCHANGED disk

LEMMA UserEditsDoes ==
  ASSUME UserEdits
  PROVE  /\ keeper.stage = None /\ keeper.pc # "repairing" /\ Fault
         /\ \/ \E p \in Paths, new \in {None, User} : EditsFile(p, new)
            \/ \E i \in Images, new \in {None, User} : EditsSidecar(i, new)
         /\ UNCHANGED <<record, request, keeper, next, crossed>>
  BY DEF UserEdits, EditsFile, EditsSidecar

-----------------------------------------------------------------------------
(* Types are kept.                                                           *)
LEMMA KeptTypes ==
  /\ UNCHANGED request /\ TasksTyped => TasksTyped'
  /\ UNCHANGED keeper /\ KeeperTyped => KeeperTyped'
  /\ UNCHANGED Files /\ FilesTyped => FilesTyped'
  /\ UNCHANGED <<next, crossed>> /\ UNCHANGED faults /\ CountsTyped => CountsTyped'
  /\ UNCHANGED <<next, crossed>> /\ Fault /\ CountsTyped => CountsTyped'
  BY DEF TasksTyped, KeeperTyped, FilesTyped, CountsTyped, Files, Fault

LEMMA FilesKeepTypes ==
  ASSUME FilesTyped,
         \/ UNCHANGED disk
         \/ \E p \in Paths, b \in Images \cup {None, User} : disk' = [disk EXCEPT ![p] = b],
         \/ UNCHANGED sidecar
         \/ \E i \in Images, s \in {None, "own", User} : sidecar' = [sidecar EXCEPT ![i] = s],
         \/ UNCHANGED record
         \/ \E i \in Images, c \in Record \cup {None} : record' = [record EXCEPT ![i] = c]
  PROVE  FilesTyped'
  <1>1. disk' \in [Paths -> Images \cup {None, User}]
        BY DEF FilesTyped
  <1>2. sidecar' \in [Images -> {None, "own", User}]
        BY DEF FilesTyped
  <1>3. record' \in [Images -> Record \cup {None}]
        BY DEF FilesTyped
  <1>4. QED
        BY <1>1, <1>2, <1>3 DEF FilesTyped

LEMMA OwnsIsTyped ==
  ASSUME NEW i \in Images, NEW p \in Paths, NEW with \in BOOLEAN, Owns(i, p, with)
  PROVE  \E c \in Record \cup {None} : record' = [record EXCEPT ![i] = c]
  BY DEF Owns, Record

LEMMA CrossingIsTyped ==
  ASSUME CountsTyped, NEW r \in Requests, Attaching(r) \in Images, CrossesHere(r),
         UNCHANGED next, UNCHANGED faults \/ Fault
  PROVE  CountsTyped'
  BY DEF CountsTyped, CrossesHere, Fault

LEMMA TypedStep ==
  ASSUME Typed, IdsAreFresh, TasksAreSound, [Next]_vars
  PROVE  Typed'
  <1> USE DEF Typed
  <1>1. ASSUME NEW r \in Requests, Materialize(r) PROVE Typed'
        BY <1>1, MaterializeDoes, KeptTypes
  <1>2. ASSUME NEW r \in Requests, Place(r) PROVE Typed'
    <2>1. next \in Images /\ next' = next + 1 /\ UNCHANGED <<sidecar, record, keeper, crossed>>
          BY <1>2, PlaceDoes
    <2>2. UNCHANGED disk \/ \E p \in Paths : disk' = [disk EXCEPT ![p] = next]
          BY <1>2, PlaceDoes DEF Places
    <2>3. FilesTyped'
          BY <2>1, <2>2, FilesKeepTypes
    <2>4. UNCHANGED faults \/ Fault
          BY <1>2, PlaceDoes
    <2>5. CountsTyped'
          BY <2>1, <2>4 DEF CountsTyped, Fault, Images
    <2>6. QED
          BY <1>2, <2>1, <2>3, <2>5, PlaceDoes, KeptTypes
  <1>3. ASSUME NEW r \in Requests, Own(r) PROVE Typed'
    <2>1. request[r].pc = "placed" /\ request[r].path \in Paths
          BY <1>3, OwnDoes
    <2>2. Last(request[r].ids) \in Images
          BY <2>1, IdTyped DEF TasksAreSound, TaskIsSound
    <2>3. /\ UNCHANGED disk \/ \E p \in Paths : disk' = [disk EXCEPT ![p] = None]
          /\ UNCHANGED record \/ Owns(Last(request[r].ids), request[r].path, FALSE)
          /\ UNCHANGED faults \/ Fault
          /\ UNCHANGED <<sidecar, keeper, next, crossed>>
          BY <1>3, <2>1, OwnDoes
    <2>4. UNCHANGED record \/ \E i \in Images, c \in Record \cup {None} : record' = [record EXCEPT ![i] = c]
          BY <2>1, <2>2, <2>3, OwnsIsTyped
    <2>5. FilesTyped'
          BY <2>3, <2>4, FilesKeepTypes
    <2>6. QED
          BY <1>3, <2>3, <2>5, OwnDoes, KeptTypes
  <1>4. ASSUME NEW r \in Requests, CheckOwner(r) PROVE Typed'
        BY <1>4, CheckOwnerDoes, CrossingIsTyped, KeptTypes
  <1>5. ASSUME NEW r \in Requests, PersistSidecar(r) PROVE Typed'
    <2>1. UNCHANGED <<disk, record>> /\ (UNCHANGED faults \/ Fault)
          BY <1>5, PersistSidecarDoes
    <2>2. UNCHANGED sidecar \/ \E i \in Images : sidecar' = [sidecar EXCEPT ![i] = "own"]
          BY <1>5, PersistSidecarDoes
    <2>3. FilesTyped'
          BY <2>1, <2>2, FilesKeepTypes
    <2>4. QED
          BY <1>5, <2>1, <2>3, PersistSidecarDoes, CrossingIsTyped, KeptTypes
  <1>6. ASSUME NEW r \in Requests, ReplaceRecord(r) PROVE Typed'
    <2>1. Attaching(r) \in Images /\ request[r].path \in Paths /\ UNCHANGED disk
          BY <1>6, ReplaceRecordDoes
    <2>2. /\ UNCHANGED faults \/ Fault
          /\ UNCHANGED record \/ Owns(Attaching(r), request[r].path, TRUE)
          /\ UNCHANGED sidecar \/ \E i \in Images : sidecar' = [sidecar EXCEPT ![i] = None]
          BY <1>6, ReplaceRecordDoes
    <2>3. UNCHANGED record \/ \E i \in Images, c \in Record \cup {None} : record' = [record EXCEPT ![i] = c]
          BY <2>1, <2>2, OwnsIsTyped
    <2>4. FilesTyped'
          BY <2>1, <2>2, <2>3, FilesKeepTypes
    <2>5. QED
          BY <1>6, <2>2, <2>4, ReplaceRecordDoes, CrossingIsTyped, KeptTypes
  <1>7. CASE BridgeDies
        BY <1>7, BridgeDiesDoes, KeptTypes
  <1>8. ASSUME NEW old \in 0..MaxImages, NEW max \in {None, 1}, CleanupBegin(old, max) PROVE Typed'
        BY <1>8, CleanupBeginDoes, KeptTypes DEF CountsTyped
  <1>9. ASSUME NEW i \in Images, ScanOne(i) PROVE Typed'
        BY <1>9, ScanOneDoes, KeptTypes
  <1>10. ASSUME NEW i \in Images, RepairOne(i) PROVE Typed'
    <2>1. /\ UNCHANGED <<disk, request, next, crossed>> /\ KeeperTyped' /\ (UNCHANGED faults \/ Fault)
          /\ record[i] \in Record
          BY <1>10, RepairOneDoes DEF Mends
    <2>2. /\ UNCHANGED sidecar \/ \E s \in {None, "own", User} : sidecar' = [sidecar EXCEPT ![i] = s]
          /\ \/ UNCHANGED record \/ record' = [record EXCEPT ![i] = None]
             \/ record' = [record EXCEPT ![i].sidecar = FALSE]
      <3>1. sidecar[i] \in {None, "own", User}
            BY DEF FilesTyped
      <3>2. QED
            BY <1>10, <3>1, RepairOneDoes DEF Mends, Clears
    <2>3. [record[i] EXCEPT !.sidecar = FALSE] \in Record
          BY <2>1 DEF Record
    <2>4. UNCHANGED record \/ \E c \in Record \cup {None} : record' = [record EXCEPT ![i] = c]
          BY <2>2, <2>3
    <2>5. FilesTyped'
          BY <2>1, <2>2, <2>4, FilesKeepTypes
    <2>6. QED
          BY <2>1, <2>5, KeptTypes
  <1>11. CASE ScanEnd
        BY <1>11, ScanEndDoes, KeptTypes
  <1>12. CASE Verify
        BY <1>12, VerifyDoes, KeptTypes
  <1>13. CASE RemoveSidecar
    <2>1. Candidate.id \in Images
          BY <1>13, RemoveSidecarDoes, CandidateIsFound
    <2>2. FilesTyped'
          BY <1>13, <2>1, RemoveSidecarDoes, FilesKeepTypes
    <2>3. QED
          BY <1>13, <2>2, RemoveSidecarDoes, KeptTypes
  <1>14. CASE RemoveFile
    <2>1. Candidate.record.path \in Paths
          BY <1>14, RemoveFileDoes, CandidateIsFound
    <2>2. FilesTyped'
          BY <1>14, <2>1, RemoveFileDoes, FilesKeepTypes
    <2>3. QED
          BY <1>14, <2>2, RemoveFileDoes, KeptTypes
  <1>15. CASE RemoveRecord
    <2>1. Candidate.id \in Images
          BY <1>15, RemoveRecordDoes, CandidateIsFound
    <2>2. FilesTyped'
          BY <1>15, <2>1, RemoveRecordDoes, FilesKeepTypes
    <2>3. QED
          BY <1>15, <2>2, RemoveRecordDoes, KeptTypes
  <1>16. CASE CleanupEnd
        BY <1>16, OffDoes, KeptTypes DEF CleanupEnd
  <1>17. CASE RepairBegin
        BY <1>17, RepairBeginDoes, KeptTypes
  <1>18. CASE RepairEnd
        BY <1>18, OffDoes, KeptTypes DEF RepairEnd
  <1>19. CASE KeeperDies
        BY <1>19, OffDoes, KeptTypes DEF KeeperDies
  <1>20. CASE UserEdits
    <2>1. FilesTyped'
          BY <1>20, UserEditsDoes, FilesKeepTypes DEF EditsFile, EditsSidecar
    <2>2. QED
          BY <1>20, <2>1, UserEditsDoes, KeptTypes
  <1>21. CASE UNCHANGED vars
        BY <1>21, KeptTypes DEF vars, Files
  <1>22. QED
        BY <1>1, <1>2, <1>3, <1>4, <1>5, <1>6, <1>7, <1>8, <1>9, <1>10, <1>11, <1>12, <1>13, <1>14,
           <1>15, <1>16, <1>17, <1>18, <1>19, <1>20, <1>21 DEF Next

-----------------------------------------------------------------------------
(* Ids stay fresh and unique: only a publication uses a new one.             *)
Placing(r, p) == Place(r) /\ Places(r, p)

FilesMove ==
  \/ \E r \in Requests, p \in Paths : Placing(r, p)
  \/ /\ \A r \in Requests : SameImages(r)
     /\ next' \in {next, next + 1}
     /\ \A p \in Paths : disk'[p] \in {disk[p], None, User}
     /\ keeper.stage # None => \A p \in Paths : disk'[p] \in {disk[p], None}

LEMMA DiskStep ==
  ASSUME Typed, IdsAreFresh, TasksAreSound, [Next]_vars
  PROVE  FilesMove
  <1>0. TasksTyped /\ KeeperTyped /\ FilesTyped
        BY DEF Typed
  <1>1. UNCHANGED <<request, next, disk>> => FilesMove
        BY DEF SameImages, FilesMove
  <1>2. ASSUME NEW r \in Requests, Others(r), SameImages(r), UNCHANGED next,
               UNCHANGED disk \/ \E p \in Paths : disk' = [disk EXCEPT ![p] = None]
        PROVE  FilesMove
    <2>1. \A s \in Requests : SameImages(s)
          BY <1>2 DEF Others, SameImages
    <2>2. \A p \in Paths : disk'[p] \in {disk[p], None}
          BY <1>0, <1>2 DEF FilesTyped
    <2>3. QED
          BY <1>2, <2>1, <2>2 DEF FilesMove
  <1>3. ASSUME NEW r \in Requests, Place(r) PROVE FilesMove
    <2>1. CASE \E p \in Paths : Places(r, p)
          BY <1>3, <2>1 DEF Placing, FilesMove
    <2>2. CASE Ends(r) /\ UNCHANGED disk
      <3>1. \A s \in Requests : SameImages(s)
            BY <1>3, <2>2, PlaceDoes DEF Others, SameImages, Ends, SameTurn
      <3>2. QED
            BY <1>3, <2>2, <3>1, PlaceDoes DEF FilesMove
    <2>3. QED
          BY <1>3, <2>1, <2>2, PlaceDoes
  <1>4. ASSUME NEW r \in Requests,
               Materialize(r) \/ Own(r) \/ CheckOwner(r) \/ PersistSidecar(r) \/ ReplaceRecord(r)
        PROVE  FilesMove
    <2>1. CASE Materialize(r)
          BY <1>0, <1>2, <2>1, MaterializeDoes DEF SameTurn, Files
    <2>2. CASE Own(r)
          BY <1>2, <2>2, OwnDoes DEF SameTurn
    <2>3. CASE CheckOwner(r)
          BY <1>2, <2>3, CheckOwnerDoes DEF SameTurn, Files
    <2>4. CASE PersistSidecar(r)
          BY <1>2, <2>4, PersistSidecarDoes DEF SameTurn
    <2>5. CASE ReplaceRecord(r)
          BY <1>2, <2>5, ReplaceRecordDoes
    <2>6. QED
          BY <1>4, <2>1, <2>2, <2>3, <2>4, <2>5
  <1>5. CASE BridgeDies
        BY <1>0, <1>5, BridgeDiesDoes DEF SameTurn, Files, FilesMove
  <1>6. ASSUME NEW p \in Paths, NEW b \in {None, User}, disk' = [disk EXCEPT ![p] = b],
               b = None \/ keeper.stage = None,
               UNCHANGED <<request, next>>
        PROVE  FilesMove
        BY <1>0, <1>6 DEF FilesTyped, SameImages, FilesMove
  <1>7. CASE RemoveFile
    <2>1. Candidate.record.path \in Paths
          BY <1>0, <1>7, RemoveFileDoes, CandidateIsFound
    <2>2. UNCHANGED <<request, next>>
          BY <1>0, <1>7, RemoveFileDoes
    <2>3. UNCHANGED disk \/ disk' = [disk EXCEPT ![Candidate.record.path] = None]
          BY <1>0, <1>7, RemoveFileDoes
    <2>4. QED
          BY ONLY <1>1, <1>6, <2>1, <2>2, <2>3
  <1>8. CASE UserEdits
    <2>1. UNCHANGED <<request, next>> /\ keeper.stage = None
          BY <1>8, UserEditsDoes
    <2>2. UNCHANGED disk \/ \E p \in Paths, b \in {None, User} : disk' = [disk EXCEPT ![p] = b]
          BY <1>8, UserEditsDoes DEF EditsFile, EditsSidecar
    <2>3. QED
          BY ONLY <1>1, <1>6, <2>1, <2>2
  <1>9. CASE \/ \E old \in 0..MaxImages, max \in {None, 1} : CleanupBegin(old, max)
             \/ \E i \in Images : ScanOne(i) \/ RepairOne(i)
             \/ ScanEnd \/ Verify \/ RemoveSidecar \/ RemoveRecord \/ CleanupEnd
             \/ RepairBegin \/ RepairEnd \/ KeeperDies \/ UNCHANGED vars
    <2>1. \A i \in Images : RepairOne(i) => UNCHANGED <<request, next, disk>>
          BY RepairOneDoes
    <2>2. UNCHANGED <<request, next, disk>>
          BY <1>9, <2>1 DEF CleanupBegin, ScanOne, ScanEnd, Verify, RemoveSidecar, RemoveRecord,
                CleanupEnd, RepairBegin, RepairEnd, KeeperDies, Files, vars
    <2>3. QED
          BY <1>1, <2>2
  <1>10. CASE Next
        BY ONLY <1>3, <1>4, <1>5, <1>7, <1>8, <1>9, <1>10 DEF Next
  <1>11. CASE UNCHANGED vars
        BY <1>9, <1>11
  <1>12. QED
        BY <1>10, <1>11

LEMMA PlacingDoes ==
  ASSUME Typed, NEW r \in Requests, NEW p \in Paths, Placing(r, p)
  PROVE  /\ next \in Images /\ next' = next + 1 /\ Others(r)
         /\ IdsOf(r)' = IdsOf(r) \cup {next}
         /\ \A s \in Requests \ {r} : IdsOf(s)' = IdsOf(s)
         /\ Len(request'[r].ids) = Len(request[r].ids) + 1
         /\ request'[r].ids # <<>> /\ Last(request'[r].ids) = next
         /\ disk[p] = None /\ disk'[p] = next /\ \A q \in Paths \ {p} : disk'[q] = disk[q]
         /\ UNCHANGED <<sidecar, record, keeper, crossed>>
  <1>1. /\ next \in Images /\ next' = next + 1 /\ Others(r)
        /\ UNCHANGED <<sidecar, record, keeper, crossed>>
        BY PlaceDoes DEF Placing
  <1>2. /\ disk[p] = None /\ disk' = [disk EXCEPT ![p] = next]
        /\ request'[r].ids = Append(request[r].ids, next)
        BY DEF Placing, Places
  <1>3. disk'[p] = next /\ \A q \in Paths \ {p} : disk'[q] = disk[q]
        BY <1>2 DEF Typed, FilesTyped
  <1> DEFINE old == request[r].ids
             new == request'[r].ids
  <1>4. old \in Seq(Images)
        BY IdTyped DEF Typed, Task
  <1>5. Len(old) \in Nat /\ Len(new) = Len(old) + 1 /\ new[Len(old) + 1] = next
        BY <1>1, <1>2, <1>4
  <1>6. \A k \in 1..Len(old) : new[k] = old[k]
        BY <1>1, <1>2, <1>4
  <1>7. new # <<>> /\ Last(new) = next
        BY <1>1, <1>2, <1>4, <1>5 DEF Last
  <1>8. IdsOf(r)' = {new[k] : k \in 1..Len(new)} /\ IdsOf(r) = {old[k] : k \in 1..Len(old)}
        BY DEF IdsOf
  <1> HIDE DEF old, new
  <1>9. 1..Len(new) = 1..Len(old) \cup {Len(old) + 1}
        BY <1>5
  <1>10. {new[k] : k \in 1..Len(new)} = {old[k] : k \in 1..Len(old)} \cup {next}
        BY <1>5, <1>6, <1>9
  <1>11. \A s \in Requests \ {r} : IdsOf(s)' = IdsOf(s)
        BY <1>1 DEF Others, IdsOf
  <1>12. QED
        BY <1>1, <1>2, <1>3, <1>5, <1>7, <1>8, <1>10, <1>11 DEF old, new

LEMMA SameImagesKeepsIds ==
  ASSUME NEW r \in Requests, SameImages(r)
  PROVE  IdsOf(r)' = IdsOf(r)
  BY DEF SameImages, IdsOf

LEMMA RecordMoves ==
  ASSUME Typed, IdsAreFresh, TasksAreSound, [Next]_vars, NEW i \in Images, record'[i] # None
  PROVE  record[i] # None \/ \E r \in Requests : i \in IdsOf(r)
  <1>0. TasksTyped /\ KeeperTyped /\ FilesTyped
        BY DEF Typed
  <1> DEFINE Known == record[i] # None \/ \E r \in Requests : i \in IdsOf(r)
  <1> SUFFICES Known
        OBVIOUS
  <1>1. UNCHANGED record => Known
        OBVIOUS
  <1>2. ASSUME NEW r \in Requests, NEW j \in IdsOf(r), NEW p, NEW with, Owns(j, p, with)
        PROVE  Known
        BY <1>0, <1>2 DEF Owns, FilesTyped
  <1>3. ASSUME NEW r \in Requests, Own(r) PROVE Known
    <2>1. Last(request[r].ids) \in IdsOf(r)
          BY <1>0, <1>3, OwnDoes, IdTyped DEF TasksAreSound, TaskIsSound
    <2>2. UNCHANGED record \/ Owns(Last(request[r].ids), request[r].path, FALSE)
          BY <1>3, OwnDoes
    <2> HIDE DEF Known
    <2>3. QED
          BY <1>1, <1>2, <2>1, <2>2
  <1>4. ASSUME NEW r \in Requests, ReplaceRecord(r) PROVE Known
    <2>1. Attaching(r) \in IdsOf(r)
          BY <1>0, <1>4, ReplaceRecordDoes, IdTyped DEF TasksAreSound, TaskIsSound
    <2>2. UNCHANGED record \/ Owns(Attaching(r), request[r].path, TRUE)
          BY <1>4, ReplaceRecordDoes
    <2> HIDE DEF Known
    <2>3. QED
          BY <1>1, <1>2, <2>1, <2>2
  <1>5. ASSUME NEW j \in Images, RepairOne(j) PROVE Known
    <2>1. record[j] \in Record /\ record[j] # None
          BY <1>5, RepairOneDoes DEF Record
    <2>2. \A k \in Images \ {j} : record'[k] = record[k]
          BY <1>0, <1>5, RepairOneDoes DEF Mends, FilesTyped
    <2>3. QED
          BY <2>1, <2>2
  <1>6. CASE RemoveRecord
        BY <1>0, <1>6, RemoveRecordDoes DEF FilesTyped
  <1>7. CASE \/ \E r \in Requests : Materialize(r) \/ Place(r) \/ CheckOwner(r) \/ PersistSidecar(r)
             \/ \E old \in 0..MaxImages, max \in {None, 1} : CleanupBegin(old, max)
             \/ \E j \in Images : ScanOne(j)
             \/ BridgeDies \/ ScanEnd \/ Verify \/ RemoveSidecar \/ RemoveFile \/ CleanupEnd
             \/ RepairBegin \/ RepairEnd \/ KeeperDies \/ UserEdits \/ UNCHANGED vars
        BY <1>7, <1>1 DEF Materialize, Place, CheckOwner, PersistSidecar, CleanupBegin, ScanOne,
           BridgeDies, ScanEnd, Verify, RemoveSidecar, RemoveFile, CleanupEnd, RepairBegin, RepairEnd,
           KeeperDies, UserEdits, Files, vars
  <1> HIDE DEF Known
  <1>8. CASE Next
        BY ONLY <1>3, <1>4, <1>5, <1>6, <1>7, <1>8 DEF Next
  <1>9. CASE UNCHANGED vars
        BY <1>7, <1>9
  <1>10. QED
        BY <1>8, <1>9

LEMMA FreshStep ==
  ASSUME Typed, IdsAreFresh, TasksAreSound, [Next]_vars
  PROVE  IdsAreFresh'
  <1>1. next \in Nat
        BY DEF Typed, CountsTyped
  <1>2. \A r \in Requests : IdsOf(r) \subseteq Images /\ Len(request[r].ids) \in Nat
        BY IdTyped DEF Typed
  <1>3. next' >= next /\ next' \in Nat
        BY <1>1, DiskStep, PlacingDoes DEF FilesMove
  <1>4. \A i \in Images : i < next => i < next'
        BY <1>1, <1>3 DEF Images
  <1>5. \A i \in Images : record'[i] # None => i < next'
        BY <1>2, <1>4, RecordMoves DEF IdsAreFresh
  <1>6. ASSUME NEW s \in Requests, NEW q \in Paths, Placing(s, q)
        PROVE  IdsAreFresh'
    <2>1. /\ next \in Images /\ next' = next + 1 /\ Others(s)
          /\ IdsOf(s)' = IdsOf(s) \cup {next}
          /\ \A r \in Requests \ {s} : IdsOf(r)' = IdsOf(r)
          /\ Len(request'[s].ids) = Len(request[s].ids) + 1
          /\ disk'[q] = next /\ \A p \in Paths \ {q} : disk'[p] = disk[p]
          BY <1>6, PlacingDoes
    <2>2. \A r \in Requests : Len(request'[r].ids) < next'
      <3>1. Len(request'[s].ids) < next'
            BY <1>1, <1>2, <2>1 DEF IdsAreFresh
      <3>2. \A r \in Requests \ {s} : request'[r] = request[r]
            BY <2>1 DEF Others
      <3>3. \A r \in Requests \ {s} : Len(request[r].ids) < next'
            BY <1>1, <1>2, <2>1 DEF IdsAreFresh
      <3>4. QED
            BY <3>1, <3>2, <3>3
    <2>3. \A r \in Requests : \A i \in IdsOf(r)' : i < next'
      <3>1. \A r \in Requests : \A i \in IdsOf(r) : i < next'
            BY <1>2, <1>4 DEF IdsAreFresh
      <3>2. next < next'
            BY <1>1, <2>1
      <3>3. QED
            BY <2>1, <3>1, <3>2
    <2>4. \A p \in Paths : disk'[p] \in Images => disk'[p] < next'
      <3>1. \A p \in Paths \ {q} : disk'[p] \in Images => disk'[p] < next'
            BY <1>4, <2>1 DEF IdsAreFresh
      <3>2. disk'[q] < next'
            BY <1>1, <2>1
      <3>3. QED
            BY <3>1, <3>2
    <2>5. QED
          BY <1>5, <2>2, <2>3, <2>4 DEF IdsAreFresh
  <1>7. ASSUME \A r \in Requests : SameImages(r),
               \A p \in Paths : disk'[p] \in {disk[p], None, User}
        PROVE  IdsAreFresh'
    <2>1. \A r \in Requests : Len(request'[r].ids) < next'
          BY <1>1, <1>2, <1>3, <1>7 DEF SameImages, IdsAreFresh
    <2>2. \A r \in Requests : \A i \in IdsOf(r)' : i < next'
          BY <1>2, <1>4, <1>7, SameImagesKeepsIds DEF IdsAreFresh
    <2>3. \A p \in Paths : disk'[p] \in Images => disk'[p] < next'
          BY <1>4, <1>7 DEF IdsAreFresh
    <2>4. QED
          BY <1>5, <2>1, <2>2, <2>3 DEF IdsAreFresh
  <1>8. QED
        BY <1>6, <1>7, DiskStep DEF FilesMove

LEMMA UniqueStep ==
  ASSUME Typed, IdsAreFresh, TasksAreSound, [Next]_vars, IdsAreUnique
  PROVE  IdsAreUnique'
  <1>1. ASSUME NEW s \in Requests, NEW q \in Paths, Placing(s, q)
        PROVE  IdsAreUnique'
    <2>1. /\ next \in Images
          /\ IdsOf(s)' = IdsOf(s) \cup {next}
          /\ \A r \in Requests \ {s} : IdsOf(r)' = IdsOf(r)
          /\ disk'[q] = next /\ \A p \in Paths \ {q} : disk'[p] = disk[p]
          BY <1>1, PlacingDoes
    <2>2. ~(next < next)
          BY <2>1 DEF Images
    <2>3. \A r \in Requests : next \notin IdsOf(r)
          BY <2>2 DEF IdsAreFresh
    <2>4. \A p \in Paths : disk[p] # next
          BY <2>1, <2>2 DEF IdsAreFresh
    <2>5. \A r, t \in Requests : r # t => IdsOf(r)' \cap IdsOf(t)' = {}
          BY <2>1, <2>3 DEF IdsAreUnique
    <2>6. \A p, o \in Paths : disk'[p] \in Images /\ disk'[p] = disk'[o] => p = o
          BY <2>1, <2>4 DEF IdsAreUnique
    <2>7. QED
          BY <2>5, <2>6 DEF IdsAreUnique
  <1>2. ASSUME \A r \in Requests : SameImages(r),
               \A p \in Paths : disk'[p] \in {disk[p], None, User}
        PROVE  IdsAreUnique'
    <2>1. \A r, t \in Requests : r # t => IdsOf(r)' \cap IdsOf(t)' = {}
          BY <1>2, SameImagesKeepsIds DEF IdsAreUnique
    <2>2. \A p \in Paths : disk'[p] \in Images => disk'[p] = disk[p]
          BY <1>2
    <2>3. \A p, o \in Paths : disk'[p] \in Images /\ disk'[p] = disk'[o] => p = o
          BY <2>2 DEF IdsAreUnique
    <2>4. QED
          BY <2>1, <2>3 DEF IdsAreUnique
  <1>3. QED
        BY <1>1, <1>2, DiskStep DEF FilesMove

-----------------------------------------------------------------------------
(* The tasks stay sound.  A step of one is calm for the others: of their     *)
(* images it makes no file, and no record at another place.                  *)
RecordIsCalm(r) ==
  \A i \in IdsOf(r) : record'[i] # None => record[i] # None /\ record'[i].path = record[i].path

DiskIsCalm(r) ==
  \A i \in IdsOf(r), p \in Paths : disk'[p] = i => disk[p] = i

LEMMA DiskStaysCalm ==
  ASSUME Typed, IdsAreFresh, TasksAreSound, [Next]_vars, NEW r \in Requests
  PROVE  DiskIsCalm(r)
  <1>1. IdsOf(r) \subseteq Images
        BY IdTyped DEF Typed
  <1>2. next \notin IdsOf(r)
        BY DEF IdsAreFresh, Typed, CountsTyped
  <1>3. QED
        BY <1>1, <1>2, DiskStep, PlacingDoes DEF FilesMove, DiskIsCalm

LEMMA OwnsIsCalm ==
  ASSUME Typed, IdsAreUnique, NEW r \in Requests, NEW s \in Requests \ {r}, NEW i \in IdsOf(r),
         NEW p, NEW with, Owns(i, p, with)
  PROVE  RecordIsCalm(s)
  <1>1. i \notin IdsOf(s)
        BY DEF IdsAreUnique
  <1>2. IdsOf(s) \subseteq Images
        BY IdTyped DEF Typed
  <1>3. \A j \in IdsOf(s) : record'[j] = record[j]
        BY <1>1, <1>2 DEF Owns, Typed, FilesTyped
  <1>4. QED
        BY <1>3 DEF RecordIsCalm

LEMMA SameRecordIsCalm ==
  ASSUME UNCHANGED record, NEW r \in Requests
  PROVE  RecordIsCalm(r)
  BY DEF RecordIsCalm

LEMMA CalmTask ==
  ASSUME Typed, TasksAreSound, NEW r \in Requests, RecordIsCalm(r), DiskIsCalm(r),
         SameTurn(r), request'[r].pc = request[r].pc, request'[r].path = request[r].path
  PROVE  TaskIsSound(r)'
  <1>1. TaskIsSound(r)
        BY DEF TasksAreSound
  <1>2. request'[r].ids = request[r].ids /\ request'[r].at = request[r].at
        BY DEF SameTurn, SameImages
  <1>3. Attaching(r)' = Attaching(r)
        BY <1>2 DEF Attaching
  <1>4. request[r].ids # <<>> => Last(request[r].ids) \in IdsOf(r)
        BY IdTyped DEF Typed
  <1>5. request[r].at <= Len(request[r].ids) => Attaching(r) \in IdsOf(r)
        BY IdTyped DEF Typed
  <1>6. QED
        BY <1>1, <1>2, <1>3, <1>4, <1>5 DEF TaskIsSound, RecordIsCalm, DiskIsCalm

LEMMA CalmOthers ==
  ASSUME Typed, TasksAreSound, NEW r \in Requests, Others(r), TaskIsSound(r)',
         \A s \in Requests \ {r} : RecordIsCalm(s) /\ DiskIsCalm(s)
  PROVE  TasksAreSound'
  <1>1. ASSUME NEW s \in Requests \ {r} PROVE TaskIsSound(s)'
    <2>1. SameTurn(s) /\ request'[s].pc = request[s].pc /\ request'[s].path = request[s].path
          BY DEF Others, SameTurn, SameImages
    <2>2. QED
          BY <2>1, CalmTask
  <1>2. QED
        BY <1>1 DEF TasksAreSound

LEMMA CalmStep ==
  ASSUME Typed, TasksAreSound, UNCHANGED request,
         \A s \in Requests : RecordIsCalm(s) /\ DiskIsCalm(s)
  PROVE  TasksAreSound'
  <1>1. ASSUME NEW s \in Requests PROVE TaskIsSound(s)'
    <2>1. SameTurn(s) /\ request'[s].pc = request[s].pc /\ request'[s].path = request[s].path
          BY DEF SameTurn, SameImages
    <2>2. QED
          BY <2>1, CalmTask
  <1>2. QED
        BY <1>1 DEF TasksAreSound

LEMMA IdleTask ==
  ASSUME NEW r \in Requests, request'[r].pc \in {"failed", "done", "dead"}
  PROVE  TaskIsSound(r)'
  BY DEF TaskIsSound

LEMMA TasksStep ==
  ASSUME Typed, IdsAreFresh, IdsAreUnique, TasksAreSound, [Next]_vars
  PROVE  TasksAreSound'
  <1>0. \A r \in Requests : DiskIsCalm(r) /\ TaskIsSound(r)
        BY DiskStaysCalm DEF TasksAreSound
  <1>1. ASSUME NEW r \in Requests, Materialize(r) PROVE TasksAreSound'
    <2>1. Others(r) /\ SameTurn(r) /\ UNCHANGED record /\ request[r].pc = "idle"
          /\ request'[r].pc \in {"projecting", "failed"}
          BY <1>1, MaterializeDoes DEF Typed, Files
    <2>2. TaskIsSound(r)'
          BY <1>0, <2>1 DEF TaskIsSound, SameTurn
    <2>3. QED
          BY <1>0, <2>1, <2>2, CalmOthers, SameRecordIsCalm
  <1>2. ASSUME NEW r \in Requests, Place(r) PROVE TasksAreSound'
    <2>1. /\ Others(r) /\ UNCHANGED record /\ request[r].pc = "projecting"
          /\ (\E p \in Paths : Places(r, p)) \/ Ends(r)
          BY <1>2, PlaceDoes
    <2>2. ASSUME NEW p \in Paths, Places(r, p) PROVE TaskIsSound(r)'
      <3>1. Placing(r, p)
            BY <1>2, <2>2 DEF Placing
      <3>2. /\ next \in Images /\ request'[r].ids # <<>> /\ Last(request'[r].ids) = next
            /\ \A q \in Paths \ {p} : disk'[q] = disk[q]
            BY <3>1, PlacingDoes
      <3>3. request'[r].pc = "placed" /\ request'[r].path = p /\ request'[r].at = request[r].at
            BY <2>2 DEF Places
      <3>4. ~(next < next)
            BY <3>2 DEF Images
      <3>5. record'[next] = None /\ \A q \in Paths : disk[q] # next
            BY <2>1, <3>2, <3>4 DEF IdsAreFresh
      <3>6. request[r].at = 1
            BY <1>0, <2>1 DEF TaskIsSound
      <3>7. QED
            BY <3>2, <3>3, <3>5, <3>6 DEF TaskIsSound
    <2>3. Ends(r) => TaskIsSound(r)'
          BY IdleTask DEF Ends
    <2>4. QED
          BY <1>0, <2>1, <2>2, <2>3, CalmOthers, SameRecordIsCalm
  <1>3. ASSUME NEW r \in Requests, Own(r) PROVE TasksAreSound'
    <2>1. /\ Others(r) /\ SameTurn(r) /\ request[r].pc = "placed"
          /\ request'[r].pc \in {"projecting", "attaching", "done", "failed"}
          /\ UNCHANGED record \/ Owns(Last(request[r].ids), request[r].path, FALSE)
          BY <1>3, OwnDoes DEF Ends
    <2>2. request[r].ids # <<>> /\ request[r].at = 1
          BY <1>0, <2>1 DEF TaskIsSound
    <2>3. Last(request[r].ids) \in IdsOf(r) /\ 1 <= Len(request[r].ids)
          BY <2>2, IdTyped DEF Typed, Task
    <2>4. TaskIsSound(r)'
          BY <2>1, <2>2, <2>3 DEF TaskIsSound, SameTurn, SameImages
    <2>5. QED
          BY <1>0, <2>1, <2>3, <2>4, CalmOthers, SameRecordIsCalm, OwnsIsCalm
  <1>4. ASSUME NEW r \in Requests, CheckOwner(r) PROVE TasksAreSound'
    <2>1. /\ Others(r) /\ SameTurn(r) /\ Attaching(r) \in Images /\ request[r].pc = "attaching"
          /\ UNCHANGED <<disk, record>>
          BY <1>4, CheckOwnerDoes DEF Files
    <2>2. CASE /\ record[Attaching(r)] # None /\ Verified(Attaching(r), record[Attaching(r)])
               /\ request'[r].pc = "checked" /\ request'[r].path = record[Attaching(r)].path
      <3>1. Attaching(r)' = Attaching(r)
            BY <2>1 DEF SameTurn, SameImages, Attaching
      <3>2. record[Attaching(r)].path \in Paths
            BY <2>1, <2>2 DEF Typed, FilesTyped, Record
      <3>3. disk[record[Attaching(r)].path] = Attaching(r)
            BY <2>2 DEF Verified, Intact
      <3>4. \A p \in Paths : disk[p] = Attaching(r) => p = record[Attaching(r)].path
            BY <2>1, <3>2, <3>3 DEF IdsAreUnique
      <3>5. request'[r].at <= Len(request'[r].ids)
            BY <1>0, <2>1 DEF TaskIsSound, SameTurn, SameImages
      <3>6. TaskIsSound(r)'
            BY <2>1, <2>2, <3>1, <3>4, <3>5 DEF TaskIsSound
      <3>7. QED
            BY <1>0, <2>1, <3>6, CalmOthers, SameRecordIsCalm
    <2>3. CASE Ends(r)
          BY <1>0, <2>1, <2>3, IdleTask, CalmOthers, SameRecordIsCalm DEF Ends
    <2>4. QED
          BY <1>4, <2>2, <2>3, CheckOwnerDoes
  <1>5. ASSUME NEW r \in Requests, PersistSidecar(r) PROVE TasksAreSound'
    <2>1. /\ Others(r) /\ SameTurn(r) /\ request[r].pc = "checked" /\ UNCHANGED <<disk, record>>
          /\ \/ Ends(r)
             \/ request'[r].pc = "persisted" /\ request'[r].path = request[r].path
          BY <1>5, PersistSidecarDoes
    <2>2. Attaching(r)' = Attaching(r) /\ request'[r].ids = request[r].ids
          /\ request'[r].at = request[r].at
          BY <2>1 DEF SameTurn, SameImages, Attaching
    <2>3. TaskIsSound(r)'
          BY <1>0, <2>1, <2>2, IdleTask DEF Ends, TaskIsSound
    <2>4. QED
          BY <1>0, <2>1, <2>3, CalmOthers, SameRecordIsCalm
  <1>6. ASSUME NEW r \in Requests, ReplaceRecord(r) PROVE TasksAreSound'
    <2>1. /\ Others(r) /\ SameImages(r) /\ request[r].pc = "persisted"
          /\ \/ Ends(r)
             \/ request'[r].pc \in {"attaching", "done"} /\ request'[r].at <= Len(request[r].ids)
          /\ UNCHANGED record \/ Owns(Attaching(r), request[r].path, TRUE)
          BY <1>6, ReplaceRecordDoes
    <2>2. Attaching(r) \in IdsOf(r)
          BY <1>0, <2>1, IdTyped DEF TaskIsSound, Typed
    <2>3. TaskIsSound(r)'
          BY <2>1, IdleTask DEF Ends, TaskIsSound, SameImages
    <2>4. QED
          BY <1>0, <2>1, <2>2, <2>3, CalmOthers, SameRecordIsCalm, OwnsIsCalm
  <1>7. CASE BridgeDies
    <2>1. UNCHANGED record
          BY <1>7 DEF BridgeDies, Files
    <2>2. ASSUME NEW r \in Requests PROVE TaskIsSound(r)'
      <3>1. CASE request[r].pc \in Working
            BY <1>7, <3>1, BridgeDiesDoes, IdleTask DEF Typed
      <3>2. CASE request[r].pc \notin Working
        <4>1. SameTurn(r) /\ request'[r].pc = request[r].pc /\ request'[r].path = request[r].path
              BY <1>7, <3>2, BridgeDiesDoes DEF Typed
        <4>2. QED
              BY <1>0, <2>1, <4>1, CalmTask, SameRecordIsCalm
      <3>3. QED
            BY <3>1, <3>2
    <2>3. QED
          BY <2>2 DEF TasksAreSound
  <1>8. ASSUME NEW i \in Images, RepairOne(i) PROVE TasksAreSound'
    <2>1. UNCHANGED request /\ record[i] \in Record
          BY <1>8, RepairOneDoes
    <2>2. \/ UNCHANGED record
          \/ record' = [record EXCEPT ![i] = None]
          \/ record' = [record EXCEPT ![i].sidecar = FALSE]
          BY <1>8, RepairOneDoes DEF Mends
    <2>3. \A j \in Images : record'[j] # None => record[j] # None /\ record'[j].path = record[j].path
          BY <2>1, <2>2 DEF Typed, FilesTyped, Record
    <2>4. \A s \in Requests : RecordIsCalm(s)
          BY <2>3, IdTyped DEF RecordIsCalm, Typed
    <2>5. QED
          BY <1>0, <2>1, <2>4, CalmStep
  <1>9. CASE RemoveRecord
    <2>1. UNCHANGED request /\ record' = [record EXCEPT ![Candidate.id] = None]
          BY <1>9, RemoveRecordDoes DEF Typed
    <2>2. \A j \in Images : record'[j] # None => record[j] # None /\ record'[j].path = record[j].path
          BY <2>1 DEF Typed, FilesTyped
    <2>3. \A s \in Requests : RecordIsCalm(s)
          BY <2>2, IdTyped DEF RecordIsCalm, Typed
    <2>4. QED
          BY <1>0, <2>1, <2>3, CalmStep
  <1>10. CASE \/ \E old \in 0..MaxImages, max \in {None, 1} : CleanupBegin(old, max)
              \/ \E j \in Images : ScanOne(j)
              \/ ScanEnd \/ Verify \/ RemoveSidecar \/ RemoveFile \/ CleanupEnd
              \/ RepairBegin \/ RepairEnd \/ KeeperDies \/ UserEdits \/ UNCHANGED vars
    <2>1. UNCHANGED <<request, record>>
          BY <1>10 DEF CleanupBegin, ScanOne, ScanEnd, Verify, RemoveSidecar, RemoveFile, CleanupEnd,
             RepairBegin, RepairEnd, KeeperDies, UserEdits, Files, vars
    <2>2. QED
          BY <1>0, <2>1, CalmStep, SameRecordIsCalm
  <1>11. CASE Next
        BY <1>1, <1>2, <1>3, <1>4, <1>5, <1>6, <1>7, <1>8, <1>9, <1>10, <1>11 DEF Next
  <1>12. QED
        BY <1>10, <1>11

-----------------------------------------------------------------------------
(* A file that stays keeps its owner.                                        *)
LEMMA OwnsDoes ==
  ASSUME FilesTyped, NEW i \in Images, NEW p \in Paths, NEW with \in BOOLEAN, Owns(i, p, with)
  PROVE  /\ record'[i] = [path |-> p, sidecar |-> with]
         /\ record'[i] # None /\ record'[i].path = p /\ record'[i].sidecar = with
         /\ \A j \in Images \ {i} : record'[j] = record[j]
  <1>1. record'[i] = [path |-> p, sidecar |-> with]
        BY DEF FilesTyped, Owns
  <1>2. [path |-> p, sidecar |-> with] \in [path : Paths, sidecar : BOOLEAN]
        OBVIOUS
  <1>3. \A j \in Images \ {i} : record'[j] = record[j]
        BY DEF FilesTyped, Owns
  <1>4. QED
        BY <1>1, <1>2, <1>3

LEMMA MendedDoes ==
  ASSUME FilesTyped, NEW i \in Images, record[i] \in Record,
         record' = [record EXCEPT ![i].sidecar = FALSE]
  PROVE  /\ record'[i] # None /\ record'[i].path = record[i].path /\ ~record'[i].sidecar
         /\ \A j \in Images \ {i} : record'[j] = record[j]
  <1>1. record'[i] = [record[i] EXCEPT !.sidecar = FALSE]
        BY DEF FilesTyped
  <1>2. /\ record'[i].path = record[i].path /\ ~record'[i].sidecar
        /\ record'[i] \in [path : Paths, sidecar : BOOLEAN]
    <2>1. PICK c : c = record[i]
          OBVIOUS
    <2>2. c \in [path : Paths, sidecar : BOOLEAN] /\ record'[i] = [c EXCEPT !.sidecar = FALSE]
          BY <1>1, <2>1 DEF Record
    <2>3. QED
          BY ONLY <2>1, <2>2
  <1>3. \A j \in Images \ {i} : record'[j] = record[j]
        BY DEF FilesTyped
  <1>4. QED
        BY <1>2, <1>3

LEMMA OwnerByRecord ==
  ASSUME NEW i \in Images, NEW p \in Paths, HasOwner(i, p), NEW r \in Requests, Others(r),
         record[i] # None /\ record[i].path = p => record'[i] # None /\ record'[i].path = p,
         request[r].pc \notin {"placed", "dead"}
  PROVE  HasOwner(i, p)'
  BY DEF HasOwner, IsLast, Others

LEMMA OwnerIsKept ==
  ASSUME IInv, [Next]_vars, NEW i \in Images, NEW p \in Paths, disk[p] = i, disk'[p] = i
  PROVE  HasOwner(i, p)'
  <1>0. Typed /\ TasksAreSound /\ RemovalIsSound /\ IdsAreFresh /\ HasOwner(i, p)
        BY DEF IInv, EveryFileHasAnOwner
  <1>1. ASSUME UNCHANGED <<request, record>> PROVE HasOwner(i, p)'
        BY <1>0, <1>1 DEF HasOwner, IsLast
  <1>2. ASSUME NEW r \in Requests, Materialize(r) PROVE HasOwner(i, p)'
    <2>1. Others(r) /\ UNCHANGED record /\ request[r].pc = "idle"
          BY <1>0, <1>2, MaterializeDoes DEF Typed, Files
    <2>2. QED
          BY <1>0, <2>1, OwnerByRecord
  <1>3. ASSUME NEW r \in Requests, Place(r) PROVE HasOwner(i, p)'
    <2>1. Others(r) /\ UNCHANGED record /\ request[r].pc = "projecting"
          BY <1>0, <1>3, PlaceDoes
    <2>2. QED
          BY <1>0, <2>1, OwnerByRecord
  <1>4. ASSUME NEW r \in Requests, Own(r) PROVE HasOwner(i, p)'
    <2> DEFINE id == Last(request[r].ids)
               path == request[r].path
    <2>1. /\ Others(r) /\ request[r].pc = "placed" /\ path \in Paths
          /\ \/ Owns(id, path, FALSE)
             \/ /\ disk' = [disk EXCEPT ![path] = None]
                /\ record' = record \/ Owns(id, path, FALSE)
          BY <1>0, <1>4, OwnDoes
    <2>2. id \in Images /\ \A q \in Paths : disk[q] = id => q = path
          BY <1>0, <2>1, IdTyped DEF TasksAreSound, TaskIsSound, Typed
    <2>3. i = id => p = path
          BY <2>2
    <2>4. \/ Owns(id, path, FALSE)
          \/ i # id /\ record' = record
      <3>1. disk' = [disk EXCEPT ![path] = None] => disk'[path] = None
            BY <1>0, <2>1 DEF Typed, FilesTyped
      <3>2. QED
            BY <2>1, <2>3, <3>1
    <2> HIDE DEF id, path
    <2>5. Owns(id, path, FALSE) => /\ record'[id] # None /\ record'[id].path = path
                                   /\ i # id => record'[i] = record[i]
      <3>1. FilesTyped /\ id \in Images /\ path \in Paths /\ FALSE \in BOOLEAN
            BY <1>0, <2>1, <2>2 DEF Typed
      <3>2. QED
            BY ONLY <3>1, OwnsDoes, i \in Images
    <2>6. CASE i = id
          BY <2>3, <2>4, <2>5, <2>6 DEF HasOwner
    <2>7. CASE i # id
      <3>1. record'[i] = record[i]
            BY <2>4, <2>5, <2>7
      <3>2. ~IsLast(r, i)
            BY <2>7 DEF IsLast, id
      <3>3. \A s \in Requests : IsLast(s, i) => IsLast(s, i)'
            BY <2>1, <3>2 DEF Others, IsLast
      <3>4. QED
            BY <1>0, <3>1, <3>3 DEF HasOwner
    <2>8. QED
          BY <2>6, <2>7
  <1>5. ASSUME NEW r \in Requests, CheckOwner(r) \/ PersistSidecar(r) PROVE HasOwner(i, p)'
    <2>1. Others(r) /\ UNCHANGED record /\ request[r].pc \in {"attaching", "checked"}
          BY <1>0, <1>5, CheckOwnerDoes, PersistSidecarDoes DEF Files
    <2>2. QED
          BY <1>0, <2>1, OwnerByRecord
  <1>6. ASSUME NEW r \in Requests, ReplaceRecord(r) PROVE HasOwner(i, p)'
    <2> DEFINE id == Attaching(r)
               path == request[r].path
    <2>1. /\ Others(r) /\ request[r].pc = "persisted" /\ id \in Images /\ path \in Paths
          /\ record' = record \/ Owns(id, path, TRUE)
          BY <1>0, <1>6, ReplaceRecordDoes
    <2>2. i = id => p = path
          BY <1>0, <2>1 DEF TasksAreSound, TaskIsSound
    <2> HIDE DEF id, path
    <2>3. Owns(id, path, TRUE) => /\ record'[id] # None /\ record'[id].path = path
                                  /\ i # id => record'[i] = record[i]
          BY <1>0, <2>1, OwnsDoes DEF Typed
    <2>4. record[i] # None /\ record[i].path = p => record'[i] # None /\ record'[i].path = p
          BY <2>1, <2>2, <2>3
    <2>5. QED
          BY <1>0, <2>1, <2>4, OwnerByRecord
  <1>7. CASE BridgeDies
    <2>1. /\ UNCHANGED record
          /\ \A r \in Requests : /\ SameTurn(r)
                                 /\ request[r].pc \in Working => request'[r].pc = "dead"
                                 /\ request[r].pc \notin Working => request'[r] = request[r]
          BY <1>0, <1>7, BridgeDiesDoes DEF Typed, Files
    <2>2. \A s \in Requests : IsLast(s, i) => IsLast(s, i)'
          BY <2>1 DEF IsLast, SameTurn, SameImages, Working
    <2>3. QED
          BY <1>0, <2>1, <2>2 DEF HasOwner
  <1>8. ASSUME NEW j \in Images, RepairOne(j) PROVE HasOwner(i, p)'
    <2>1. UNCHANGED request /\ record[j] \in Record
          BY <1>0, <1>8, RepairOneDoes
    <2>2. \/ UNCHANGED record
          \/ record' = [record EXCEPT ![j] = None] /\ disk[record[j].path] = None
          \/ record' = [record EXCEPT ![j].sidecar = FALSE]
          BY <1>0, <1>8, RepairOneDoes DEF Mends, Clears
    <2>3. record[i] # None /\ record[i].path = p => record'[i] # None /\ record'[i].path = p
      <3>1. record' = [record EXCEPT ![j].sidecar = FALSE]
              => record'[j] # None /\ record'[j].path = record[j].path
            BY <1>0, <2>1, MendedDoes DEF Typed
      <3>2. \A k \in Images \ {j} : record'[k] = record[k]
            BY <1>0, <2>2 DEF Typed, FilesTyped
      <3>3. disk[record[j].path] = None => ~(j = i /\ record[i].path = p)
            OBVIOUS
      <3>4. QED
            BY <2>2, <3>1, <3>2, <3>3
    <2>4. QED
          BY <1>0, <2>1, <2>3 DEF HasOwner, IsLast
  <1>9. CASE RemoveRecord
    <2>1. /\ UNCHANGED request /\ keeper.stage = "record"
          /\ record' = [record EXCEPT ![Candidate.id] = None]
          BY <1>0, <1>9, RemoveRecordDoes DEF Typed
    <2>2. i # Candidate.id
          BY <1>0, <2>1 DEF RemovalIsSound
    <2>3. record'[i] = record[i]
          BY <1>0, <2>1, <2>2 DEF Typed, FilesTyped
    <2>4. QED
          BY <1>0, <2>1, <2>3 DEF HasOwner, IsLast
  <1>10. CASE \/ \E old \in 0..MaxImages, max \in {None, 1} : CleanupBegin(old, max)
              \/ \E j \in Images : ScanOne(j)
              \/ ScanEnd \/ Verify \/ RemoveSidecar \/ RemoveFile \/ CleanupEnd
              \/ RepairBegin \/ RepairEnd \/ KeeperDies \/ UserEdits \/ UNCHANGED vars
    <2>1. UNCHANGED <<request, record>>
          BY <1>10 DEF CleanupBegin, ScanOne, ScanEnd, Verify, RemoveSidecar, RemoveFile, CleanupEnd,
             RepairBegin, RepairEnd, KeeperDies, UserEdits, Files, vars
    <2>2. QED
          BY <1>1, <2>1
  <1>11. CASE Next
        BY <1>2, <1>3, <1>4, <1>5, <1>6, <1>7, <1>8, <1>9, <1>10, <1>11 DEF Next
  <1>12. QED
        BY <1>10, <1>11

LEMMA OwnersStep ==
  ASSUME IInv, [Next]_vars
  PROVE  EveryFileHasAnOwner'
  <1>1. Typed /\ IdsAreFresh /\ TasksAreSound
        BY DEF IInv
  <1>2. ASSUME NEW i \in Images, NEW p \in Paths, disk'[p] = i, disk[p] = i
        PROVE  HasOwner(i, p)'
        BY <1>2, OwnerIsKept
  <1>3. ASSUME NEW r \in Requests, NEW q \in Paths, Placing(r, q)
        PROVE  EveryFileHasAnOwner'
    <2>1. /\ request'[r].ids # <<>> /\ Last(request'[r].ids) = next /\ disk'[q] = next
          /\ \A p \in Paths \ {q} : disk'[p] = disk[p]
          BY <1>1, <1>3, PlacingDoes
    <2>2. request'[r].pc = "placed"
          BY <1>3 DEF Placing, Places
    <2>3. ASSUME NEW i \in Images, disk'[q] = i PROVE HasOwner(i, q)'
          BY <2>1, <2>2, <2>3 DEF HasOwner, IsLast
    <2>4. QED
          BY <1>2, <2>1, <2>3 DEF EveryFileHasAnOwner
  <1>4. ASSUME \A p \in Paths : disk'[p] \in {disk[p], None, User}
        PROVE  EveryFileHasAnOwner'
    <2>1. \A p \in Paths, i \in Images : disk'[p] = i => disk[p] = i
          BY <1>4
    <2>2. QED
          BY <1>2, <2>1 DEF EveryFileHasAnOwner
  <1>5. QED
        BY <1>1, <1>3, <1>4, DiskStep DEF FilesMove

-----------------------------------------------------------------------------
(* What a cleanup has found stays recorded until it is removed.              *)
LEMMA RequestsKeepRecords ==
  ASSUME Typed, IdsAreFresh, IdsAreUnique, TasksAreSound, NEW r \in Requests,
         Own(r) \/ ReplaceRecord(r), NEW j \in Images, record[j] # None
  PROVE  record'[j] # None /\ record'[j].path = record[j].path
  <1>0. FilesTyped /\ TasksTyped /\ TaskIsSound(r)
        BY DEF Typed, TasksAreSound
  <1>1. CASE Own(r)
    <2> DEFINE id == Last(request[r].ids)
    <2>1. /\ request[r].pc = "placed" /\ request[r].path \in Paths
          /\ record' = record \/ Owns(id, request[r].path, FALSE)
          BY <1>1, OwnDoes
    <2>2. id \in Images /\ record[id] = None
          BY <1>0, <2>1, IdTyped DEF TaskIsSound
    <2> HIDE DEF id
    <2>3. FALSE \in BOOLEAN /\ j # id
          BY <2>2
    <2>4. Owns(id, request[r].path, FALSE) => record'[j] = record[j]
          BY <1>0, <2>1, <2>2, <2>3, OwnsDoes
    <2>5. QED
          BY <2>1, <2>4
  <1>2. CASE ReplaceRecord(r)
    <2> DEFINE id == Attaching(r)
    <2>1. /\ request[r].pc = "persisted" /\ request[r].path \in Paths /\ id \in Images
          /\ record' = record \/ Owns(id, request[r].path, TRUE)
          BY <1>2, ReplaceRecordDoes
    <2>2. record[id] # None => record[id].path = request[r].path
          BY <1>0, <2>1 DEF TaskIsSound
    <2> HIDE DEF id
    <2>3. Owns(id, request[r].path, TRUE)
            => IF j = id THEN record'[j].path = request[r].path /\ record'[j] # None
               ELSE record'[j] = record[j]
      <3>1. id \in Images /\ request[r].path \in Paths /\ TRUE \in BOOLEAN
            BY <2>1
      <3>2. ASSUME Owns(id, request[r].path, TRUE)
            PROVE  /\ record'[id].path = request[r].path /\ record'[id] # None
                   /\ \A k \in Images \ {id} : record'[k] = record[k]
            BY <1>0, <3>1, <3>2, OwnsDoes
      <3>3. QED
            BY <3>2
    <2>4. QED
          BY <2>1, <2>2, <2>3
  <1>3. QED
        BY <1>1, <1>2

LEMMA FoundIsKept ==
  ASSUME FoundIsRecorded, keeper'.found \subseteq keeper.found, keeper'.scanned = keeper.scanned,
         keeper'.found # {} => keeper'.pc \in {"scanning", "removing"},
         \A c \in keeper'.found : record[c.id] # None =>
              record'[c.id] # None /\ record'[c.id].path = record[c.id].path
  PROVE  FoundIsRecorded'
  BY DEF FoundIsRecorded

LEMMA FoundStep ==
  ASSUME IInv, [Next]_vars
  PROVE  FoundIsRecorded'
  <1>0. /\ Typed /\ IdsAreFresh /\ IdsAreUnique /\ TasksAreSound /\ FoundIsRecorded
        /\ KeeperTyped /\ FilesTyped /\ keeper.found \subseteq Found
        BY DEF IInv, Typed, KeeperTyped, Keeper
  <1>1. UNCHANGED keeper /\ UNCHANGED record => FoundIsRecorded'
        BY <1>0 DEF FoundIsRecorded
  <1>2. IsEmpty' => FoundIsRecorded'
        BY DEF IsEmpty, FoundIsRecorded
  <1>3. UNCHANGED record /\ Skips => FoundIsRecorded'
        BY <1>0, FoundIsKept DEF Skips, SameSearch, FoundIsRecorded
  <1>4. \A stage : UNCHANGED record /\ Advances(stage) => FoundIsRecorded'
        BY <1>0, FoundIsKept DEF Advances, SameSearch, FoundIsRecorded
  <1>5. ASSUME NEW r \in Requests, Own(r) \/ ReplaceRecord(r) PROVE FoundIsRecorded'
    <2>1. UNCHANGED keeper
          BY <1>0, <1>5, OwnDoes, ReplaceRecordDoes
    <2>2. \A c \in keeper.found : c.id \in Images
          BY <1>0 DEF Found
    <2>3. \A c \in keeper.found : record[c.id] # None =>
              record'[c.id] # None /\ record'[c.id].path = record[c.id].path
          BY <1>0, <1>5, <2>2, RequestsKeepRecords
    <2>4. QED
          BY <1>0, <2>1, <2>3, FoundIsKept DEF FoundIsRecorded
  <1>6. ASSUME NEW i \in Images, ScanOne(i) PROVE FoundIsRecorded'
    <2> DEFINE new == [id |-> i, record |-> record[i]]
    <2>1. /\ i \notin keeper.scanned /\ keeper'.scanned = keeper.scanned \cup {i}
          /\ keeper'.pc = "scanning" /\ record[i] # None /\ UNCHANGED record
          /\ keeper'.found \subseteq keeper.found \cup {new}
          BY <1>0, <1>6, ScanOneDoes DEF Files
    <2>2. new.id = i /\ new.record = record[i]
          OBVIOUS
    <2> HIDE DEF new
    <2>3. QED
          BY <1>0, <2>1, <2>2 DEF FoundIsRecorded
  <1>7. ASSUME NEW i \in Images, RepairOne(i) PROVE FoundIsRecorded'
        BY <1>0, <1>7, RepairOneDoes, <1>2, OffDoes DEF FoundIsRecorded
  <1>8. CASE ScanEnd
        BY <1>0, <1>8, ScanEndDoes, FoundIsKept DEF Files
  <1>9. CASE Verify
        BY <1>0, <1>3, <1>4, <1>9, VerifyDoes DEF Files
  <1>10. CASE RemoveSidecar
        BY <1>0, <1>3, <1>4, <1>10, RemoveSidecarDoes
  <1>11. CASE RemoveFile
        BY <1>0, <1>3, <1>4, <1>11, RemoveFileDoes
  <1>12. CASE RemoveRecord
    <2>1. /\ Skips /\ record' = [record EXCEPT ![Candidate.id] = None]
          /\ keeper.found # {} /\ keeper.pc = "removing"
          BY <1>0, <1>12, RemoveRecordDoes
    <2>2. Candidate \in keeper.found /\ Candidate.id \in Images
          BY <1>0, <2>1, CandidateIsFound
    <2>3. \A c \in keeper'.found : c.id # Candidate.id /\ c.id \in Images
          BY <1>0, <2>1, <2>2 DEF Skips, FoundIsRecorded, Found
    <2>4. \A c \in keeper'.found : record'[c.id] = record[c.id]
          BY <1>0, <2>1, <2>3 DEF FilesTyped
    <2>5. QED
          BY <1>0, <2>1, <2>4, FoundIsKept DEF Skips, SameSearch
  <1>13. CASE \E r \in Requests : Materialize(r) \/ Place(r) \/ CheckOwner(r) \/ PersistSidecar(r)
        BY <1>1, <1>13 DEF Materialize, Place, CheckOwner, PersistSidecar, Files
  <1>14. CASE \E old \in 0..MaxImages, max \in {None, 1} : CleanupBegin(old, max)
        BY <1>0, <1>2, <1>14, CleanupBeginDoes
  <1>15. CASE CleanupEnd \/ RepairEnd \/ KeeperDies
        BY <1>2, <1>15, OffDoes DEF CleanupEnd, RepairEnd, KeeperDies
  <1>16. CASE RepairBegin
        BY <1>2, <1>16, RepairBeginDoes
  <1>17. CASE BridgeDies \/ UserEdits \/ UNCHANGED vars
        BY <1>1, <1>17 DEF BridgeDies, UserEdits, Files, vars
  <1>18. QED
        BY <1>5, <1>6, <1>7, <1>8, <1>9, <1>10, <1>11, <1>12, <1>13, <1>14, <1>15, <1>16, <1>17
        DEF Next

-----------------------------------------------------------------------------
(* What is about to be removed is where the cleanup believes it is.          *)
LEMMA RemovalIsKept ==
  ASSUME IInv, [Next]_vars, UNCHANGED keeper
  PROVE  RemovalIsSound'
  <1>0. /\ Typed /\ IdsAreFresh /\ TasksAreSound /\ FoundIsRecorded /\ RemovalIsSound
        /\ KeeperTyped /\ Candidate' = Candidate
        BY CandidateStays DEF IInv, Typed
  <1>1. CASE keeper.stage = None
        BY <1>1 DEF RemovalIsSound
  <1>2. CASE keeper.stage # None
    <2>1. /\ Candidate \in keeper.found /\ Candidate.id \in Images
          /\ Candidate.record.path \in Paths
          BY <1>0, <1>2, AtWork, CandidateIsFound
    <2>2. record[Candidate.id] # None
          BY <1>0, <2>1 DEF FoundIsRecorded
    <2>3. Candidate.id < next
          BY <1>0, <2>1, <2>2 DEF IdsAreFresh
    <2>4. Candidate.id # next
          BY <2>1, <2>3 DEF Images
    <2>5. \A p \in Paths : disk'[p] = Candidate.id => disk[p] = Candidate.id
          BY <1>0, <1>2, <2>1, <2>4, DiskStep, PlacingDoes DEF FilesMove
    <2>6. \A p \in Paths : disk'[p] = User => disk[p] = User
          BY <1>0, <1>2, DiskStep, PlacingDoes DEF FilesMove
    <2>7. QED
          BY <1>0, <2>1, <2>5, <2>6 DEF RemovalIsSound
  <1>3. QED
        BY <1>1, <1>2

LEMMA RemovalStep ==
  ASSUME IInv, [Next]_vars
  PROVE  RemovalIsSound'
  <1>0. /\ Typed /\ IdsAreUnique /\ RemovalIsSound /\ KeeperTyped /\ FilesTyped /\ TasksAreSound
        BY DEF IInv, Typed
  <1>1. keeper'.stage = None => RemovalIsSound'
        BY DEF RemovalIsSound
  <1>2. CASE Verify
    <2>1. CASE Verified(Candidate.id, Candidate.record) /\ Advances("sidecar")
      <3>1. /\ Candidate' = Candidate /\ keeper'.stage = "sidecar" /\ UNCHANGED disk
            /\ keeper.found # {}
            BY <1>0, <1>2, <2>1, VerifyDoes DEF Advances, Files
      <3>2. Candidate.id \in Images /\ Candidate.record.path \in Paths
            BY <1>0, <3>1, CandidateIsFound
      <3>3. disk[Candidate.record.path] = Candidate.id
            BY <2>1 DEF Verified, Intact
      <3>4. QED
            BY <1>0, <3>1, <3>2, <3>3 DEF RemovalIsSound, IdsAreUnique
    <2>2. CASE Skips
          BY <1>1, <2>2 DEF Skips
    <2>3. QED
          BY <1>0, <1>2, <2>1, <2>2, VerifyDoes
  <1>3. CASE RemoveSidecar
    <2>1. CASE Advances("file")
      <3>1. /\ Candidate' = Candidate /\ keeper'.stage = "file" /\ UNCHANGED disk
            /\ keeper.stage = "sidecar"
            BY <1>0, <1>3, <2>1, RemoveSidecarDoes DEF Advances
      <3>2. QED
            BY <1>0, <3>1 DEF RemovalIsSound
    <2>2. CASE Skips
          BY <1>1, <2>2 DEF Skips
    <2>3. QED
          BY <1>0, <1>3, <2>1, <2>2, RemoveSidecarDoes
  <1>4. CASE RemoveFile
    <2> DEFINE path == Candidate.record.path
    <2>1. CASE disk' = [disk EXCEPT ![path] = None] /\ Advances("record")
      <3>1. /\ Candidate' = Candidate /\ keeper'.stage = "record" /\ keeper.stage = "file"
            /\ keeper.found # {}
            BY <1>0, <1>4, <2>1, RemoveFileDoes DEF Advances
      <3>2. Candidate.id \in Images /\ path \in Paths
            BY <1>0, <3>1, CandidateIsFound
      <3>3. disk'[path] = None /\ \A p \in Paths \ {path} : disk'[p] = disk[p]
            BY <1>0, <2>1, <3>2 DEF FilesTyped
      <3>4. QED
            BY <1>0, <3>1, <3>2, <3>3 DEF RemovalIsSound
    <2>2. CASE Skips
          BY <1>1, <2>2 DEF Skips
    <2>3. QED
          BY <1>0, <1>4, <2>1, <2>2, RemoveFileDoes
  <1>5. CASE RemoveRecord
        BY <1>0, <1>1, <1>5, RemoveRecordDoes DEF Skips
  <1>6. ASSUME NEW i \in Images, ScanOne(i) \/ RepairOne(i) PROVE RemovalIsSound'
    <2>1. ScanOne(i) => keeper'.stage = None
          BY <1>0, ScanOneDoes
    <2>2. keeper' = NoKeeper => keeper'.stage = None
          BY OffDoes DEF IsEmpty
    <2>3. RepairOne(i) => keeper'.stage = None
          BY <1>0, <2>2, RepairOneDoes
    <2>4. QED
          BY <1>1, <1>6, <2>1, <2>3
  <1>7. CASE ScanEnd
        BY <1>0, <1>1, <1>7, ScanEndDoes
  <1>8. CASE \E old \in 0..MaxImages, max \in {None, 1} : CleanupBegin(old, max)
        BY <1>0, <1>1, <1>8, CleanupBeginDoes DEF IsEmpty
  <1>9. CASE CleanupEnd \/ RepairEnd \/ KeeperDies
        BY <1>1, <1>9, OffDoes DEF CleanupEnd, RepairEnd, KeeperDies, IsEmpty
  <1>10. CASE RepairBegin
        BY <1>1, <1>10, RepairBeginDoes DEF IsEmpty
  <1>11. CASE \/ \E r \in Requests : \/ Materialize(r) \/ Place(r) \/ Own(r)
                                     \/ CheckOwner(r) \/ PersistSidecar(r) \/ ReplaceRecord(r)
              \/ BridgeDies \/ UserEdits \/ UNCHANGED vars
    <2>1. UNCHANGED keeper
          BY <1>11 DEF Materialize, Place, Own, CheckOwner, PersistSidecar, ReplaceRecord, BridgeDies,
             UserEdits, vars
    <2>2. QED
          BY <2>1, RemovalIsKept
  <1>12. QED
        BY <1>2, <1>3, <1>4, <1>5, <1>6, <1>7, <1>8, <1>9, <1>10, <1>11 DEF Next

-----------------------------------------------------------------------------
(* What a cleanup removes is old: the newer images it found are among those  *)
(* it has scanned.                                                           *)
LEMMA DoomedIsBeyond ==
  ASSUME KeeperTyped, FoundIsRecorded, NEW c \in Doomed(keeper)
  PROVE  \/ c.id <= keeper.old
         \/ /\ keeper.max # None
            /\ Cardinality({i \in keeper.scanned : i > c.id}) >= keeper.max
  <1> DEFINE S == {d \in keeper.found : d.id > c.id}
             T == {i \in keeper.scanned : i > c.id}
             f == [d \in S |-> d.id]
  <1>1. /\ keeper.found \subseteq Found /\ keeper.scanned \subseteq Images
        /\ keeper.max \in Nat \cup {None}
        BY DEF KeeperTyped, Keeper
  <1>2. f \in Injection(S, T)
    <2>1. f \in [S -> T]
          BY DEF FoundIsRecorded
    <2>2. \A d, e \in S : f[d] = f[e] => d = e
          BY DEF FoundIsRecorded
    <2>3. QED
          BY <2>1, <2>2 DEF Injection, IsInjective
  <1>3. IsFiniteSet(T)
    <2>1. IsFiniteSet(Images)
          BY FS_Interval DEF Images
    <2>2. QED
          BY <1>1, <2>1, FS_Subset
  <1>4. Cardinality(S) <= Cardinality(T) /\ Cardinality(S) \in Nat /\ Cardinality(T) \in Nat
        BY <1>2, <1>3, FS_Injection, FS_CardinalityType
  <1>5. c.id <= keeper.old \/ (keeper.max # None /\ Cardinality(S) >= keeper.max)
        BY DEF Doomed
  <1> HIDE DEF S, T
  <1>6. keeper.max # None /\ Cardinality(S) >= keeper.max => Cardinality(T) >= keeper.max
        BY <1>1, <1>4
  <1>7. QED
        BY <1>5, <1>6 DEF T

LEMMA DoomedIsKept ==
  ASSUME DoomedIsOld, SameSearch, keeper'.found \subseteq keeper.found
  PROVE  DoomedIsOld'
  BY DEF DoomedIsOld, SameSearch

LEMMA DoomedStep ==
  ASSUME IInv, [Next]_vars
  PROVE  DoomedIsOld'
  <1>0. Typed /\ FoundIsRecorded /\ KeeperTyped /\ DoomedIsOld /\ TasksAreSound
        BY DEF IInv, Typed
  <1>1. keeper'.pc # "removing" => DoomedIsOld'
        BY DEF DoomedIsOld
  <1>2. \A stage : Skips \/ Advances(stage) => DoomedIsOld'
        BY <1>0, DoomedIsKept DEF Skips, Advances
  <1>3. CASE ScanEnd
    <2>1. /\ keeper'.old = keeper.old /\ keeper'.max = keeper.max
          /\ keeper'.scanned = keeper.scanned /\ keeper'.found = Doomed(keeper)
          BY <1>0, <1>3, ScanEndDoes
    <2>2. \A c \in Doomed(keeper) : \/ c.id <= keeper.old
                                    \/ /\ keeper.max # None
                                       /\ Cardinality({i \in keeper.scanned : i > c.id}) >= keeper.max
          BY <1>0, DoomedIsBeyond
    <2>3. QED
          BY <2>1, <2>2 DEF DoomedIsOld
  <1>4. CASE Verify \/ RemoveSidecar \/ RemoveFile \/ RemoveRecord
        BY <1>0, <1>2, <1>4, VerifyDoes, RemoveSidecarDoes, RemoveFileDoes, RemoveRecordDoes
  <1>5. ASSUME NEW i \in Images, ScanOne(i) \/ RepairOne(i) PROVE DoomedIsOld'
    <2>1. keeper' = NoKeeper => keeper'.pc = "off"
          BY OffDoes
    <2>2. keeper'.pc # "removing"
          BY <1>0, <1>5, <2>1, ScanOneDoes, RepairOneDoes
    <2>3. QED
          BY <1>1, <2>2
  <1>6. CASE \E old \in 0..MaxImages, max \in {None, 1} : CleanupBegin(old, max)
        BY <1>0, <1>1, <1>6, CleanupBeginDoes
  <1>7. CASE CleanupEnd \/ RepairEnd \/ KeeperDies
        BY <1>1, <1>7, OffDoes DEF CleanupEnd, RepairEnd, KeeperDies
  <1>8. CASE RepairBegin
        BY <1>1, <1>8, RepairBeginDoes
  <1>9. CASE \/ \E r \in Requests : \/ Materialize(r) \/ Place(r) \/ Own(r)
                                    \/ CheckOwner(r) \/ PersistSidecar(r) \/ ReplaceRecord(r)
             \/ BridgeDies \/ UserEdits \/ UNCHANGED vars
    <2>1. UNCHANGED keeper
          BY <1>9 DEF Materialize, Place, Own, CheckOwner, PersistSidecar, ReplaceRecord, BridgeDies,
             UserEdits, vars
    <2>2. QED
          BY <1>0, <2>1 DEF DoomedIsOld
  <1>10. QED
        BY <1>3, <1>4, <1>5, <1>6, <1>7, <1>8, <1>9 DEF Next

-----------------------------------------------------------------------------
(* A repair.                                                                 *)
LEMMA HealedIsKept ==
  ASSUME NEW i \in Images, RecordIsHealed(i), disk'[record[i].path] = disk[record[i].path],
         record'[i] = record[i], sidecar'[i] = sidecar[i]
  PROVE  RecordIsHealed(i)'
  BY DEF RecordIsHealed, Verified, Intact, SidecarState

LEMMA RepairHealsOne ==
  ASSUME Typed, NEW i \in Images, RepairOne(i), keeper'.pc = "repairing", record'[i] # None
  PROVE  RecordIsHealed(i)'
  <1>0. FilesTyped
        BY DEF Typed
  <1>1. /\ UNCHANGED disk /\ record[i] \in Record
        /\ \/ Mends(i)
           \/ record' = [record EXCEPT ![i] = None]
           \/ /\ ~(Intact(i, record[i]) /\ SidecarState(i, record[i]) = "missing")
              /\ ~(disk[record[i].path] = None /\ SidecarState(i, record[i]) # "invalid")
              /\ UNCHANGED <<record, sidecar>>
        BY RepairOneDoes, OffDoes
  <1>2. CASE Mends(i)
    <2>1. Intact(i, record[i]) /\ record' = [record EXCEPT ![i].sidecar = FALSE]
          BY <1>2 DEF Mends
    <2>2. record'[i].path = record[i].path /\ ~record'[i].sidecar
          BY <1>0, <1>1, <2>1, MendedDoes
    <2>3. QED
          BY <1>1, <2>1, <2>2 DEF RecordIsHealed, Verified, Intact, SidecarState
  <1>3. CASE record' = [record EXCEPT ![i] = None]
        BY <1>0, <1>3 DEF FilesTyped
  <1>4. CASE /\ ~(Intact(i, record[i]) /\ SidecarState(i, record[i]) = "missing")
             /\ ~(disk[record[i].path] = None /\ SidecarState(i, record[i]) # "invalid")
             /\ UNCHANGED <<record, sidecar>>
    <2>1. sidecar[i] \in {None, "own", User}
          BY <1>0 DEF FilesTyped
    <2>2. SidecarState(i, record[i]) \in {"none", "missing", "valid", "invalid"}
          BY DEF SidecarState
    <2>3. SidecarState(i, record[i]) = "invalid" => sidecar[i] = User
          BY <2>1 DEF SidecarState
    <2>4. RecordIsHealed(i)
          BY <1>4, <2>2, <2>3 DEF RecordIsHealed, Verified, Intact
    <2>5. QED
          BY <1>1, <1>4, <2>4, HealedIsKept
  <1>5. QED
        BY <1>1, <1>2, <1>3, <1>4

LEMMA RepairStep ==
  ASSUME IInv, [Next]_vars
  PROVE  RepairSoFar'
  <1>0. Typed /\ TasksAreSound /\ RepairSoFar /\ KeeperTyped /\ FilesTyped /\ TasksTyped
        /\ keeper.scanned \subseteq Images
        BY DEF IInv, Typed, KeeperTyped, Keeper
  <1>1. keeper'.pc # "repairing" => RepairSoFar'
        BY DEF RepairSoFar
  <1>2. ASSUME NEW r \in Requests, Materialize(r) PROVE RepairSoFar'
        BY <1>0, <1>1, <1>2, MaterializeDoes DEF RepairSoFar
  <1>3. ASSUME NEW r \in Requests,
               Place(r) \/ Own(r) \/ CheckOwner(r) \/ PersistSidecar(r) \/ ReplaceRecord(r)
        PROVE  RepairSoFar'
    <2>1. ~Stopped /\ UNCHANGED keeper
          BY <1>3 DEF Stopped, Working, Place, Own, CheckOwner, PersistSidecar, ReplaceRecord
    <2>2. QED
          BY <1>0, <1>1, <2>1 DEF RepairSoFar
  <1>4. CASE BridgeDies
        BY <1>0, <1>1, <1>4, BridgeDiesDoes DEF RepairSoFar
  <1>5. ASSUME NEW i \in Images, RepairOne(i) PROVE RepairSoFar'
    <2>1. UNCHANGED <<disk, request>> /\ keeper.pc = "repairing"
          BY <1>0, <1>5, RepairOneDoes
    <2>2. CASE keeper'.pc = "repairing"
      <3>1. keeper'.scanned = keeper.scanned \cup {i}
            BY <1>0, <1>5, <2>2, RepairOneDoes, OffDoes
      <3>2. Stopped'
            BY <1>0, <2>1 DEF RepairSoFar, Stopped
      <3>3. record'[i] # None => RecordIsHealed(i)'
            BY <1>0, <1>5, <2>2, RepairHealsOne
      <3>4. \A j \in Images \ {i} : record'[j] = record[j] /\ sidecar'[j] = sidecar[j]
            BY <1>0, <1>5, RepairOneDoes DEF FilesTyped, Mends, Clears
      <3>5. ASSUME NEW j \in keeper.scanned, j # i, record'[j] # None PROVE RecordIsHealed(j)'
        <4>1. RecordIsHealed(j) /\ record'[j] = record[j] /\ sidecar'[j] = sidecar[j]
              BY <1>0, <2>1, <3>4, <3>5 DEF RepairSoFar
        <4>2. QED
              BY <1>0, <2>1, <4>1, HealedIsKept
      <3>6. QED
            BY <3>1, <3>2, <3>3, <3>5 DEF RepairSoFar
    <2>3. QED
          BY <1>1, <2>2
  <1>6. CASE RepairBegin
    <2>1. Stopped /\ UNCHANGED request /\ keeper'.scanned = {}
          BY <1>6, RepairBeginDoes DEF IsEmpty
    <2>2. QED
          BY <2>1 DEF RepairSoFar, Stopped
  <1>7. CASE UNCHANGED vars
    <2>1. UNCHANGED <<disk, sidecar, record, request, keeper>>
          BY <1>7 DEF vars
    <2>2. \A i \in keeper.scanned : RecordIsHealed(i) => RecordIsHealed(i)'
          BY <1>0, <2>1, HealedIsKept
    <2>3. QED
          BY <1>0, <2>1, <2>2 DEF RepairSoFar, Stopped
  <1>8. CASE UserEdits
        BY <1>1, <1>8, UserEditsDoes
  <1>9. CASE \E old \in 0..MaxImages, max \in {None, 1} : CleanupBegin(old, max)
        BY <1>0, <1>1, <1>9, CleanupBeginDoes
  <1>10. CASE CleanupEnd \/ RepairEnd \/ KeeperDies
        BY <1>1, <1>10, OffDoes DEF CleanupEnd, RepairEnd, KeeperDies
  <1>11. CASE Verify \/ RemoveSidecar \/ RemoveFile \/ RemoveRecord
    <2>1. keeper'.pc = "removing"
          BY <1>0, <1>11, VerifyDoes, RemoveSidecarDoes, RemoveFileDoes, RemoveRecordDoes
          DEF Skips, Advances, SameSearch
    <2>2. QED
          BY <1>1, <2>1
  <1>12. CASE ScanEnd \/ \E i \in Images : ScanOne(i)
        BY <1>0, <1>1, <1>12, ScanEndDoes, ScanOneDoes
  <1>13. QED
        BY <1>2, <1>3, <1>4, <1>5, <1>6, <1>7, <1>8, <1>9, <1>10, <1>11, <1>12 DEF Next

-----------------------------------------------------------------------------
(* Attaching metadata while a cleanup is under way is noted.                 *)
LEMMA CrossedStep ==
  ASSUME IInv, [Next]_vars
  PROVE  CrossedIsNoted' /\ crossed \subseteq crossed'
  <1>0. Typed /\ TasksAreSound /\ CrossedIsNoted /\ KeeperTyped /\ TasksTyped
        BY DEF IInv, Typed
  <1> DEFINE Deep(r) == request[r].pc \in {"checked", "persisted"}
  <1>1. ASSUME keeper.pc # "off" \/ keeper'.pc = "off", crossed \subseteq crossed',
               \A r \in Requests : Deep(r)' => Deep(r) /\ Attaching(r)' = Attaching(r)
        PROVE  CrossedIsNoted' /\ crossed \subseteq crossed'
        BY <1>0, <1>1 DEF CrossedIsNoted
  <1>2. UNCHANGED request
          => \A r \in Requests : Deep(r)' => Deep(r) /\ Attaching(r)' = Attaching(r)
        BY DEF Attaching
  <1>3. ASSUME NEW r \in Requests, Others(r)
        PROVE  \A s \in Requests \ {r} : Deep(s)' => Deep(s) /\ Attaching(s)' = Attaching(s)
        BY <1>3 DEF Others, Attaching
  <1>4. ASSUME NEW r \in Requests, Others(r), ~Deep(r)', UNCHANGED keeper, crossed \subseteq crossed'
        PROVE  CrossedIsNoted' /\ crossed \subseteq crossed'
    <2>1. \A s \in Requests : Deep(s)' => Deep(s) /\ Attaching(s)' = Attaching(s)
          BY <1>3, <1>4
    <2>2. keeper.pc # "off" \/ keeper'.pc = "off"
          BY <1>4
    <2> HIDE DEF Deep
    <2>3. QED
          BY <1>1, <1>4, <2>1, <2>2
  <1>5. ASSUME NEW r \in Requests, Others(r), SameTurn(r), CrossesHere(r), UNCHANGED keeper
        PROVE  CrossedIsNoted' /\ crossed \subseteq crossed'
    <2>1. Attaching(r)' = Attaching(r)
          BY <1>5 DEF SameTurn, SameImages, Attaching
    <2>2. crossed \subseteq crossed' /\ (keeper'.pc # "off" => Attaching(r)' \in crossed')
          BY <1>5, <2>1 DEF CrossesHere
    <2>3. \A s \in Requests \ {r} : Deep(s)' => Deep(s) /\ Attaching(s)' = Attaching(s)
          BY <1>3, <1>5
    <2>4. QED
          BY <1>0, <1>5, <2>2, <2>3 DEF CrossedIsNoted
  <1>6. ASSUME NEW r \in Requests, Materialize(r) PROVE CrossedIsNoted' /\ crossed \subseteq crossed'
        BY <1>0, <1>4, <1>6, MaterializeDoes
  <1>7. ASSUME NEW r \in Requests, Place(r) PROVE CrossedIsNoted' /\ crossed \subseteq crossed'
        BY <1>0, <1>4, <1>7, PlaceDoes DEF Places, Ends
  <1>8. ASSUME NEW r \in Requests, Own(r) PROVE CrossedIsNoted' /\ crossed \subseteq crossed'
        BY <1>0, <1>4, <1>8, OwnDoes DEF Ends
  <1>9. ASSUME NEW r \in Requests, CheckOwner(r) PROVE CrossedIsNoted' /\ crossed \subseteq crossed'
        BY <1>0, <1>5, <1>9, CheckOwnerDoes
  <1>10. ASSUME NEW r \in Requests, PersistSidecar(r) PROVE CrossedIsNoted' /\ crossed \subseteq crossed'
        BY <1>0, <1>5, <1>10, PersistSidecarDoes
  <1>11. ASSUME NEW r \in Requests, ReplaceRecord(r) PROVE CrossedIsNoted' /\ crossed \subseteq crossed'
    <2>1. /\ Others(r) /\ UNCHANGED keeper /\ crossed \subseteq crossed'
          /\ request'[r].pc \in {"attaching", "done", "failed"}
          BY <1>0, <1>11, ReplaceRecordDoes DEF Ends, CrossesHere, IInv
    <2>2. QED
          BY <1>4, <2>1
  <1>12. CASE BridgeDies
    <2>1. UNCHANGED <<keeper, crossed>>
          BY <1>12 DEF BridgeDies
    <2>2. \A r \in Requests : Deep(r)' => Deep(r) /\ Attaching(r)' = Attaching(r)
          BY <1>0, <1>12, BridgeDiesDoes DEF Working, Attaching
    <2>3. keeper.pc # "off" \/ keeper'.pc = "off"
          BY <2>1
    <2> HIDE DEF Deep
    <2>4. QED
          BY <1>1, <2>1, <2>2, <2>3
  <1>13. CASE \E old \in 0..MaxImages, max \in {None, 1} : CleanupBegin(old, max)
    <2>1. /\ UNCHANGED request /\ crossed \subseteq crossed'
          /\ \A r \in Requests : Deep(r) => Attaching(r) \in crossed'
          BY <1>0, <1>13, CleanupBeginDoes
    <2>2. QED
          BY <1>2, <2>1 DEF CrossedIsNoted
  <1>14. CASE RepairBegin
    <2>1. UNCHANGED <<request, crossed>> /\ Stopped
          BY <1>14, RepairBeginDoes
    <2>2. \A r \in Requests : ~Deep(r)'
          BY <2>1 DEF Stopped, Working
    <2>3. QED
          BY <2>1, <2>2 DEF CrossedIsNoted
  <1>15. CASE \/ \E i \in Images : ScanOne(i) \/ RepairOne(i)
              \/ ScanEnd \/ Verify \/ RemoveSidecar \/ RemoveFile \/ RemoveRecord \/ CleanupEnd
              \/ RepairEnd \/ KeeperDies \/ UserEdits \/ UNCHANGED vars
    <2>1. UNCHANGED <<request, crossed>>
          BY <1>15 DEF ScanOne, RepairOne, ScanEnd, Verify, RemoveSidecar, RemoveFile, RemoveRecord,
             CleanupEnd, RepairEnd, KeeperDies, UserEdits, vars
    <2>2. keeper.stage # None => keeper.pc = "removing"
          BY <1>0, AtWork
    <2>3. keeper.pc # "off" \/ UNCHANGED keeper
          BY <1>15, <2>2 DEF ScanOne, RepairOne, ScanEnd, Verify, RemoveSidecar, RemoveFile, RemoveRecord,
             CleanupEnd, RepairEnd, KeeperDies, UserEdits, vars
    <2>4. keeper.pc # "off" \/ keeper'.pc = "off"
          BY <2>3
    <2>5. \A r \in Requests : Deep(r)' => Deep(r) /\ Attaching(r)' = Attaching(r)
          BY <1>2, <2>1
    <2> HIDE DEF Deep
    <2>6. QED
          BY <1>1, <2>1, <2>4, <2>5
  <1>16. QED
        BY <1>6, <1>7, <1>8, <1>9, <1>10, <1>11, <1>12, <1>13, <1>14, <1>15 DEF Next

-----------------------------------------------------------------------------
(* While nothing has failed, no step leaves anything behind.                 *)
LEMMA CleanImage ==
  ASSUME NEW i \in Images, ImageIsClean(i), record'[i] = record[i], sidecar'[i] = sidecar[i],
         record[i] # None /\ disk[record[i].path] = i => disk'[record[i].path] = i,
         At({"record"}, i)' <=> At({"record"}, i),
         At({"file", "record"}, i)' <=> At({"file", "record"}, i),
         (\E r \in Requests : PersistedFor(r, i)) => (\E r \in Requests : PersistedFor(r, i))'
  PROVE  ImageIsClean(i)'
  <1>1. /\ sidecar[i] \in {None, "own"}
        /\ record[i] # None /\ ~At({"record"}, i) => disk[record[i].path] = i
        /\ record[i] # None /\ record[i].sidecar /\ ~At({"file", "record"}, i) => sidecar[i] = "own"
        /\ sidecar[i] # None => \/ record[i] # None /\ record[i].sidecar
                                \/ \E r \in Requests : PersistedFor(r, i)
        /\ At({"file", "record"}, i) => sidecar[i] = None
        BY DEF ImageIsClean, Intact
  <1>2. /\ sidecar'[i] \in {None, "own"}
        /\ record'[i] # None /\ ~At({"record"}, i)' => disk'[record'[i].path] = i
        /\ record'[i] # None /\ record'[i].sidecar /\ ~At({"file", "record"}, i)' => sidecar'[i] = "own"
        /\ sidecar'[i] # None => \/ record'[i] # None /\ record'[i].sidecar
                                 \/ (\E r \in Requests : PersistedFor(r, i))'
        /\ At({"file", "record"}, i)' => sidecar'[i] = None
        BY <1>1
  <1>3. QED
        BY <1>2 DEF ImageIsClean, Intact

LEMMA NotAt ==
  ASSUME NEW i
  PROVE  /\ keeper.stage = None \/ keeper.stage = "sidecar"
              => ~At({"record"}, i) /\ ~At({"file", "record"}, i)
         /\ (keeper.stage = None \/ keeper.stage = "sidecar"
              => ~At({"record"}, i) /\ ~At({"file", "record"}, i))'
  BY DEF At

LEMMA SameAt ==
  ASSUME NEW i, UNCHANGED keeper
  PROVE  /\ At({"record"}, i)' <=> At({"record"}, i)
         /\ At({"file", "record"}, i)' <=> At({"file", "record"}, i)
  BY CandidateStays DEF At

LEMMA SamePersisted ==
  ASSUME NEW i, NEW r \in Requests, Others(r), ~PersistedFor(r, i)
  PROVE  (\E s \in Requests : PersistedFor(s, i)) => (\E s \in Requests : PersistedFor(s, i))'
  BY DEF Others, PersistedFor, Attaching

LEMMA CleanTask ==
  ASSUME NEW r \in Requests, TaskIsClean(r), request'[r] = request[r], crossed \subseteq crossed',
         request[r].pc = "placed" => disk'[request[r].path] = disk[request[r].path],
         request[r].pc \in {"checked", "persisted"} /\ Attaching(r) \notin crossed'
           => record'[Attaching(r)] = record[Attaching(r)] /\ sidecar'[Attaching(r)] = sidecar[Attaching(r)]
  PROVE  TaskIsClean(r)'
  <1>1. Attaching(r)' = Attaching(r)
        BY DEF Attaching
  <1>2. QED
        BY <1>1 DEF TaskIsClean

LEMMA CleanTasksBut ==
  ASSUME Typed, IdsAreUnique, TasksAreSound, TasksAreClean, NEW r \in Requests, Others(r), TaskIsClean(r)',
         crossed \subseteq crossed', UNCHANGED disk,
         \A i \in Images : i \notin IdsOf(r) => record'[i] = record[i] /\ sidecar'[i] = sidecar[i]
  PROVE  TasksAreClean'
  <1>1. ASSUME NEW s \in Requests \ {r} PROVE TaskIsClean(s)'
    <2>1. request[s].pc \in {"checked", "persisted"} => Attaching(s) \in IdsOf(s)
          BY IdTyped DEF Typed, TasksAreSound, TaskIsSound
    <2>2. IdsOf(s) \subseteq Images /\ IdsOf(s) \cap IdsOf(r) = {}
          BY IdTyped DEF Typed, IdsAreUnique
    <2>3. request'[s] = request[s] /\ TaskIsClean(s)
          BY DEF Others, TasksAreClean
    <2>4. QED
          BY <2>1, <2>2, <2>3, CleanTask
  <1>2. QED
        BY <1>1 DEF TasksAreClean

LEMMA CleanSame ==
  ASSUME CleanNow, UNCHANGED <<Files, keeper, request>>, crossed \subseteq crossed'
  PROVE  CleanNow'
  <1>1. UNCHANGED <<disk, sidecar, record>> /\ Candidate' = Candidate
        BY CandidateStays DEF Files
  <1>2. \A i, r : PersistedFor(r, i)' <=> PersistedFor(r, i)
        BY DEF PersistedFor, Attaching
  <1>3. \A i \in Images : ImageIsClean(i) => ImageIsClean(i)'
        BY <1>1, <1>2, SameAt, CleanImage
  <1>4. \A r \in Requests : TaskIsClean(r) => TaskIsClean(r)'
        BY <1>1, CleanTask
  <1>5. FoundIsAsRead' /\ FileIsThere'
        BY <1>1 DEF CleanNow, FoundIsAsRead, FileIsThere, Intact
  <1>6. QED
        BY <1>3, <1>4, <1>5 DEF CleanNow, ImagesAreClean, TasksAreClean

(* A step of a request that changes no file.                                 *)
LEMMA CleanTurn ==
  ASSUME Typed, IdsAreUnique, TasksAreSound, CleanNow, NEW r \in Requests, Others(r), TaskIsClean(r)',
         request[r].pc # "persisted", UNCHANGED <<Files, keeper>>, crossed \subseteq crossed'
  PROVE  CleanNow'
  <1>1. UNCHANGED <<disk, sidecar, record>> /\ Candidate' = Candidate
        BY CandidateStays DEF Files
  <1>2. \A i \in Images : ~PersistedFor(r, i)
        BY DEF PersistedFor
  <1>3. \A i \in Images : ImageIsClean(i) => ImageIsClean(i)'
        BY <1>1, <1>2, SameAt, SamePersisted, CleanImage
  <1>4. TasksAreClean'
        BY <1>1, CleanTasksBut DEF CleanNow
  <1>5. FoundIsAsRead' /\ FileIsThere'
        BY <1>1 DEF CleanNow, FoundIsAsRead, FileIsThere, Intact
  <1>6. QED
        BY <1>3, <1>4, <1>5 DEF CleanNow, ImagesAreClean

LEMMA CleanEnds ==
  ASSUME NEW r \in Requests, request'[r].pc \notin {"placed", "checked", "persisted"}
  PROVE  TaskIsClean(r)'
  BY DEF TaskIsClean

LEMMA NoFault ==
  ASSUME Typed, faults = 0, faults' = 0
  PROVE  ~Fault
  BY DEF Fault

LEMMA CleanPlace ==
  ASSUME IInv, CleanNow, NEW r \in Requests, Place(r), faults = 0, faults' = 0
  PROVE  CleanNow'
  <1>0. Typed /\ FilesTyped /\ IdsAreFresh /\ IdsAreUnique /\ TasksAreSound /\ KeeperTyped /\ TasksTyped
        BY DEF IInv, Typed
  <1>1. /\ Others(r) /\ request[r].pc = "projecting" /\ UNCHANGED <<sidecar, record, keeper, crossed>>
        /\ (\E p \in Paths : Places(r, p)) \/ (Ends(r) /\ UNCHANGED disk)
        BY <1>0, PlaceDoes
  <1>2. Candidate' = Candidate
        BY <1>1, CandidateStays
  <1>3. CASE Ends(r) /\ UNCHANGED disk
    <2>1. TaskIsClean(r)'
          BY <1>3, CleanEnds DEF Ends
    <2>2. QED
          BY <1>0, <1>1, <1>3, <2>1, CleanTurn DEF Files
  <1>4. ASSUME NEW p \in Paths, Places(r, p) PROVE CleanNow'
    <2>1. /\ next \in Images /\ Last(request'[r].ids) = next /\ disk[p] = None /\ disk'[p] = next
          /\ \A q \in Paths \ {p} : disk'[q] = disk[q]
          BY <1>0, <1>4, PlacingDoes DEF Placing
    <2>2. request'[r].pc = "placed" /\ request'[r].path = p
          BY <1>4 DEF Places
    <2>3. \A i \in Images, q \in Paths : disk[q] = i => disk'[q] = i
          BY <2>1
    <2>4. ASSUME NEW i \in Images, ImageIsClean(i) PROVE ImageIsClean(i)'
      <3>1. record[i] # None => record[i].path \in Paths
            BY <1>0 DEF FilesTyped, Record
      <3>2. ~PersistedFor(r, i)
            BY <1>1 DEF PersistedFor
      <3>3. QED
            BY <1>1, <2>3, <2>4, <3>1, <3>2, SameAt, SamePersisted, CleanImage
    <2>5. ASSUME NEW s \in Requests \ {r} PROVE TaskIsClean(s)'
      <3>1. request[s].pc = "placed" => /\ request[s].path \in Paths
                                        /\ disk[request[s].path] = Last(request[s].ids)
                                        /\ Last(request[s].ids) \in Images
            BY <1>0, IdTyped DEF CleanNow, TasksAreClean, TaskIsClean, TasksTyped, PathIsKnown, Task,
               TasksAreSound, TaskIsSound
      <3>2. request[s].pc = "placed" => disk'[request[s].path] = disk[request[s].path]
            BY <2>3, <3>1
      <3>3. request'[s] = request[s] /\ TaskIsClean(s)
            BY <1>1 DEF Others, CleanNow, TasksAreClean
      <3>4. QED
            BY <1>1, <3>2, <3>3, CleanTask
    <2>6. TaskIsClean(r)'
          BY <2>1, <2>2 DEF TaskIsClean
    <2>7. FoundIsAsRead'
          BY <1>1 DEF CleanNow, FoundIsAsRead
    <2>8. FileIsThere'
      <3>1. keeper.stage # None => Candidate.id \in Images /\ Candidate.record.path \in Paths
            BY <1>0, AtWork, CandidateIsFound
      <3>2. QED
            BY <1>1, <1>2, <2>3, <3>1 DEF CleanNow, FileIsThere, Intact
    <2>9. QED
          BY <1>1, <2>4, <2>5, <2>6, <2>7, <2>8 DEF CleanNow, ImagesAreClean, TasksAreClean
  <1>5. QED
        BY <1>1, <1>3, <1>4

LEMMA CleanOwn ==
  ASSUME IInv, CleanNow, NEW r \in Requests, Own(r), faults = 0, faults' = 0
  PROVE  CleanNow'
  <1> DEFINE id == Last(request[r].ids)
             path == request[r].path
  <1>0. /\ Typed /\ FilesTyped /\ IdsAreUnique /\ TasksAreSound /\ KeeperTyped /\ TaskIsSound(r)
        /\ FoundIsRecorded /\ TaskIsClean(r)
        BY DEF IInv, Typed, TasksAreSound, CleanNow, TasksAreClean
  <1>1. /\ Others(r) /\ request[r].pc = "placed" /\ path \in Paths
        /\ UNCHANGED <<disk, sidecar, keeper, crossed>>
        /\ Owns(id, path, FALSE) /\ request'[r].pc \in {"projecting", "attaching", "done"}
        BY <1>0, NoFault, OwnDoes
  <1>2. id \in IdsOf(r) /\ id \in Images /\ record[id] = None /\ disk[path] = id
        BY <1>0, <1>1, IdTyped DEF TaskIsSound, Typed, TaskIsClean
  <1>3. Candidate' = Candidate
        BY <1>1, CandidateStays
  <1>4. \A i \in Images : ~PersistedFor(r, i)
        BY <1>1 DEF PersistedFor
  <1> HIDE DEF id, path
  <1>5. /\ record'[id].path = path /\ ~record'[id].sidecar
        /\ \A i \in Images \ {id} : record'[i] = record[i]
    <2>1. FALSE \in BOOLEAN
          OBVIOUS
    <2>2. QED
          BY <1>0, <1>1, <1>2, <2>1, OwnsDoes
  <1>6. ASSUME NEW i \in Images, ImageIsClean(i) PROVE ImageIsClean(i)'
    <2>1. CASE i # id
          BY <1>1, <1>4, <1>5, <1>6, <2>1, SameAt, SamePersisted, CleanImage
    <2>2. CASE i = id
      <3>1. sidecar[i] # None => \E s \in Requests : PersistedFor(s, i)
            BY <1>2, <1>6, <2>2 DEF ImageIsClean
      <3>2. (\E s \in Requests : PersistedFor(s, i)) => (\E s \in Requests : PersistedFor(s, i))'
            BY <1>1, <1>4, SamePersisted
      <3>3. sidecar[i] \in {None, "own"} /\ (At({"file", "record"}, i) => sidecar[i] = None)
            BY <1>6 DEF ImageIsClean
      <3>4. At({"file", "record"}, i)' <=> At({"file", "record"}, i)
            BY <1>1, SameAt
      <3>5. QED
            BY <1>1, <1>2, <1>5, <2>2, <3>1, <3>2, <3>3, <3>4 DEF ImageIsClean, Intact
    <2>3. QED
          BY <2>1, <2>2
  <1>7. TasksAreClean'
    <2>1. TaskIsClean(r)'
          BY <1>1, CleanEnds
    <2>2. \A i \in Images : i \notin IdsOf(r) => record'[i] = record[i] /\ sidecar'[i] = sidecar[i]
          BY <1>1, <1>2, <1>5
    <2>3. QED
          BY <1>0, <1>1, <2>1, <2>2, CleanTasksBut DEF CleanNow
  <1>8. FoundIsAsRead'
    <2>1. \A c \in keeper.found : c.id \in Images /\ c.id # id
          BY <1>0, <1>2 DEF FoundIsRecorded, KeeperTyped, Keeper, Found
    <2>2. QED
          BY <1>1, <1>5, <2>1 DEF CleanNow, FoundIsAsRead
  <1>9. FileIsThere'
        BY <1>1, <1>3 DEF CleanNow, FileIsThere, Intact
  <1>10. QED
        BY <1>1, <1>6, <1>7, <1>8, <1>9 DEF CleanNow, ImagesAreClean

LEMMA CleanCheck ==
  ASSUME IInv, CleanNow, NEW r \in Requests, CheckOwner(r)
  PROVE  CleanNow'
  <1>0. Typed /\ IdsAreUnique /\ TasksAreSound
        BY DEF IInv
  <1>1. /\ Others(r) /\ SameTurn(r) /\ request[r].pc = "attaching" /\ CrossesHere(r)
        /\ UNCHANGED <<Files, keeper>>
        /\ \/ /\ record[Attaching(r)] # None /\ ~record[Attaching(r)].sidecar
              /\ request'[r].pc = "checked"
           \/ request'[r].pc = "failed"
        BY <1>0, CheckOwnerDoes DEF Ends
  <1>2. Attaching(r)' = Attaching(r) /\ crossed \subseteq crossed' /\ UNCHANGED record
        BY <1>1 DEF SameTurn, SameImages, Attaching, CrossesHere, Files
  <1>3. TaskIsClean(r)'
        BY <1>1, <1>2 DEF TaskIsClean
  <1>4. QED
        BY <1>0, <1>1, <1>2, <1>3, CleanTurn

(* Where a cleanup is under way its image counts as crossed.                 *)
LEMMA NotCrossedIsAlone ==
  ASSUME Typed, NEW r \in Requests, CrossesHere(r), Attaching(r) \notin crossed'
  PROVE  keeper.pc = "off" /\ keeper.stage = None
  BY DEF CrossesHere, Typed, KeeperTyped

LEMMA CleanPersist ==
  ASSUME IInv, CleanNow, NEW r \in Requests, PersistSidecar(r), faults = 0, faults' = 0
  PROVE  CleanNow'
  <1> DEFINE id == Attaching(r)
  <1>0. /\ Typed /\ FilesTyped /\ IdsAreUnique /\ TasksAreSound /\ KeeperTyped /\ TaskIsSound(r)
        /\ TaskIsClean(r)
        BY DEF IInv, Typed, TasksAreSound, CleanNow, TasksAreClean
  <1>1. /\ Others(r) /\ SameTurn(r) /\ request[r].pc = "checked" /\ id \in Images
        /\ CrossesHere(r) /\ UNCHANGED <<disk, record, keeper>>
        /\ \/ sidecar' = [sidecar EXCEPT ![id] = "own"] /\ request'[r].pc = "persisted"
           \/ UNCHANGED sidecar /\ request'[r].pc = "failed"
        BY <1>0, NoFault, PersistSidecarDoes DEF Ends
  <1>2. id' = id /\ crossed \subseteq crossed' /\ Candidate' = Candidate
        BY <1>1, CandidateStays DEF SameTurn, SameImages, Attaching, CrossesHere
  <1>3. id \in IdsOf(r)
        BY <1>0, <1>1, IdTyped DEF TaskIsSound, Typed
  <1>4. id \notin crossed' => keeper.stage = None /\ keeper'.stage = None
        BY <1>0, <1>1, NotCrossedIsAlone
  <1>5. CASE UNCHANGED sidecar /\ request'[r].pc = "failed"
    <2>1. TaskIsClean(r)'
          BY <1>5, CleanEnds
    <2>2. QED
          BY <1>0, <1>1, <1>2, <1>5, <2>1, CleanTurn DEF Files
  <1>6. CASE sidecar' = [sidecar EXCEPT ![id] = "own"] /\ request'[r].pc = "persisted"
    <2>1. \A i \in Images : ~PersistedFor(r, i)
          BY <1>1 DEF PersistedFor
    <2>2. \A i \in Images : i = id => PersistedFor(r, i)'
      <3>1. request'[r].pc = "persisted" /\ Attaching(r)' = Attaching(r)
            BY <1>2, <1>6
      <3>2. QED
            BY <3>1 DEF PersistedFor
    <2>3. id \notin crossed' => record[id] # None /\ ~record[id].sidecar
          BY <1>0, <1>1, <1>2 DEF TaskIsClean
    <2> HIDE DEF id
    <2>4. sidecar'[id] = "own" /\ \A i \in Images \ {id} : sidecar'[i] = sidecar[i]
          BY <1>0, <1>1, <1>6 DEF FilesTyped
    <2>5. ASSUME NEW i \in Images \ crossed', ImageIsClean(i) PROVE ImageIsClean(i)'
      <3>1. CASE i # id
            BY <1>1, <2>1, <2>4, <2>5, <3>1, SameAt, SamePersisted, CleanImage
      <3>2. CASE i = id
        <4>1. /\ ~At({"record"}, i) /\ ~At({"file", "record"}, i)
              /\ ~At({"record"}, i)' /\ ~At({"file", "record"}, i)'
              BY <1>4, <3>2, NotAt
        <4>2. record[i] # None => Intact(i, record[i])
              BY <2>5, <4>1 DEF ImageIsClean
        <4>3. record'[i] # None => Intact(i, record[i])'
              BY <1>1, <4>2 DEF Intact
        <4>4. (\E s \in Requests : PersistedFor(s, i))' /\ sidecar'[i] = "own"
              BY <2>2, <2>4, <3>2
        <4>5. QED
              BY <4>1, <4>3, <4>4 DEF ImageIsClean
      <3>3. QED
            BY <3>1, <3>2
    <2>6. TaskIsClean(r)'
      <3>1. request'[r].pc = "persisted" /\ record' = record
            BY <1>1, <1>6
      <3>2. QED
            BY <1>2, <2>3, <2>4, <3>1 DEF TaskIsClean, id
    <2>7. TasksAreClean'
      <3>1. \A i \in Images : i \notin IdsOf(r) => record'[i] = record[i] /\ sidecar'[i] = sidecar[i]
            BY <1>1, <1>3, <2>4
      <3>2. QED
            BY <1>0, <1>1, <1>2, <2>6, <3>1, CleanTasksBut DEF CleanNow
    <2>8. FoundIsAsRead' /\ FileIsThere'
          BY <1>1, <1>2 DEF CleanNow, FoundIsAsRead, FileIsThere, Intact
    <2>9. QED
          BY <1>2, <2>5, <2>7, <2>8 DEF CleanNow, ImagesAreClean
  <1>7. QED
        BY <1>1, <1>5, <1>6

LEMMA CleanReplace ==
  ASSUME IInv, CleanNow, NEW r \in Requests, ReplaceRecord(r), faults = 0, faults' = 0
  PROVE  CleanNow'
  <1> DEFINE id == Attaching(r)
             path == request[r].path
  <1>0. /\ Typed /\ FilesTyped /\ IdsAreFresh /\ IdsAreUnique /\ TasksAreSound /\ KeeperTyped
        /\ TaskIsSound(r) /\ TaskIsClean(r) /\ FoundIsRecorded
        BY DEF IInv, Typed, TasksAreSound, CleanNow, TasksAreClean
  <1>1. /\ Others(r) /\ request[r].pc = "persisted" /\ id \in Images /\ path \in Paths
        /\ CrossesHere(r) /\ UNCHANGED <<disk, sidecar, keeper>>
        /\ Owns(id, path, TRUE) /\ request'[r].pc \in {"attaching", "done"}
        BY <1>0, NoFault, ReplaceRecordDoes
  <1>2. crossed \subseteq crossed' /\ Candidate' = Candidate
        BY <1>1, CandidateStays DEF CrossesHere
  <1>3. id \in IdsOf(r)
        BY <1>0, <1>1, IdTyped DEF TaskIsSound, Typed
  <1>4. id \notin crossed' => keeper.pc = "off" /\ keeper.stage = None /\ keeper'.stage = None
        BY <1>0, <1>1, NotCrossedIsAlone
  <1>5. id \notin crossed' => /\ record[id] # None /\ record[id].path = path
                              /\ sidecar[id] = "own"
        BY <1>0, <1>1, <1>2 DEF TaskIsClean, TaskIsSound
  <1>6. \A i \in Images : i # id => ~PersistedFor(r, i)
        BY DEF PersistedFor
  <1> HIDE DEF id, path
  <1>7. /\ record'[id].path = path /\ record'[id].sidecar /\ record'[id] # None
        /\ \A i \in Images \ {id} : record'[i] = record[i]
    <2>1. TRUE \in BOOLEAN
          OBVIOUS
    <2>2. QED
          BY <1>0, <1>1, <2>1, OwnsDoes
  <1>8. ASSUME NEW i \in Images \ crossed', ImageIsClean(i) PROVE ImageIsClean(i)'
    <2>1. CASE i # id
          BY <1>1, <1>6, <1>7, <1>8, <2>1, SameAt, SamePersisted, CleanImage
    <2>2. CASE i = id
      <3>1. /\ ~At({"record"}, i) /\ ~At({"file", "record"}, i)
            /\ ~At({"record"}, i)' /\ ~At({"file", "record"}, i)'
            BY <1>4, <2>2, NotAt
      <3>2. disk[path] = i
            BY <1>5, <1>8, <2>2, <3>1 DEF ImageIsClean, Intact
      <3>3. QED
            BY <1>1, <1>5, <1>7, <2>2, <3>1, <3>2 DEF ImageIsClean, Intact
    <2>3. QED
          BY <2>1, <2>2
  <1>9. TasksAreClean'
    <2>1. TaskIsClean(r)'
          BY <1>1, CleanEnds
    <2>2. \A i \in Images : i \notin IdsOf(r) => record'[i] = record[i] /\ sidecar'[i] = sidecar[i]
          BY <1>1, <1>3, <1>7
    <2>3. QED
          BY <1>0, <1>1, <1>2, <2>1, <2>2, CleanTasksBut DEF CleanNow
  <1>10. FoundIsAsRead'
    <2>1. ASSUME NEW c \in keeper.found, c.id \notin crossed' PROVE record'[c.id] = c.record
      <3>1. keeper.pc # "off" /\ c.id \in Images
            BY <1>0, <2>1 DEF FoundIsRecorded, KeeperTyped, Keeper, Found
      <3>2. c.id # id
            BY <1>4, <2>1, <3>1
      <3>3. record[c.id] = c.record
            BY <1>2, <2>1 DEF CleanNow, FoundIsAsRead
      <3>4. QED
            BY <1>7, <3>1, <3>2, <3>3
    <2>2. QED
          BY <1>1, <2>1 DEF FoundIsAsRead
  <1>11. FileIsThere'
        BY <1>1, <1>2 DEF CleanNow, FileIsThere, Intact
  <1>12. QED
        BY <1>2, <1>8, <1>9, <1>10, <1>11 DEF CleanNow, ImagesAreClean

(* Steps of the commands: no request moves.                                  *)
LEMMA CleanKeeper ==
  ASSUME Typed, CleanNow, UNCHANGED <<disk, request>>, crossed \subseteq crossed',
         keeper.stage \in {None, "sidecar"}, keeper'.stage = None,
         \A i \in Images \ crossed' : record'[i] = record[i] /\ sidecar'[i] = sidecar[i],
         \A r \in Requests : request[r].pc \in {"checked", "persisted"} /\ Attaching(r) \notin crossed'
            => Attaching(r) \in Images,
         FoundIsAsRead'
  PROVE  CleanNow'
  <1>1. ASSUME NEW i \in Images \ crossed' PROVE ImageIsClean(i)'
    <2>1. /\ ~At({"record"}, i) /\ ~At({"file", "record"}, i)
          /\ ~At({"record"}, i)' /\ ~At({"file", "record"}, i)'
          BY NotAt
    <2>2. ImageIsClean(i) /\ record'[i] = record[i] /\ sidecar'[i] = sidecar[i]
          BY <1>1 DEF CleanNow, ImagesAreClean
    <2>3. (\E r \in Requests : PersistedFor(r, i)) => (\E r \in Requests : PersistedFor(r, i))'
          BY DEF PersistedFor, Attaching
    <2>4. QED
          BY <2>1, <2>2, <2>3, CleanImage
  <1>2. ASSUME NEW r \in Requests PROVE TaskIsClean(r)'
        BY CleanTask DEF CleanNow, TasksAreClean
  <1>3. FileIsThere'
        BY DEF FileIsThere
  <1>4. QED
        BY <1>1, <1>2, <1>3 DEF CleanNow, ImagesAreClean, TasksAreClean

LEMMA AttachingIsTyped ==
  ASSUME Typed, TasksAreSound, NEW r \in Requests, request[r].pc \in {"checked", "persisted"}
  PROVE  Attaching(r) \in Images
  BY IdTyped DEF Typed, TasksAreSound, TaskIsSound

LEMMA CleanEmpty ==
  ASSUME IInv, CleanNow, UNCHANGED <<Files, request>>, crossed \subseteq crossed', IsEmpty',
         keeper.stage = None
  PROVE  CleanNow'
  <1>1. Typed /\ TasksAreSound
        BY DEF IInv
  <1>2. FoundIsAsRead' /\ keeper'.stage = None
        BY DEF FoundIsAsRead, IsEmpty
  <1>3. QED
        BY <1>1, <1>2, CleanKeeper, AttachingIsTyped DEF Files

LEMMA CleanScan ==
  ASSUME IInv, CleanNow, (\E i \in Images : ScanOne(i)) \/ ScanEnd
  PROVE  CleanNow'
  <1>1. Typed /\ TasksAreSound /\ KeeperTyped
        BY DEF IInv, Typed
  <1>2. /\ UNCHANGED <<Files, request, crossed>> /\ keeper.stage = None /\ keeper'.stage = None
        /\ \A c \in keeper'.found : c \in keeper.found \/ record[c.id] = c.record
    <2>1. ASSUME NEW i \in Images, ScanOne(i)
          PROVE  /\ UNCHANGED <<Files, request, crossed>> /\ keeper.stage = None /\ keeper'.stage = None
                 /\ keeper'.found \subseteq keeper.found \cup {[id |-> i, record |-> record[i]]}
          BY <1>1, <2>1, ScanOneDoes
    <2>2. \A i \in Images : LET c == [id |-> i, record |-> record[i]] IN record[c.id] = c.record
          OBVIOUS
    <2>3. CASE ScanEnd
          BY <1>1, <2>3, ScanEndDoes
    <2>4. QED
          BY <2>1, <2>2, <2>3
  <1>3. FoundIsAsRead'
        BY <1>2 DEF CleanNow, FoundIsAsRead, Files
  <1>4. QED
        BY <1>1, <1>2, <1>3, CleanKeeper, AttachingIsTyped DEF Files

LEMMA CleanSkip ==
  ASSUME IInv, CleanNow, UNCHANGED <<Files, request, crossed>>, Skips,
         keeper.stage \in {None, "sidecar"}
  PROVE  CleanNow'
  <1>1. Typed /\ TasksAreSound
        BY DEF IInv
  <1>2. FoundIsAsRead' /\ keeper'.stage = None
        BY DEF CleanNow, FoundIsAsRead, Files, Skips
  <1>3. QED
        BY <1>1, <1>2, CleanKeeper, AttachingIsTyped DEF Files

(* A repair finds nothing to do but where metadata was attached during a     *)
(* cleanup.                                                                  *)
LEMMA CleanRepair ==
  ASSUME IInv, CleanNow, NEW j \in Images, RepairOne(j), faults = 0, faults' = 0
  PROVE  CleanNow'
  <1>0. Typed /\ FilesTyped /\ TasksAreSound /\ KeeperTyped /\ FoundIsRecorded
        BY DEF IInv, Typed
  <1>1. /\ UNCHANGED <<disk, request, crossed>> /\ keeper.pc = "repairing" /\ keeper.stage = None
        /\ keeper'.found = keeper.found /\ keeper'.stage = None /\ record[j] \in Record
        /\ \/ Mends(j)
           \/ Clears(j) /\ record' = [record EXCEPT ![j] = None]
           \/ UNCHANGED <<record, sidecar>>
        BY <1>0, NoFault, RepairOneDoes
  <1>2. FoundIsAsRead'
        BY <1>0, <1>1 DEF FoundIsRecorded, FoundIsAsRead
  <1>3. \A i \in Images \ {j} : record'[i] = record[i] /\ sidecar'[i] = sidecar[i]
        BY <1>0, <1>1 DEF FilesTyped, Mends, Clears
  <1>4. ASSUME j \notin crossed PROVE UNCHANGED <<record, sidecar>>
    <2>1. ImageIsClean(j) /\ ~At({"record"}, j) /\ ~At({"file", "record"}, j)
          BY <1>1, <1>4, NotAt DEF CleanNow, ImagesAreClean
    <2>2. record[j] # None
          BY <1>1 DEF Record
    <2>3. disk[record[j].path] = j /\ (record[j].sidecar => sidecar[j] = "own")
          BY <2>1, <2>2 DEF ImageIsClean, Intact
    <2>4. SidecarState(j, record[j]) # "missing"
          BY <2>3 DEF SidecarState
    <2>5. disk[record[j].path] # None
          BY <2>3
    <2>6. QED
          BY <1>1, <2>4, <2>5 DEF Mends, Clears
  <1>5. \A i \in Images \ crossed : record'[i] = record[i] /\ sidecar'[i] = sidecar[i]
        BY <1>3, <1>4
  <1>6. QED
        BY <1>0, <1>1, <1>2, <1>5, CleanKeeper, AttachingIsTyped

(* The removal of one image.                                                 *)
LEMMA AtAdvances ==
  ASSUME NEW i, NEW stage, Advances(stage)
  PROVE  /\ At({"record"}, i)' <=> stage = "record" /\ Candidate.id = i
         /\ At({"file", "record"}, i)' <=> stage \in {"file", "record"} /\ Candidate.id = i
  BY DEF Advances, At

LEMMA CleanVerify ==
  ASSUME IInv, CleanNow, Verify
  PROVE  CleanNow'
  <1>1. Typed /\ KeeperTyped
        BY DEF IInv, Typed
  <1>2. /\ UNCHANGED <<Files, request, crossed>> /\ keeper.stage = None
        /\ (Verified(Candidate.id, Candidate.record) /\ Advances("sidecar")) \/ Skips
        BY <1>1, VerifyDoes
  <1>3. CASE Verified(Candidate.id, Candidate.record) /\ Advances("sidecar")
    <2>1. UNCHANGED <<disk, sidecar, record, request, crossed>> /\ Candidate' = Candidate
          /\ keeper'.found = keeper.found /\ keeper'.stage = "sidecar"
          BY <1>2, <1>3 DEF Files, Advances
    <2>2. ASSUME NEW i \in Images, ImageIsClean(i) PROVE ImageIsClean(i)'
      <3>1. /\ ~At({"record"}, i) /\ ~At({"file", "record"}, i)
            /\ ~At({"record"}, i)' /\ ~At({"file", "record"}, i)'
            BY <1>2, <2>1, NotAt
      <3>2. (\E r \in Requests : PersistedFor(r, i)) => (\E r \in Requests : PersistedFor(r, i))'
            BY <2>1 DEF PersistedFor, Attaching
      <3>3. QED
            BY <2>1, <2>2, <3>1, <3>2, CleanImage
    <2>3. \A r \in Requests : TaskIsClean(r) => TaskIsClean(r)'
          BY <2>1, CleanTask
    <2>4. FoundIsAsRead' /\ FileIsThere'
          BY <1>3, <2>1 DEF CleanNow, FoundIsAsRead, FileIsThere, Intact, Verified
    <2>5. QED
          BY <2>1, <2>2, <2>3, <2>4 DEF CleanNow, ImagesAreClean, TasksAreClean
  <1>4. CASE Skips
        BY <1>2, <1>4, CleanSkip
  <1>5. QED
        BY <1>2, <1>3, <1>4

LEMMA CandidateIsNotAttached ==
  ASSUME IInv, keeper.stage # None, NEW r \in Requests,
         request[r].pc \in {"checked", "persisted"}, Attaching(r) \notin crossed
  PROVE  FALSE
  BY AtWork DEF IInv, Typed, CrossedIsNoted

LEMMA CleanRemoveSidecar ==
  ASSUME IInv, CleanNow, RemoveSidecar
  PROVE  CleanNow'
  <1> DEFINE id == Candidate.id
  <1>0. Typed /\ KeeperTyped /\ FilesTyped /\ TasksAreSound
        BY DEF IInv, Typed
  <1>1. /\ UNCHANGED <<disk, record, request, crossed>> /\ keeper.stage = "sidecar" /\ keeper.found # {}
        /\ \/ ~Candidate.record.sidecar /\ UNCHANGED sidecar /\ Advances("file")
           \/ UNCHANGED sidecar /\ Skips
           \/ sidecar' = [sidecar EXCEPT ![id] = None] /\ Advances("file")
        BY <1>0, RemoveSidecarDoes
  <1>2. Candidate \in keeper.found /\ id \in Images
        BY <1>0, <1>1, CandidateIsFound
  <1>3. CASE UNCHANGED sidecar /\ Skips
        BY <1>1, <1>3, CleanSkip DEF Files
  <1>4. CASE /\ Advances("file")
             /\ \/ ~Candidate.record.sidecar /\ UNCHANGED sidecar
                \/ sidecar' = [sidecar EXCEPT ![id] = None]
    <2>1. Candidate' = Candidate /\ keeper'.found = keeper.found /\ keeper'.stage = "file"
          BY <1>4 DEF Advances
    <2>2. \A i \in Images \ {id} : sidecar'[i] = sidecar[i]
          BY <1>0, <1>4 DEF FilesTyped
    <2>3. \A r \in Requests : ~(request[r].pc = "persisted" /\ Attaching(r) \notin crossed)
          BY <1>1, CandidateIsNotAttached
    <2>4. id \notin crossed => sidecar'[id] = None
      <3>1. CASE ~Candidate.record.sidecar /\ UNCHANGED sidecar
        <4> SUFFICES ASSUME id \notin crossed PROVE sidecar[id] = None
              BY <3>1
        <4>1. record[id] = Candidate.record /\ ImageIsClean(id)
              BY <1>2 DEF CleanNow, FoundIsAsRead, ImagesAreClean
        <4>2. \A r \in Requests : ~PersistedFor(r, id)
              BY <2>3 DEF PersistedFor
        <4>3. QED
              BY <3>1, <4>1, <4>2 DEF ImageIsClean
      <3>2. CASE sidecar' = [sidecar EXCEPT ![id] = None]
            BY <1>0, <1>2, <3>2 DEF FilesTyped
      <3>3. QED
            BY <1>4, <3>1, <3>2
    <2>5. ASSUME NEW i \in Images \ crossed PROVE ImageIsClean(i)'
      <3>1. ImageIsClean(i) /\ ~At({"record"}, i) /\ ~At({"file", "record"}, i)
            BY <1>1, <2>5, NotAt DEF CleanNow, ImagesAreClean
      <3>2. ~At({"record"}, i)' /\ (At({"file", "record"}, i)' <=> id = i)
            BY <1>4, AtAdvances
      <3>3. CASE i # id
        <4>1. (\E r \in Requests : PersistedFor(r, i)) => (\E r \in Requests : PersistedFor(r, i))'
              BY <1>1 DEF PersistedFor, Attaching
        <4>2. QED
              BY <1>1, <2>2, <3>1, <3>2, <3>3, <4>1, CleanImage
      <3>4. CASE i = id
        <4>1. sidecar'[i] = None
              BY <2>4, <2>5, <3>4
        <4>2. record[i] # None => Intact(i, record[i])
              BY <3>1 DEF ImageIsClean
        <4>3. record'[i] # None => Intact(i, record[i])'
              BY <1>1, <4>2 DEF Intact
        <4>4. QED
              BY <3>2, <3>4, <4>1, <4>3 DEF ImageIsClean
      <3>5. QED
            BY <3>3, <3>4
    <2>6. ASSUME NEW r \in Requests PROVE TaskIsClean(r)'
      <3>1. ~(request[r].pc \in {"checked", "persisted"} /\ Attaching(r) \notin crossed)
            BY <1>1, CandidateIsNotAttached
      <3>2. QED
            BY <1>1, <3>1, CleanTask DEF CleanNow, TasksAreClean
    <2>7. FoundIsAsRead' /\ FileIsThere'
          BY <1>1, <2>1 DEF CleanNow, FoundIsAsRead, FileIsThere, Intact
    <2>8. QED
          BY <1>1, <2>5, <2>6, <2>7 DEF CleanNow, ImagesAreClean, TasksAreClean
  <1>5. QED
        BY <1>1, <1>3, <1>4

LEMMA CleanRemoveFile ==
  ASSUME IInv, CleanNow, RemoveFile
  PROVE  CleanNow'
  <1> DEFINE id == Candidate.id
             path == Candidate.record.path
  <1>0. /\ Typed /\ KeeperTyped /\ FilesTyped /\ TasksTyped /\ TasksAreSound /\ FoundIsRecorded
        /\ IdsAreUnique
        BY DEF IInv, Typed
  <1>1. /\ UNCHANGED <<sidecar, record, request, crossed>> /\ keeper.stage = "file" /\ keeper.found # {}
        /\ \/ disk[path] = None
           \/ disk' = [disk EXCEPT ![path] = None] /\ Advances("record")
        BY <1>0, RemoveFileDoes
  <1>2. Candidate \in keeper.found /\ id \in Images /\ path \in Paths
        BY <1>0, <1>1, CandidateIsFound
  <1>3. disk[path] = id
        BY <1>1 DEF CleanNow, FileIsThere, Intact
  <1>4. record[id] # None
        BY <1>0, <1>2 DEF FoundIsRecorded
  <1>5. disk' = [disk EXCEPT ![path] = None] /\ Advances("record")
        BY <1>1, <1>2, <1>3
  <1>6. \A q \in Paths \ {path} : disk'[q] = disk[q]
        BY <1>0, <1>5 DEF FilesTyped
  <1>7. keeper'.found = keeper.found /\ keeper'.stage = "record"
        BY <1>5 DEF Advances
  <1>8. ASSUME NEW i \in Images \ crossed PROVE ImageIsClean(i)'
    <2>1. ImageIsClean(i) /\ ~At({"record"}, i) /\ (At({"file", "record"}, i) <=> id = i)
          BY <1>1, <1>8 DEF CleanNow, ImagesAreClean, At
    <2>2. (At({"record"}, i)' <=> id = i) /\ (At({"file", "record"}, i)' <=> id = i)
          BY <1>5, AtAdvances
    <2>3. (\E r \in Requests : PersistedFor(r, i)) => (\E r \in Requests : PersistedFor(r, i))'
          BY <1>1 DEF PersistedFor, Attaching
    <2>4. CASE i # id
      <3>1. record[i] # None => record[i].path \in Paths
            BY <1>0 DEF FilesTyped, Record
      <3>2. record[i] # None /\ disk[record[i].path] = i => disk'[record[i].path] = i
            BY <1>3, <1>6, <2>4, <3>1
      <3>3. QED
            BY <1>1, <2>1, <2>2, <2>3, <2>4, <3>2, CleanImage
    <2>5. CASE i = id
      <3>1. /\ sidecar[i] = None
            /\ record[i] # None /\ record[i].sidecar /\ ~At({"file", "record"}, i) => sidecar[i] = "own"
            BY <2>1, <2>5 DEF ImageIsClean
      <3>2. sidecar'[i] = None /\ At({"record"}, i)' /\ At({"file", "record"}, i)'
            BY <1>1, <2>2, <2>5, <3>1
      <3>3. QED
            BY <3>2 DEF ImageIsClean
    <2>6. QED
          BY <2>4, <2>5
  <1>9. ASSUME NEW r \in Requests PROVE TaskIsClean(r)'
    <2>1. ~(request[r].pc \in {"checked", "persisted"} /\ Attaching(r) \notin crossed)
          BY <1>1, CandidateIsNotAttached
    <2>2. TaskIsClean(r)
          BY DEF CleanNow, TasksAreClean
    <2>3. request[r].pc = "placed" => disk'[request[r].path] = disk[request[r].path]
      <3> SUFFICES ASSUME request[r].pc = "placed"
                   PROVE  disk'[request[r].path] = disk[request[r].path]
            OBVIOUS
      <3>1. /\ record[Last(request[r].ids)] = None /\ disk[request[r].path] = Last(request[r].ids)
            BY <1>0, <2>2 DEF TasksAreSound, TaskIsSound, TaskIsClean
      <3>2. request[r].path \in Paths
            BY <1>0 DEF TasksTyped, PathIsKnown, Task
      <3>3. request[r].path # path
            BY <1>3, <1>4, <3>1
      <3>4. QED
            BY <1>6, <3>2, <3>3
    <2>4. QED
          BY <1>1, <2>1, <2>2, <2>3, CleanTask
  <1>10. FoundIsAsRead' /\ FileIsThere'
        BY <1>1, <1>7 DEF CleanNow, FoundIsAsRead, FileIsThere
  <1>11. QED
        BY <1>1, <1>8, <1>9, <1>10 DEF CleanNow, ImagesAreClean, TasksAreClean

LEMMA CleanRemoveRecord ==
  ASSUME IInv, CleanNow, RemoveRecord
  PROVE  CleanNow'
  <1> DEFINE id == Candidate.id
  <1>0. Typed /\ KeeperTyped /\ FilesTyped /\ TasksAreSound /\ FoundIsRecorded
        BY DEF IInv, Typed
  <1>1. /\ UNCHANGED <<disk, sidecar, request, crossed>> /\ keeper.stage = "record" /\ keeper.found # {}
        /\ Skips /\ record' = [record EXCEPT ![id] = None]
        BY <1>0, RemoveRecordDoes
  <1>2. Candidate \in keeper.found /\ id \in Images
        BY <1>0, <1>1, CandidateIsFound
  <1>3. record'[id] = None /\ \A i \in Images \ {id} : record'[i] = record[i]
        BY <1>0, <1>1, <1>2 DEF FilesTyped
  <1>4. ASSUME NEW i \in Images \ crossed PROVE ImageIsClean(i)'
    <2>1. ImageIsClean(i) /\ (At({"record"}, i) <=> id = i) /\ (At({"file", "record"}, i) <=> id = i)
          BY <1>1, <1>4 DEF CleanNow, ImagesAreClean, At
    <2>2. ~At({"record"}, i)' /\ ~At({"file", "record"}, i)'
          BY <1>1, NotAt DEF Skips
    <2>3. (\E r \in Requests : PersistedFor(r, i)) => (\E r \in Requests : PersistedFor(r, i))'
          BY <1>1 DEF PersistedFor, Attaching
    <2>4. CASE i # id
          BY <1>1, <1>3, <2>1, <2>2, <2>3, <2>4, CleanImage
    <2>5. CASE i = id
      <3>1. sidecar[i] = None
            BY <2>1, <2>5 DEF ImageIsClean
      <3>2. sidecar'[i] = None /\ record'[i] = None
            BY <1>1, <1>3, <2>5, <3>1
      <3>3. QED
            BY <2>2, <3>2 DEF ImageIsClean
    <2>6. QED
          BY <2>4, <2>5
  <1>5. ASSUME NEW r \in Requests PROVE TaskIsClean(r)'
    <2>1. ~(request[r].pc \in {"checked", "persisted"} /\ Attaching(r) \notin crossed)
          BY <1>1, CandidateIsNotAttached
    <2>2. QED
          BY <1>1, <2>1, CleanTask DEF CleanNow, TasksAreClean
  <1>6. FoundIsAsRead'
    <2>1. \A c \in keeper'.found : c \in keeper.found /\ c.id # id /\ c.id \in Images
          BY <1>0, <1>1, <1>2 DEF Skips, FoundIsRecorded, KeeperTyped, Keeper, Found
    <2>2. QED
          BY <1>1, <1>3, <2>1 DEF CleanNow, FoundIsAsRead
  <1>7. FileIsThere'
        BY <1>1 DEF Skips, FileIsThere
  <1>8. QED
        BY <1>1, <1>4, <1>5, <1>6, <1>7 DEF CleanNow, ImagesAreClean, TasksAreClean

LEMMA CleanStep ==
  ASSUME IInv, [Next]_vars
  PROVE  CleanSoFar'
  <1> SUFFICES ASSUME faults' = 0 PROVE CleanNow'
        BY DEF CleanSoFar
  <1>0. Typed /\ KeeperTyped /\ TasksAreSound /\ IdsAreUnique /\ TasksTyped
        BY DEF IInv, Typed
  <1>1. faults = 0
    <2>1. UNCHANGED faults \/ Fault
      <3>1. \A i \in Images : RepairOne(i) => UNCHANGED faults \/ Fault
            BY <1>0, RepairOneDoes DEF Mends
      <3>2. CASE Next
            BY <3>1, <3>2 DEF Next, Materialize, Place, Own, CheckOwner, PersistSidecar, ReplaceRecord,
               BridgeDies, CleanupBegin, ScanOne, ScanEnd, Verify, RemoveSidecar, RemoveFile,
               RemoveRecord, CleanupEnd, RepairBegin, RepairEnd, KeeperDies, UserEdits
      <3>3. QED
            BY <3>2 DEF vars
    <2>2. faults \in Nat
          BY <1>0 DEF Typed, CountsTyped
    <2>3. QED
          BY <2>1, <2>2 DEF Fault
  <1>2. ~Fault /\ CleanNow
        BY <1>0, <1>1, NoFault DEF IInv, CleanSoFar
  <1>3. keeper.stage # None => keeper.pc = "removing"
        BY <1>0, AtWork
  <1>4. ASSUME NEW r \in Requests, Materialize(r) PROVE CleanNow'
    <2>1. /\ Others(r) /\ request[r].pc = "idle" /\ request'[r].pc \in {"projecting", "failed"}
          /\ UNCHANGED <<Files, keeper, crossed>>
          BY <1>0, <1>4, MaterializeDoes
    <2>2. TaskIsClean(r)'
          BY <2>1, CleanEnds
    <2>3. QED
          BY <1>0, <1>2, <2>1, <2>2, CleanTurn
  <1>5. ASSUME NEW r \in Requests,
               Place(r) \/ Own(r) \/ CheckOwner(r) \/ PersistSidecar(r) \/ ReplaceRecord(r)
        PROVE  CleanNow'
        BY <1>1, <1>2, <1>5, CleanPlace, CleanOwn, CleanCheck, CleanPersist, CleanReplace
  <1>6. CASE BridgeDies \/ KeeperDies \/ UserEdits
        BY <1>2, <1>6 DEF BridgeDies, KeeperDies, UserEdits
  <1>7. ASSUME NEW old \in 0..MaxImages, NEW max \in {None, 1}, CleanupBegin(old, max) PROVE CleanNow'
    <2>1. UNCHANGED <<Files, request>> /\ crossed \subseteq crossed' /\ IsEmpty' /\ keeper.stage = None
          BY <1>0, <1>3, <1>7, CleanupBeginDoes
    <2>2. QED
          BY <1>2, <2>1, CleanEmpty
  <1>8. CASE CleanupEnd \/ RepairEnd
    <2>1. UNCHANGED <<Files, request, crossed>> /\ keeper' = NoKeeper
          BY <1>8 DEF CleanupEnd, RepairEnd
    <2>2. keeper.stage = None
          BY <1>0, <1>3, <1>8, AtWork DEF CleanupEnd, RepairEnd
    <2>3. QED
          BY <1>2, <2>1, <2>2, CleanEmpty, OffDoes
  <1>9. CASE RepairBegin
    <2>1. UNCHANGED <<Files, request, crossed>> /\ IsEmpty' /\ keeper.stage = None
          BY <1>3, <1>9, RepairBeginDoes
    <2>2. QED
          BY <1>2, <2>1, CleanEmpty
  <1>10. CASE (\E i \in Images : ScanOne(i)) \/ ScanEnd
        BY <1>2, <1>10, CleanScan
  <1>11. ASSUME NEW i \in Images, RepairOne(i) PROVE CleanNow'
        BY <1>1, <1>2, <1>11, CleanRepair
  <1>12. CASE Verify \/ RemoveSidecar \/ RemoveFile \/ RemoveRecord
        BY <1>2, <1>12, CleanVerify, CleanRemoveSidecar, CleanRemoveFile, CleanRemoveRecord
  <1>13. CASE UNCHANGED vars
        BY <1>2, <1>13, CleanSame DEF vars, Files
  <1>14. QED
        BY <1>4, <1>5, <1>6, <1>7, <1>8, <1>9, <1>10, <1>11, <1>12, <1>13 DEF Next

-----------------------------------------------------------------------------
LEMMA InitInv == Init => IInv
  <1> SUFFICES ASSUME Init PROVE IInv
        OBVIOUS
  <1>1. PICK w \in Wants : request = [r \in Requests |-> NoTask(w[r])]
        BY DEF Init
  <1>2. ASSUME NEW r \in Requests
        PROVE  /\ request[r] \in Task /\ PathIsKnown(request[r]) /\ IdsOf(r) = {}
               /\ request[r].pc = "idle" /\ request[r].at = 1 /\ Len(request[r].ids) = 0
    <2>1. request[r] = [want |-> w[r], pc |-> "idle", ids |-> <<>>, at |-> 1, path |-> None]
          BY <1>1 DEF NoTask
    <2>2. w[r] \in Want /\ 1 \in 1..MaxImages
          OBVIOUS
    <2>3. request[r] \in Task
          BY <2>1, <2>2 DEF Task
    <2>4. request[r].pc = "idle" /\ request[r].at = 1 /\ request[r].ids = <<>> /\ request[r].path = None
          BY <2>1
    <2>5. Len(request[r].ids) = 0
          BY <2>4
    <2>6. IdsOf(r) = {}
          BY <2>5 DEF IdsOf
    <2>7. QED
          BY <2>3, <2>4, <2>5, <2>6 DEF PathIsKnown
  <1>3. /\ next = 1 /\ crossed = {} /\ faults = 0 /\ IsEmpty /\ keeper.pc = "off"
        /\ \A p \in Paths : disk[p] = None
        /\ \A i \in Images : record[i] = None /\ sidecar[i] = None
        BY DEF Init, NoKeeper, IsEmpty
  <1>4. Typed
    <2>1. FilesTyped
          BY DEF Init, FilesTyped
    <2>2. TasksTyped
          BY <1>1, <1>2 DEF TasksTyped
    <2>3. KeeperTyped
          BY DEF Init, NoKeeper, KeeperTyped, Keeper
    <2>4. CountsTyped
          BY <1>3 DEF CountsTyped
    <2>5. QED
          BY <2>1, <2>2, <2>3, <2>4 DEF Typed
  <1>5. IdsAreFresh /\ IdsAreUnique
        BY <1>2, <1>3 DEF IdsAreFresh, IdsAreUnique
  <1>6. TasksAreSound
        BY <1>2 DEF TasksAreSound, TaskIsSound
  <1>7. FoundIsRecorded /\ RemovalIsSound /\ DoomedIsOld /\ RepairSoFar /\ CrossedIsNoted
        BY <1>3 DEF FoundIsRecorded, RemovalIsSound, DoomedIsOld, RepairSoFar, CrossedIsNoted, IsEmpty
  <1>8. EveryFileHasAnOwner
        BY <1>3 DEF EveryFileHasAnOwner
  <1>9. CleanNow
    <2>1. ImagesAreClean
          BY <1>3, NotAt DEF ImagesAreClean, ImageIsClean, IsEmpty
    <2>2. TasksAreClean
          BY <1>2 DEF TasksAreClean, TaskIsClean
    <2>3. FoundIsAsRead /\ FileIsThere
          BY <1>3 DEF FoundIsAsRead, FileIsThere, IsEmpty
    <2>4. QED
          BY <2>1, <2>2, <2>3 DEF CleanNow
  <1>10. QED
        BY <1>4, <1>5, <1>6, <1>7, <1>8, <1>9 DEF IInv, CleanSoFar

LEMMA StepInv == IInv /\ [Next]_vars => IInv'
  <1> SUFFICES ASSUME IInv, [Next]_vars PROVE IInv'
        OBVIOUS
  <1>1. Typed /\ IdsAreFresh /\ IdsAreUnique /\ TasksAreSound
        BY DEF IInv
  <1>2. Typed' /\ IdsAreFresh' /\ IdsAreUnique' /\ TasksAreSound'
        BY <1>1, TypedStep, FreshStep, UniqueStep, TasksStep
  <1>3. FoundIsRecorded' /\ RemovalIsSound' /\ DoomedIsOld' /\ EveryFileHasAnOwner'
        BY FoundStep, RemovalStep, DoomedStep, OwnersStep
  <1>4. CrossedIsNoted' /\ CleanSoFar' /\ RepairSoFar'
        BY CrossedStep, CleanStep, RepairStep
  <1>5. QED
        BY <1>2, <1>3, <1>4 DEF IInv

(* The inductive invariant, for any number of requests, images and faults.   *)
THEOREM Invariant == Spec => []IInv
  BY InitInv, StepInv, PTL DEF Spec

LEMMA InvIsEnough == IInv => Accounted
  <1> SUFFICES ASSUME IInv PROVE Accounted
        OBVIOUS
  <1>1. Typed /\ KeeperTyped /\ EveryFileHasAnOwner
        BY DEF IInv, Typed
  <1>2. \A p \in Paths : disk[p] \in Images
          => \/ record[disk[p]] # None /\ record[disk[p]].path = p
             \/ \E r \in Requests : /\ request[r].pc \in {"placed", "dead"}
                                  /\ request[r].ids # <<>> /\ Last(request[r].ids) = disk[p]
        BY <1>1 DEF EveryFileHasAnOwner, HasOwner, IsLast
  <1>3. ASSUME faults = 0, keeper.pc = "off", Stopped, NEW i \in Images \ crossed
        PROVE  /\ sidecar[i] # None => record[i] # None /\ record[i].sidecar
               /\ record[i] # None => Verified(i, record[i])
    <2>1. ImageIsClean(i)
          BY <1>3 DEF IInv, CleanSoFar, CleanNow, ImagesAreClean
    <2>2. ~At({"record"}, i) /\ ~At({"file", "record"}, i)
          BY <1>1, <1>3, NotAt DEF KeeperTyped
    <2>3. \A r \in Requests : ~PersistedFor(r, i)
          BY <1>3 DEF Stopped, Working, PersistedFor
    <2>4. /\ record[i] # None => Intact(i, record[i])
          /\ record[i] # None /\ record[i].sidecar => sidecar[i] = "own"
          /\ sidecar[i] # None => record[i] # None /\ record[i].sidecar
          BY <2>1, <2>2, <2>3 DEF ImageIsClean
    <2>5. QED
          BY <2>4 DEF Verified, SidecarState
  <1>4. QED
        BY <1>1, <1>2, <1>3, TypedIsTypeOK DEF Accounted, NothingLeaks

(* Every file of the store is accounted for: each image has a record, or a   *)
(* request that is about to write it or died before it could; and where      *)
(* nothing failed no record and no sidecar is left behind.                   *)
THEOREM EveryFileIsAccountedFor == Spec => []Accounted
  BY Invariant, InvIsEnough, PTL

-----------------------------------------------------------------------------
(* What goes from the disk: by a request that takes its own file back, or by *)
(* a cleanup.                                                                *)
LEMMA Removes ==
  ASSUME IInv, [Next]_vars, ~UserEdits, NEW p \in Paths, disk[p] # None, disk'[p] # disk[p]
  PROVE  /\ disk'[p] = None
         /\ \/ \E r \in Requests : request[r].pc = "placed" /\ request[r].path = p
            \/ RemoveFile /\ keeper.stage = "file" /\ p = Candidate.record.path
  <1>0. Typed /\ FilesTyped /\ KeeperTyped /\ TasksAreSound
        BY DEF IInv, Typed
  <1>1. ASSUME NEW r \in Requests, Place(r) PROVE FALSE
    <2>1. UNCHANGED disk \/ \E q \in Paths : disk[q] = None /\ disk' = [disk EXCEPT ![q] = next]
          BY <1>0, <1>1, PlaceDoes DEF Places
    <2>2. QED
          BY <1>0, <2>1 DEF FilesTyped
  <1>2. ASSUME NEW r \in Requests, Own(r)
        PROVE  disk'[p] = None /\ request[r].pc = "placed" /\ request[r].path = p
    <2>1. /\ request[r].pc = "placed" /\ request[r].path \in Paths
          /\ UNCHANGED disk \/ disk' = [disk EXCEPT ![request[r].path] = None]
          BY <1>0, <1>2, OwnDoes
    <2>2. QED
          BY <1>0, <2>1 DEF FilesTyped
  <1>3. CASE RemoveFile
    <2>1. /\ keeper.stage = "file" /\ keeper.found # {}
          /\ UNCHANGED disk \/ disk' = [disk EXCEPT ![Candidate.record.path] = None]
          BY <1>0, <1>3, RemoveFileDoes
    <2>2. Candidate.record.path \in Paths
          BY <1>0, <2>1, CandidateIsFound
    <2>3. QED
          BY <1>0, <1>3, <2>1, <2>2 DEF FilesTyped
  <1>4. ASSUME NEW i \in Images, RepairOne(i) PROVE FALSE
        BY <1>0, <1>4, RepairOneDoes
  <1>5. CASE \/ \E r \in Requests : Materialize(r) \/ CheckOwner(r) \/ PersistSidecar(r) \/ ReplaceRecord(r)
             \/ \E old \in 0..MaxImages, max \in {None, 1} : CleanupBegin(old, max)
             \/ \E i \in Images : ScanOne(i)
             \/ BridgeDies \/ ScanEnd \/ Verify \/ RemoveSidecar \/ RemoveRecord \/ CleanupEnd
             \/ RepairBegin \/ RepairEnd \/ KeeperDies \/ UNCHANGED vars
    <2>1. UNCHANGED disk
          BY <1>5 DEF Materialize, CheckOwner, PersistSidecar, ReplaceRecord, CleanupBegin, ScanOne,
             BridgeDies, ScanEnd, Verify, RemoveSidecar, RemoveRecord, CleanupEnd, RepairBegin,
             RepairEnd, KeeperDies, Files, vars
    <2>2. QED
          BY <2>1
  <1>6. QED
        BY <1>1, <1>2, <1>3, <1>4, <1>5 DEF Next

LEMMA SafeStep ==
  ASSUME IInv, [Next]_vars, ~UserEdits, NEW p \in Paths, disk[p] # None, disk'[p] # disk[p]
  PROVE  /\ disk'[p] = None
         /\ \/ \E r \in Requests : request[r].pc = "placed" /\ request[r].path = p
            \/ \E i \in Images : disk[p] = i /\ record[i] # None /\ record[i].path = p
            \/ /\ keeper.stage = "file" /\ p = Candidate.record.path /\ disk[p] # Candidate.id
               /\ \E r \in Requests : /\ request[r].pc = "dead" /\ request[r].ids # <<>>
                                     /\ Last(request[r].ids) = disk[p]
  <1>1. CASE \E r \in Requests : request[r].pc = "placed" /\ request[r].path = p
        BY <1>1, Removes
  <1>2. CASE keeper.stage = "file" /\ p = Candidate.record.path
    <2>0. Typed /\ FilesTyped /\ KeeperTyped /\ TasksAreSound /\ FoundIsRecorded
          BY DEF IInv, Typed
    <2>1. Candidate \in keeper.found /\ Candidate.id \in Images
          BY <1>2, <2>0, AtWork, CandidateIsFound
    <2>2. disk[p] # User
          BY <1>2 DEF IInv, RemovalIsSound
    <2>3. PICK i \in Images : disk[p] = i
          BY <2>0, <2>2 DEF FilesTyped
    <2>4. CASE record[i] # None /\ record[i].path = p
          BY <2>3, <2>4, Removes
    <2>5. ASSUME NEW r \in Requests, IsLast(r, i), ~(record[i] # None /\ record[i].path = p)
          PROVE  \/ request[r].pc = "placed" /\ request[r].path = p
                 \/ disk[p] # Candidate.id /\ request[r].pc = "dead"
      <3>1. request[r].pc = "placed" => request[r].path = p
            BY <2>0, <2>3, <2>5 DEF TasksAreSound, TaskIsSound, IsLast
      <3>2. i # Candidate.id
            BY <1>2, <2>0, <2>1, <2>5 DEF FoundIsRecorded
      <3>3. QED
            BY <2>3, <2>5, <3>1, <3>2 DEF IsLast
    <2>6. HasOwner(i, p)
          BY <2>3 DEF IInv, EveryFileHasAnOwner
    <2>7. QED
          BY <1>1, <1>2, <2>3, <2>4, <2>5, <2>6, Removes DEF HasOwner, IsLast
  <1>3. QED
        BY <1>1, <1>2, Removes

(* But for the user nothing is overwritten, and only what was published      *)
(* there is removed, also where a removal meets a request that fails.        *)
THEOREM FilesStaySafe == Spec => FilesAreSafe
  <1>1. IInv /\ [Next]_vars
          => [\A p \in Paths : disk[p] # None /\ disk'[p] # disk[p] /\ ~UserEdits
               => /\ disk'[p] = None
                  /\ \/ \E r \in Requests : request[r].pc = "placed" /\ request[r].path = p
                     \/ \E i \in Images : disk[p] = i /\ record[i] # None /\ record[i].path = p
                     \/ /\ keeper.stage = "file" /\ p = Candidate.record.path /\ disk[p] # Candidate.id
                        /\ \E r \in Requests : /\ request[r].pc = "dead" /\ request[r].ids # <<>>
                                              /\ Last(request[r].ids) = disk[p]]_vars
        BY SafeStep
  <1>2. QED
        BY <1>1, Invariant, PTL DEF Spec, FilesAreSafe

LEMMA NewestStep ==
  ASSUME IInv, NEW p \in Paths, RemoveFile, disk[p] = Candidate.id, disk'[p] = None
  PROVE  \/ disk[p] <= keeper.old
         \/ /\ keeper.max # None
            /\ Cardinality({i \in keeper.scanned : i > disk[p]}) >= keeper.max
  <1>1. KeeperTyped /\ DoomedIsOld
        BY DEF IInv, Typed
  <1>2. keeper.pc = "removing" /\ Candidate \in keeper.found
        BY <1>1, RemoveFileDoes, CandidateIsFound
  <1>3. QED
        BY <1>1, <1>2 DEF DoomedIsOld

(* A cleanup removes what it verified only if it is expired or as many newer *)
(* images as are to be kept were there.                                      *)
THEOREM NewestStay == Spec => NewestSurvive
  <1>1. IInv /\ [Next]_vars
          => [\A p \in Paths : RemoveFile /\ disk[p] = Candidate.id /\ disk'[p] = None
               => \/ disk[p] <= keeper.old
                  \/ /\ keeper.max # None
                     /\ Cardinality({i \in keeper.scanned : i > disk[p]}) >= keeper.max]_vars
        BY NewestStep
  <1>2. QED
        BY <1>1, Invariant, PTL DEF Spec, NewestSurvive

(* The user's files and the newest images survive.                           *)
THEOREM WhatMustSurviveDoes == Spec => FilesSurvive
  BY FilesStaySafe, NewestStay DEF FilesSurvive

LEMMA HealedAtEnd ==
  ASSUME IInv, RepairEnd, Recorded \subseteq keeper.scanned, NEW i \in Recorded
  PROVE  \/ Verified(i, record[i])
         \/ disk[record[i].path] \notin {None, i}
         \/ sidecar[i] = User
  <1>1. keeper.pc = "repairing" /\ i \in keeper.scanned /\ record[i] # None
        BY DEF RepairEnd, Recorded
  <1>2. RecordIsHealed(i)
        BY <1>1 DEF IInv, RepairSoFar
  <1>3. QED
        BY <1>2 DEF RecordIsHealed

(* A repair that saw every record leaves each sound, or naming what somebody *)
(* changed, whatever was interrupted before.                                 *)
THEOREM RepairsHeal == Spec => RepairHeals
  <1>1. IInv /\ [Next]_vars
          => [RepairEnd /\ Recorded \subseteq keeper.scanned
               => \A i \in Recorded : \/ Verified(i, record[i])
                                      \/ disk[record[i].path] \notin {None, i}
                                      \/ sidecar[i] = User]_vars
        BY HealedAtEnd
  <1>2. QED
        BY <1>1, Invariant, PTL DEF Spec, RepairHeals
=============================================================================
