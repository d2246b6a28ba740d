-------------------------------- MODULE Chroma --------------------------------
(***************************************************************************)
(* The removal of a key-colored background, crates/artifacts/src/chroma.rs.*)
(*                                                                         *)
(* A pixel is <<red, green, blue, alpha>>.  A picture is its rows, of at   *)
(* least one pixel each; the runs take small rasters, whose cells stand    *)
(* for blocks of pixels that are alike.                                    *)
(***************************************************************************)
EXTENDS Integers, FiniteSets, Sequences

CONSTANT AlphaScale  \* ALPHA_SCALE, 65535 in the code: the unit of the soft edge

ASSUME AlphaAssumption == AlphaScale \in Nat \ {0}

Byte     == 0..255
Channels == 1..3
Color    == Byte \X Byte \X Byte
Pixel    == Byte \X Byte \X Byte \X Byte

KeyDominance == 16
NoiseFloor   == 8

(* What .max().unwrap_or(0) and .min().unwrap_or(0) give for bytes.          *)
Largest(S)  == IF S = {} THEN 0 ELSE CHOOSE v \in S : \A w \in S : w <= v
Smallest(S) == IF S = {} THEN 0 ELSE CHOOSE v \in S : \A w \in S : v <= w

ColorOf(pixel) == <<pixel[1], pixel[2], pixel[3]>>

Apart(a, b) == IF a < b THEN b - a ELSE a - b

(* channel_distance()                                                        *)
Distance(color, key) == Largest({Apart(color[c], key[c]) : c \in Channels})

(* spill_channels(): the channels that make the key.                         *)
Spill(key) ==
  LET top == Largest({key[c] : c \in Channels})
  IN {c \in Channels : 128 <= key[c] /\ top - 16 <= key[c]}

KeyStrength(color, key)   == Smallest({color[c] : c \in Spill(key)})
OtherStrength(color, key) == Largest({color[c] : c \in Channels \ Spill(key)})

(* key_dominance()                                                           *)
Dominance(color, key) ==
  IF Spill(key) = {} THEN 0 ELSE KeyStrength(color, key) - OtherStrength(color, key)

(* looks_key_colored()                                                       *)
KeyLike(color, key) == Distance(color, key) <= 32 \/ Dominance(color, key) >= KeyDominance

AsByte(value) == IF value \in Byte THEN value ELSE 255

(* soft_alpha(): a smooth step between the thresholds.                       *)
SoftAlpha(distance, options) ==
  LET from == options.transparent  to == options.opaque
      ratio  == ((distance - from) * AlphaScale) \div (to - from)
      smooth == (ratio * ratio * (3 * AlphaScale - 2 * ratio)) \div (AlphaScale * AlphaScale)
  IN IF distance <= from THEN 0
     ELSE IF distance >= to THEN 255
     ELSE AsByte((smooth * 255 + AlphaScale \div 2) \div AlphaScale)

(* dominance_alpha()                                                         *)
DominanceAlpha(color, key) ==
  LET dominance == Dominance(color, key)
      reach     == Largest({key[c] : c \in Channels}) - OtherStrength(color, key)
      whole     == IF reach < 1 THEN 1 ELSE reach
      remaining == IF dominance < whole THEN whole - dominance ELSE 0
  IN IF dominance <= 0 THEN 255 ELSE AsByte((remaining * 255 + whole \div 2) \div whole)

(* cleanup_spill()                                                           *)
Cleaned(color, key, alpha) ==
  LET other  == OtherStrength(color, key)
      anchor == IF other = 0 THEN 0 ELSE other - 1
      Dimmed(c) == IF c \in Spill(key) /\ anchor < color[c] THEN anchor ELSE color[c]
  IN IF alpha >= 252 THEN color ELSE <<Dimmed(1), Dimmed(2), Dimmed(3)>>

(* The alpha of a pixel before the noise floor.                              *)
MatteAlpha(color, key, options) ==
  LET soft == SoftAlpha(Distance(color, key), options)  hard == DominanceAlpha(color, key)
  IN IF ~KeyLike(color, key) THEN 255 ELSE IF soft < hard THEN soft ELSE hard

CutAlpha(pixel, key, options) ==
  LET alpha == (MatteAlpha(ColorOf(pixel), key, options) * pixel[4] + 127) \div 255
  IN IF alpha <= NoiseFloor THEN 0 ELSE alpha

(* One turn of the loop of remove_chroma_key().                              *)
Cut(pixel, key, options) ==
  LET color   == ColorOf(pixel)
      alpha   == CutAlpha(pixel, key, options)
      cleaned == IF options.despill /\ KeyLike(color, key) THEN Cleaned(color, key, alpha) ELSE color
  IN IF alpha = 0 THEN <<0, 0, 0, 0>> ELSE <<cleaned[1], cleaned[2], cleaned[3], alpha>>

Removed(picture, key, options) ==
  [y \in DOMAIN picture |-> [x \in DOMAIN picture[y] |-> Cut(picture[y][x], key, options)]]

-----------------------------------------------------------------------------
Width(picture)  == Len(picture[1])
Height(picture) == Len(picture)
Cells(picture)  == (1..Width(picture)) \X (1..Height(picture))
PixelAt(picture, cell) == picture[cell[2]][cell[1]]

(* The four corners are counted one by one, also where they coincide.        *)
CornerCount(picture) ==
  Cardinality({side \in {"first", "last"} \X {"first", "last"} :
    PixelAt(picture, <<IF side[1] = "first" THEN 1 ELSE Width(picture),
                  IF side[2] = "first" THEN 1 ELSE Height(picture)>>)[4] = 0})

Clear(picture) == {cell \in Cells(picture) : PixelAt(picture, cell)[4] = 0}

(* summarize_alpha()                                                         *)
Summary(picture) ==
  LET with(alphas) == Cardinality({cell \in Cells(picture) : PixelAt(picture, cell)[4] \in alphas})
  IN [total |-> Cardinality(Cells(picture)), transparent |-> with({0}), opaque |-> with({255}),
      partial |-> with(1..254), corners |-> CornerCount(picture)]

(* validate_alpha()                                                          *)
Plausible(summary, keyed) ==
  LET region == IF summary.total \div 1000 < 1 THEN 1 ELSE summary.total \div 1000
  IN /\ region <= summary.transparent
     /\ region <= summary.opaque + summary.partial
     /\ keyed => 2 <= summary.corners

(* detect_border_chroma_key(): the samples along the border, of which each   *)
(* corner gives two, and the middle one of each channel.                     *)
Border(picture) ==
  ({"top", "bottom"} \X (1..Width(picture))) \cup ({"left", "right"} \X (1..Height(picture)))

Sample(picture, spot) ==
  PixelAt(picture, CASE spot[1] = "top"    -> <<spot[2], 1>>
                     [] spot[1] = "bottom" -> <<spot[2], Height(picture)>>
                     [] spot[1] = "left"   -> <<1, spot[2]>>
                     [] spot[1] = "right"  -> <<Width(picture), spot[2]>>)

(* sort_unstable() and [len / 2]: the value at that place is the one with so *)
(* many smaller ones before it.                                              *)
IsMiddle(value, spots, f) ==
  /\ Cardinality({s \in spots : f[s] < value}) <= Cardinality(spots) \div 2
  /\ Cardinality(spots) \div 2 < Cardinality({s \in spots : f[s] <= value})

Middle(spots, f) == CHOOSE value \in {f[s] : s \in spots} : IsMiddle(value, spots, f)

Detected(picture) ==
  LET Median(c) == Middle(Border(picture), [spot \in Border(picture) |-> Sample(picture, spot)[c]])
  IN <<Median(1), Median(2), Median(3)>>
=============================================================================
