------------------------------ MODULE ImageData ------------------------------
(***************************************************************************)
(* What a worker computes from the pixels and the tags of one image:       *)
(* images.py and exif.py, in the order of process_asset.                   *)
(*                                                                         *)
(* Pillow is external: it hands over a size, an orientation, and the tags  *)
(* as values of its own types.  What _collect gathers from the tags is     *)
(* followed up to there: how the numbers are worded afterwards is not, and *)
(* the words may say less than the numbers (1/32000 of a second is worded  *)
(* 0/1, of other numbers six digits are kept).                             *)
(***************************************************************************)
EXTENDS Naturals

CONSTANTS
  Pictures,       \* sizes of originals, <<width, height>>
  Targets,        \* the long side of each variant: VARIANT_SPECS
  Values          \* values of a tag: absent, IFDRational, a pair of numbers, a number,
                  \* text that spells a number, other text, anything else

TagForm == {"absent", "rational", "pair", "number", "numeral", "text", "other"}

ASSUME ImageDataAssumption ==
  /\ Pictures \subseteq (Nat \ {0}) \X (Nat \ {0})
  /\ Targets \subseteq Nat \ {0}
  /\ Values \subseteq [form : TagForm, num : Nat, den : Nat]
  /\ \A v \in Values : v.den = 0 => v.form \in {"pair", "rational"}

VARIABLES
  picture,        \* the size of the original, as stored
  sideways,       \* its orientation tag says it lies on a side
  tags,           \* what its tags of interest hold
  stage,          \* how far process_asset is
  upright,        \* the size after open_image
  metadata,       \* what extract_exif gathered, not worded yet
  sizes           \* the size of each variant made

imageVars == <<picture, sideways, tags, stage, upright, metadata, sizes>>

\* One tag _clean reads, one _to_number reads: model stands for make, model, lens,
\* iso; aperture for exposure, aperture, focal length.
Fields == {"model", "aperture"}

Absent == [form |-> "absent", num |-> 0, den |-> 1]

Stage == {"open", "extract", "resize", "done", "raised"}

NoExif == [f \in Fields |-> Absent]

ImageDataTypeOK ==
  /\ picture \in Pictures /\ sideways \in BOOLEAN
  /\ tags \in [Fields -> Values]
  /\ stage \in Stage
  /\ metadata \in [Fields -> [form : {"absent", "number", "numeral", "text"}, num : Nat, den : Nat]]
  /\ DOMAIN sizes \subseteq Targets

ImageDataInit ==
  /\ picture \in Pictures /\ sideways \in BOOLEAN
  /\ tags \in [Fields -> Values]
  /\ stage = "open" /\ upright = picture /\ metadata = NoExif
  /\ sizes = [t \in {} |-> picture]

Longer(p) == IF p[1] > p[2] THEN p[1] ELSE p[2]

Shorter(p) == IF p[1] > p[2] THEN p[2] ELSE p[1]

-----------------------------------------------------------------------------

\* open_image: exif_transpose puts it upright.
OpenImage ==
  /\ stage = "open" /\ stage' = "extract"
  /\ upright' = IF sideways THEN <<picture[2], picture[1]>> ELSE picture
  /\ UNCHANGED <<picture, sideways, tags, metadata, sizes>>

\* A number, as a fraction.
AsNumber(v) == [v EXCEPT !.form = "number"]

\* Mutation: a pair is a sequence like another, and its first item is kept.
ToNumberOfFirst(v) ==
  CASE v.form = "pair"                  -> [form |-> "number", num |-> v.num, den |-> 1]
    [] v.form \in {"rational", "number", "numeral"} -> AsNumber(v)
    [] OTHER                            -> Absent

\* _to_number of a value that does not raise: float() reads a number out of text too.
ToNumber(v) ==
  IF v.form \in {"rational", "number", "numeral"} \/ (v.form = "pair" /\ v.den # 0)
  THEN AsNumber(v)
  ELSE Absent

\* _clean of a value that does not raise: text and numbers pass, blank text and what
\* has no number do not, of a sequence the first item stays.
Clean(v) ==
  CASE v.form = "pair"     -> [form |-> "number", num |-> v.num, den |-> 1]
    [] v.form = "rational" -> AsNumber(v)
    [] v.form \in {"text", "numeral", "number"} -> v
    [] OTHER               -> Absent

\* float() of an IFDRational divides: ZeroDivisionError is neither TypeError nor
\* ValueError.
Raises(v) == v.form = "rational" /\ v.den = 0

Readable == [f \in Fields |-> IF f = "aperture" THEN ToNumber(tags[f]) ELSE Clean(tags[f])]

\* extract_exif: _collect over both blocks, outside of its try clauses.  The wording of
\* what it gathered (_format_exposure and the like) is left out.
ExtractExif ==
  /\ stage = "extract"
  /\ IF \E f \in Fields : Raises(tags[f])
     THEN stage' = "raised" /\ UNCHANGED metadata
     ELSE stage' = "resize" /\ metadata' = Readable
  /\ UNCHANGED <<picture, sideways, tags, upright, sizes>>

\* round() of a side times target / long: to the nearest, of two the even one or,
\* the product being a float, the other.
Rounded(side, target, long) ==
  {n \in 0 .. target : 2 * n * long <= 2 * side * target + long
                    /\ 2 * side * target <= 2 * n * long + long}

AtLeastOne(n) == IF n = 0 THEN 1 ELSE n

\* Mutation: the short side of a panorama rounds to nothing.
ResizedToNothing(p, target) ==
  IF Longer(p) <= target
  THEN {p}
  ELSE Rounded(p[1], target, Longer(p)) \X Rounded(p[2], target, Longer(p))

\* _resize_long_side.
Resized(p, target) ==
  IF Longer(p) <= target
  THEN {p}
  ELSE {<<AtLeastOne(w), AtLeastOne(h)>> :
          w \in Rounded(p[1], target, Longer(p)), h \in Rounded(p[2], target, Longer(p))}

\* generate_variants: the next of the list.
MakeVariant ==
  /\ stage = "resize"
  /\ \E t \in Targets \ DOMAIN sizes :
       /\ \A u \in Targets \ DOMAIN sizes : t <= u
       /\ \E size \in Resized(upright, t) :
            sizes' = [u \in DOMAIN sizes \cup {t} |-> IF u = t THEN size ELSE sizes[u]]
  /\ stage' = IF DOMAIN sizes' = Targets THEN "done" ELSE "resize"
  /\ UNCHANGED <<picture, sideways, tags, upright, metadata>>

ImageDataNext == OpenImage \/ ExtractExif \/ MakeVariant

ImageDataSpec == ImageDataInit /\ [][ImageDataNext]_imageVars

-----------------------------------------------------------------------------

\* The variants keep the picture: none is larger than the original or than its
\* target, none is flat, the larger one never has a shorter side, and a picture that
\* was landscape stays so, at every rounding (images.py, _resize_long_side).
VariantsKeepThePicture ==
  \A t \in DOMAIN sizes :
    /\ sizes[t][1] \in 1 .. upright[1] /\ sizes[t][2] \in 1 .. upright[2]
    /\ Longer(sizes[t]) = IF Longer(upright) <= t THEN Longer(upright) ELSE t
    /\ upright[1] >= upright[2] => sizes[t][1] >= sizes[t][2]
    /\ upright[1] <= upright[2] => sizes[t][1] <= sizes[t][2]
    /\ \A u \in DOMAIN sizes : t <= u =>
         sizes[t][1] <= sizes[u][1] /\ sizes[t][2] <= sizes[u][2]

\* A tag that means nothing costs itself and no other, and a number gathered is the
\* number in the file, however Pillow hands it over: "è così che f/2.8 diventa f/28"
\* when a fraction is read as its numerator (exif.py, RATIONAL_FIELDS, _collect and
\* _to_number; what _format_exposure and the like make of it is not claimed).
TagsAreKept ==
  stage \in {"resize", "done"} =>
    /\ metadata["model"] = Absent <=> tags["model"].form \in {"absent", "other"}
    /\ metadata["aperture"] = Absent <=>
         tags["aperture"].form \in {"absent", "other", "text"} \/ tags["aperture"].den = 0
    /\ metadata["aperture"] # Absent =>
         metadata["aperture"].num * tags["aperture"].den
           = tags["aperture"].num * metadata["aperture"].den

\* A fraction without a denominator blows nothing up (test_exif.py:35, "una frazione
\* con denominatore zero non fa esplodere niente").
BadTagsAreHarmless == stage # "raised"

=============================================================================
