--------------------------- MODULE ImageProcessor ---------------------------
(***************************************************************************)
(* The transformation pipeline of processing/ImageProcessor and the four   *)
(* stages of processing/transformation: flip, rotation and zoom, which     *)
(* build one QTransform, and the border, which paints the transformed      *)
(* picture.  Every stage keeps its settings, the object it was bound to    *)
(* (orig), the result it computed last (cached) and a dirty flag; process  *)
(* recomputes a stage only where the flags say that it must.               *)
(*                                                                         *)
(* The module holds the pipeline as a record and one operator per method;  *)
(* ImageView turns the methods into the steps of a state machine.          *)
(* Scale factors are integers in units of 1/OneScale.                      *)
(***************************************************************************)
EXTENDS Integers

CONSTANTS Images,     \* decoded pictures
          Extent,     \* their sizes in pixels, [Images -> Extents]
          NullImage,  \* a null QImage
          Areas,      \* sizes the widget can have
          Styles,     \* values of the border and background colour settings
          OneScale    \* the scale factor 1.0

Extents == [w: Nat, h: Nat]

ASSUME ImageAssumption ==
    /\ Extent \in [Images -> [w: Nat \ {0}, h: Nat \ {0}]]
    /\ NullImage \notin Images
    /\ Areas \subseteq Extents

ASSUME ScaleAssumption == OneScale \in Nat \ {0}

NoExtent == [w |-> 0, h |-> 0]

-----------------------------------------------------------------------------
(* QTransform, as far as the pipeline builds one: the half turns about the *)
(* X axis (h) and the Y axis (v) are applied last, after q clockwise       *)
(* quarter turns, after a scaling by s.                                    *)

Transforms == [h: BOOLEAN, v: BOOLEAN, q: 0..3, s: Int]

IdentityTransform == [h |-> FALSE, v |-> FALSE, q |-> 0, s |-> OneScale]

\* QTransform::isRotating() is type() >= TxRotate; a half turn about the X or
\* the Y axis makes the type TxProject, which is above TxRotate and stays.
IsProject(t)  == t.h \/ t.v
IsRotating(t) == IsProject(t) \/ t.q % 2 = 1

Abs(n) == IF n < 0 THEN -n ELSE n

Turned(extent, q) ==
    IF q % 2 = 1 THEN [w |-> extent.h, h |-> extent.w] ELSE extent

\* The size of QImage::transformed(t); a side that vanishes makes it null.
TransformedSize(image, t) ==
    LET w == (Extent[image].w * Abs(t.s)) \div OneScale
        h == (Extent[image].h * Abs(t.s)) \div OneScale
    IN  IF w = 0 \/ h = 0 THEN NoExtent ELSE Turned([w |-> w, h |-> h], t.q)

-----------------------------------------------------------------------------
(* ImageTransformationBase: the cache every stage inherits.                *)

InvalidateCache(stage) ==
    [stage EXCEPT !.dirty = TRUE, !.cached = IdentityTransform]

SetIsCacheDirty(stage) == [stage EXCEPT !.dirty = TRUE]

\* Binding that forgets to invalidate what was computed from the old object.
BindKeepingCache(stage, t) == [stage EXCEPT !.orig = t]

Bind(stage, t) == InvalidateCache([stage EXCEPT !.orig = t])

SetCachedObject(stage, t) == [stage EXCEPT !.cached = t, !.dirty = FALSE]

-----------------------------------------------------------------------------
(* ImageFlip *)

FlipStages == [h: BOOLEAN, v: BOOLEAN, dirty: BOOLEAN,
               orig: Transforms, cached: Transforms]

InitFlip == [h |-> FALSE, v |-> FALSE, dirty |-> TRUE,
             orig |-> IdentityTransform, cached |-> IdentityTransform]

FlipTransform(f) ==
    IF f.dirty
    THEN SetCachedObject(f, [h |-> f.orig.h # f.h, v |-> f.orig.v # f.v,
                             q |-> f.orig.q, s |-> f.orig.s])
    ELSE f

ToggleH(f) == InvalidateCache([f EXCEPT !.h = ~@])
ToggleV(f) == InvalidateCache([f EXCEPT !.v = ~@])

ResetFlip(f) == SetIsCacheDirty([f EXCEPT !.h = FALSE, !.v = FALSE])

-----------------------------------------------------------------------------
(* ImageRotation *)

RotationStages == [index: 0..3, dirty: BOOLEAN,
                   orig: Transforms, cached: Transforms]

InitRotation == [index |-> 0, dirty |-> TRUE,
                 orig |-> IdentityTransform, cached |-> IdentityTransform]

RotationTransform(r) ==
    IF r.dirty
    THEN SetCachedObject(r, [r.orig EXCEPT !.q = (@ + r.index) % 4])
    ELSE r

\* A quarter turn that counts past the four quadrants.
TurnRightOn(r) == InvalidateCache([r EXCEPT !.index = @ + 1])

\* A quarter turn that leaves the cached transformation in place.
StaleTurnRight(r) == [r EXCEPT !.index = (@ + 1) % 4]

TurnLeft(r)  == InvalidateCache([r EXCEPT !.index = (@ + 3) % 4])
TurnRight(r) == InvalidateCache([r EXCEPT !.index = (@ + 1) % 4])

ResetRotation(r) == SetIsCacheDirty([r EXCEPT !.index = 0])

-----------------------------------------------------------------------------
(* ImageZoom *)

ZoomStages == [fit: BOOLEAN, scale: Int, area: Extents, size: Extents,
               dirty: BOOLEAN, orig: Transforms, cached: Transforms]

InitZoom == [fit |-> FALSE, scale |-> OneScale, area |-> NoExtent,
             size |-> NoExtent, dirty |-> TRUE,
             orig |-> IdentityTransform, cached |-> IdentityTransform]

\* The scale factor at which a picture of this size fits the area: the width
\* decides unless the height would then reach over the area.
FitScale(size, area) ==
    IF area.w * size.h < area.h * size.w
    THEN (area.w * OneScale) \div size.w
    ELSE (area.h * OneScale) \div size.h

\* The fit computed for the picture as it was loaded.
FittedSizeUnturned(z) == z.size

\* The size the fit is computed for: width and height change places for a
\* rotated picture, but not once the type of the transformation is TxProject.
FittedSize(z) ==
    IF IsRotating(z.orig) /\ ~IsProject(z.orig)
    THEN [w |-> z.size.h, h |-> z.size.w]
    ELSE z.size

ZoomTransform(z) ==
    LET scale == IF z.fit THEN FitScale(FittedSize(z), z.area) ELSE z.scale
    IN  IF z.dirty
        THEN SetCachedObject([z EXCEPT !.scale = scale],
                             [z.orig EXCEPT !.s = scale])
        ELSE z

SetZoomArea(z, area) ==
    IF z.area = area THEN z ELSE InvalidateCache([z EXCEPT !.area = area])

SetOriginalImageSize(z, size) == InvalidateCache([z EXCEPT !.size = size])

ResetZoom(z) == SetIsCacheDirty([z EXCEPT !.scale = OneScale])

-----------------------------------------------------------------------------
(* ImageBorder.  process binds the border before it asks for the picture,  *)
(* so the border's own cache is never read and only its dirty flag is kept.*)

BorderStages == [area: Extents, x: Int, y: Int, style: Styles, dirty: BOOLEAN]

InitBorder(style) ==
    [area |-> NoExtent, x |-> 0, y |-> 0, style |-> style, dirty |-> TRUE]

\* checkScrollOffset without its last test, the one for a negative offset.
ClampOffsetAbove(offset, extent, area) ==
    IF extent < area THEN 0
    ELSE IF extent - offset < area THEN extent - area ELSE offset

\* One axis of checkScrollOffset.
ClampOffset(offset, extent, area) ==
    LET below == IF extent < area THEN 0
                 ELSE IF extent - offset < area THEN extent - area ELSE offset
    IN  IF below < 0 THEN 0 ELSE below

Larger(a, b) == IF a < b THEN b ELSE a

\* QSize::expandedTo
ExpandedTo(a, b) == [w |-> Larger(a.w, b.w), h |-> Larger(a.h, b.h)]

BorderTransform(b, size) ==
    LET canvas == ExpandedTo(size, b.area)
    IN  [b EXCEPT !.x = ClampOffset(@, canvas.w, b.area.w),
                  !.y = ClampOffset(@, canvas.h, b.area.h),
                  !.dirty = FALSE]

SetBorderArea(b, area) == [b EXCEPT !.area = area, !.dirty = TRUE]

ResetBorder(b) == SetIsCacheDirty([b EXCEPT !.x = 0, !.y = 0])

-----------------------------------------------------------------------------
(* ImageProcessor: the four stages and the picture they work on.           *)

Processors == [image: Images \cup {NullImage}, flip: FlipStages,
               rotation: RotationStages, zoom: ZoomStages, border: BorderStages]

InitProcessor(style) ==
    [image |-> NullImage, flip |-> InitFlip, rotation |-> InitRotation,
     zoom |-> InitZoom, border |-> InitBorder(style)]

\* What the widget has on screen: which picture, transformed how, painted on
\* an area of which size, scrolled how far and in which style.
Pictures == [image: Images \cup {NullImage}, by: Transforms, area: Extents,
             x: Int, y: Int, style: Styles]

\* The picture that is painted when the stages are what they are in p.
Painted(p) == [image |-> p.image, by |-> p.zoom.cached, area |-> p.border.area,
               x |-> p.border.x, y |-> p.border.y, style |-> p.border.style]

\* A null QImage.
Blank(p) == [image |-> NullImage, by |-> IdentityTransform, area |-> NoExtent,
             x |-> 0, y |-> 0, style |-> p.border.style]

ResetTransformation(p) ==
    [p EXCEPT !.flip = ResetFlip(@), !.rotation = ResetRotation(@),
              !.zoom = ResetZoom(@), !.border = ResetBorder(@)]

BindImage(p, image, reset) ==
    IF reset THEN ResetTransformation([p EXCEPT !.image = image])
             ELSE [p EXCEPT !.image = image, !.flip = SetIsCacheDirty(@)]

\* The loop of process.  A stage is bound to the result before it when an
\* earlier stage had to be recomputed; a stage that is only dirty itself keeps
\* the object it is bound to.
ProcessedFlip(p) ==
    FlipTransform(IF p.flip.dirty THEN Bind(p.flip, IdentityTransform)
                                  ELSE p.flip)

ProcessedRotation(p) ==
    RotationTransform(IF p.flip.dirty
                      THEN Bind(p.rotation, ProcessedFlip(p).cached)
                      ELSE p.rotation)

SizedZoom(p) == SetOriginalImageSize(p.zoom, Extent[p.image])

\* The zoom's part of the loop if a stage that is only dirty itself did not
\* have the stages behind it bound again.
ProcessedZoomAfterFlip(p) ==
    ZoomTransform(IF p.flip.dirty
                  THEN Bind(SizedZoom(p), ProcessedRotation(p).cached)
                  ELSE SizedZoom(p))

ProcessedZoom(p) ==
    ZoomTransform(IF p.flip.dirty \/ p.rotation.dirty
                  THEN Bind(SizedZoom(p), ProcessedRotation(p).cached)
                  ELSE SizedZoom(p))

ProcessedBorder(p) ==
    BorderTransform(p.border, TransformedSize(p.image, ProcessedZoom(p).cached))

NeedsTransformation(p) ==
    p.flip.dirty \/ p.rotation.dirty \/ SizedZoom(p).dirty \/ p.border.dirty

\* process and its result.  SizedZoom is always dirty, so that a picture is
\* transformed on every call and never the blank at the end of process returned.
Process(p) ==
    LET stages == [p EXCEPT !.flip = ProcessedFlip(p),
                            !.rotation = ProcessedRotation(p),
                            !.zoom = ProcessedZoom(p)]
        painted == [stages EXCEPT !.border = ProcessedBorder(p)]
    IN  IF p.image # NullImage /\ NeedsTransformation(p)
        THEN [processor |-> painted, shown |-> Painted(painted)]
        ELSE [processor |-> IF p.image = NullImage THEN p ELSE stages,
              shown |-> Blank(p)]

SetAreaSize(p, area) ==
    [p EXCEPT !.zoom = SetZoomArea(@, area), !.border = SetBorderArea(@, area)]

SetScaleFactor(p, scale) ==
    [p EXCEPT !.zoom = InvalidateCache([@ EXCEPT !.scale = scale])]

SetFitToArea(p, fit) ==
    [p EXCEPT !.zoom = InvalidateCache([@ EXCEPT !.fit = fit])]

\* Half turns about both axes are one half turn in the plane of the picture.
Flip(p) ==
    IF p.flip.h /\ p.flip.v
    THEN [p EXCEPT !.flip = ToggleV(ToggleH(@)),
                   !.rotation = TurnRight(TurnRight(@))]
    ELSE p

\* Flipping without the normalisation.
FlipVerticallyOnly(p) == [p EXCEPT !.flip = ToggleV(@)]

FlipHorizontally(p) == Flip([p EXCEPT !.flip = ToggleH(@)])
FlipVertically(p)   == Flip([p EXCEPT !.flip = ToggleV(@)])

IsFlipped(p) == p.flip.h \/ p.flip.v

\* Turning the same way whether the picture is flipped or not.
RotateLeftAlways(p) == [p EXCEPT !.rotation = TurnLeft(@)]

\* The rotation is applied before the flip, so that under a flip the picture
\* turns the other way.
RotateLeft(p) ==
    [p EXCEPT !.rotation = IF IsFlipped(p) THEN TurnRight(@) ELSE TurnLeft(@)]

RotateRight(p) ==
    [p EXCEPT !.rotation = IF IsFlipped(p) THEN TurnLeft(@) ELSE TurnRight(@)]

AddImageOffsetX(p, pixels) == [p EXCEPT !.border.x = @ + pixels]
AddImageOffsetY(p, pixels) == [p EXCEPT !.border.y = @ + pixels]

SetStyle(p, style) ==
    [p EXCEPT !.border = [@ EXCEPT !.style = style, !.dirty = TRUE]]

-----------------------------------------------------------------------------
(* What the dirty flags promise.  A clean stage holds the result of its    *)
(* settings applied to the results of the stages before it, and a stage    *)
(* behind clean stages is bound to their result.                           *)

FlipResult(p) ==
    [h |-> p.flip.h, v |-> p.flip.v, q |-> 0, s |-> OneScale]

RotationResult(p) == [FlipResult(p) EXCEPT !.q = p.rotation.index]

ZoomResult(p) == [RotationResult(p) EXCEPT !.s = p.zoom.scale]

Coherent(p) ==
    /\ ~p.flip.dirty => /\ p.flip.cached = FlipResult(p)
                        /\ p.rotation.orig = FlipResult(p)
    /\ ~p.flip.dirty /\ ~p.rotation.dirty =>
            /\ p.rotation.cached = RotationResult(p)
            /\ p.zoom.orig = RotationResult(p)
    /\ ~p.flip.dirty /\ ~p.rotation.dirty /\ ~p.zoom.dirty =>
            p.zoom.cached = ZoomResult(p)

=============================================================================
