--------------------------- MODULE ImageViewProofs ---------------------------
(***************************************************************************)
(* The safety of ImageView for every set of pictures, windows and styles,  *)
(* every scale step and limit and every scroll distance.                   *)
(*                                                                         *)
(* What the screen shows follows from the pipeline's dirty flags telling   *)
(* the truth, and that from every method keeping the pipeline sound; the   *)
(* invariant IndInv therefore joins the type, the soundness of the         *)
(* pipeline, the pipeline working on the frame on view, and the properties *)
(* of the screen that each repaint establishes anew.                       *)
(***************************************************************************)
EXTENDS ImageView, TLAPS

-----------------------------------------------------------------------------
(* The pipeline: each method keeps its type and the truth of its dirty     *)
(* flags, and process shows the picture under the settings it has then.    *)

LEMMA IdentityType == IdentityTransform \in Transforms
BY ScaleAssumption DEF IdentityTransform, Transforms

LEMMA NoExtentType == NoExtent \in Extents
BY DEF NoExtent, Extents

LEMMA InitProcessorType ==
    ASSUME NEW style \in Styles
    PROVE  InitProcessor(style) \in Processors /\ Coherent(InitProcessor(style))
BY IdentityType, NoExtentType, ScaleAssumption
   DEF InitProcessor, Processors, InitFlip, FlipStages, InitRotation, RotationStages,
       InitZoom, ZoomStages, InitBorder, BorderStages, Coherent

\* The results the flags speak of are transformations.
LEMMA ResultTypes ==
    ASSUME NEW p \in Processors
    PROVE  /\ FlipResult(p) \in Transforms
           /\ RotationResult(p) \in Transforms
           /\ ZoomResult(p) \in Transforms
<1>1. /\ p.flip.h \in BOOLEAN /\ p.flip.v \in BOOLEAN
      /\ p.rotation.index \in 0..3 /\ p.zoom.scale \in Int
  BY DEF Processors, FlipStages, RotationStages, ZoomStages
<1>2. FlipResult(p) \in Transforms
  BY <1>1, ScaleAssumption DEF FlipResult, Transforms
<1>3. RotationResult(p) \in Transforms
  BY <1>1, <1>2 DEF RotationResult, Transforms
<1>4. ZoomResult(p) \in Transforms
  BY <1>1, <1>3 DEF ZoomResult, Transforms
<1> QED
  BY <1>2, <1>3, <1>4

-----------------------------------------------------------------------------
(* The stages *)

\* A dirty flip composes its half turns with the object it is bound to.
LEMMA FlipTransformResult ==
    ASSUME NEW f \in FlipStages, f.dirty
    PROVE  /\ FlipTransform(f) \in FlipStages
           /\ FlipTransform(f).h = f.h /\ FlipTransform(f).v = f.v
           /\ FlipTransform(f).dirty = FALSE
           /\ FlipTransform(f).cached = [h |-> f.orig.h # f.h, v |-> f.orig.v # f.v,
                                         q |-> f.orig.q, s |-> f.orig.s]
<1> DEFINE t == [h |-> f.orig.h # f.h, v |-> f.orig.v # f.v,
                 q |-> f.orig.q, s |-> f.orig.s]
<1>1. t \in Transforms
  BY DEF FlipStages, Transforms
<1> HIDE DEF t
<1>2. /\ SetCachedObject(f, t) \in FlipStages
      /\ SetCachedObject(f, t).h = f.h /\ SetCachedObject(f, t).v = f.v
      /\ SetCachedObject(f, t).dirty = FALSE
      /\ SetCachedObject(f, t).cached = t
  BY <1>1 DEF FlipStages, SetCachedObject
<1>3. FlipTransform(f) = SetCachedObject(f, t)
  BY DEF FlipTransform, t
<1> QED
  BY <1>2, <1>3 DEF t

\* A dirty rotation adds its quarter turns to the object it is bound to.
LEMMA RotationTransformResult ==
    ASSUME NEW r \in RotationStages, r.dirty
    PROVE  /\ RotationTransform(r) \in RotationStages
           /\ RotationTransform(r).index = r.index
           /\ RotationTransform(r).dirty = FALSE
           /\ RotationTransform(r).orig = r.orig
           /\ RotationTransform(r).cached = [r.orig EXCEPT !.q = (@ + r.index) % 4]
<1> DEFINE t == [r.orig EXCEPT !.q = (@ + r.index) % 4]
<1>1. t \in Transforms
  BY DEF RotationStages, Transforms
<1> HIDE DEF t
<1>2. /\ SetCachedObject(r, t) \in RotationStages
      /\ SetCachedObject(r, t).index = r.index
      /\ SetCachedObject(r, t).dirty = FALSE
      /\ SetCachedObject(r, t).orig = r.orig
      /\ SetCachedObject(r, t).cached = t
  BY <1>1 DEF RotationStages, SetCachedObject
<1>3. RotationTransform(r) = SetCachedObject(r, t)
  BY DEF RotationTransform, t
<1> QED
  BY <1>2, <1>3 DEF t

\* A processed flip is clean and holds its result; its settings stay.
LEMMA ProcessedFlipResult ==
    ASSUME NEW p \in Processors, Coherent(p)
    PROVE  /\ ProcessedFlip(p) \in FlipStages
           /\ ProcessedFlip(p).h = p.flip.h
           /\ ProcessedFlip(p).v = p.flip.v
           /\ ~ProcessedFlip(p).dirty
           /\ ProcessedFlip(p).cached = FlipResult(p)
<1>1. p.flip \in FlipStages
  BY DEF Processors
<1>2. CASE ~p.flip.dirty
  BY <1>1, <1>2 DEF ProcessedFlip, FlipTransform, Coherent, FlipStages
<1>3. CASE p.flip.dirty
  <2> DEFINE f == Bind(p.flip, IdentityTransform)
  <2>1. /\ f \in FlipStages /\ f.dirty
        /\ f.h = p.flip.h /\ f.v = p.flip.v
        /\ f.orig = IdentityTransform
    BY <1>1, IdentityType DEF Bind, InvalidateCache, FlipStages
  <2>2. ProcessedFlip(p) = FlipTransform(f)
    BY <1>3 DEF ProcessedFlip
  <2> HIDE DEF f
  <2>3. /\ f.orig.h = FALSE /\ f.orig.v = FALSE
        /\ f.orig.q = 0 /\ f.orig.s = OneScale
    BY <2>1 DEF IdentityTransform
  <2>4. (f.orig.h # f.h) = p.flip.h /\ (f.orig.v # f.v) = p.flip.v
    BY <1>1, <2>1, <2>3 DEF FlipStages
  <2>5. FlipTransform(f).cached = FlipResult(p)
    BY <2>1, <2>3, <2>4, FlipTransformResult DEF FlipResult
  <2> QED
    BY <2>1, <2>2, <2>5, FlipTransformResult
<1> QED
  BY <1>1, <1>2, <1>3 DEF FlipStages

\* A processed rotation is clean and bound to the processed flip.
LEMMA ProcessedRotationResult ==
    ASSUME NEW p \in Processors, Coherent(p)
    PROVE  /\ ProcessedRotation(p) \in RotationStages
           /\ ProcessedRotation(p).index = p.rotation.index
           /\ ~ProcessedRotation(p).dirty
           /\ ProcessedRotation(p).orig = FlipResult(p)
           /\ ProcessedRotation(p).cached = RotationResult(p)
<1> DEFINE r == IF p.flip.dirty THEN Bind(p.rotation, ProcessedFlip(p).cached)
                                ELSE p.rotation
<1>1. p.rotation \in RotationStages /\ p.flip \in FlipStages
  BY DEF Processors
<1>2. r \in RotationStages /\ r.index = p.rotation.index /\ r.orig = FlipResult(p)
  BY <1>1, ProcessedFlipResult, IdentityType, ResultTypes
     DEF Bind, InvalidateCache, RotationStages, Coherent, FlipStages
<1>3. ~r.dirty => r.cached = RotationResult(p)
  BY <1>1 DEF Bind, InvalidateCache, RotationStages, FlipStages, Coherent
<1>4. ProcessedRotation(p) = RotationTransform(r)
  BY DEF ProcessedRotation
<1> HIDE DEF r
<1>5. [r.orig EXCEPT !.q = (@ + r.index) % 4] = RotationResult(p)
  BY <1>1, <1>2 DEF FlipResult, RotationResult, RotationStages
<1>6. CASE r.dirty
  BY <1>2, <1>4, <1>5, <1>6, RotationTransformResult
<1>7. CASE ~r.dirty
  BY <1>2, <1>3, <1>4, <1>7 DEF RotationTransform
<1> QED
  BY <1>6, <1>7

\* The fit of a picture that has a size is a scale factor.
LEMMA FitScaleType ==
    ASSUME NEW size \in [w: Nat \ {0}, h: Nat \ {0}], NEW area \in Extents
    PROVE  FitScale(size, area) \in Int
<1>1. \A a \in Int, b \in Nat \ {0} : a \div b \in Int
  OBVIOUS
<1>2. area.w * OneScale \in Int /\ area.h * OneScale \in Int
  BY ScaleAssumption DEF Extents
<1>3. size.w \in Nat \ {0} /\ size.h \in Nat \ {0}
  OBVIOUS
<1>4. (area.w * OneScale) \div size.w \in Int
  BY <1>1, <1>2, <1>3
<1>5. (area.h * OneScale) \div size.h \in Int
  BY <1>1, <1>2, <1>3
<1> QED
  BY <1>4, <1>5 DEF FitScale

\* The sizes that come out of a transformation are integers.
LEMMA TransformedSizeType ==
    ASSUME NEW image \in Images, NEW t \in Transforms
    PROVE  /\ TransformedSize(image, t).w \in Int
           /\ TransformedSize(image, t).h \in Int
<1> DEFINE w == (Extent[image].w * Abs(t.s)) \div OneScale
           h == (Extent[image].h * Abs(t.s)) \div OneScale
<1>1. \A a \in Int, b \in Nat \ {0} : a \div b \in Int
  OBVIOUS
<1>2. Abs(t.s) \in Int
  BY DEF Abs, Transforms
<1>3. Extent[image].w \in Nat /\ Extent[image].h \in Nat
  BY ImageAssumption
<1>4. /\ Extent[image].w * Abs(t.s) \in Int
      /\ Extent[image].h * Abs(t.s) \in Int
  BY <1>2, <1>3
<1>5. w \in Int /\ h \in Int
  BY <1>1, <1>4, ScaleAssumption
<1>6. TransformedSize(image, t)
        = IF w = 0 \/ h = 0 THEN NoExtent ELSE Turned([w |-> w, h |-> h], t.q)
  BY DEF TransformedSize
<1> QED
  BY <1>5, <1>6 DEF NoExtent, Turned

\* checkScrollOffset brings an offset between the two edges.
LEMMA ClampOffsetRange ==
    ASSUME NEW offset \in Int, NEW extent \in Int, NEW area \in Int, area <= extent
    PROVE  ClampOffset(offset, extent, area) \in 0..(extent - area)
BY DEF ClampOffset

\* A dirty zoom stores the scale it uses, the fitted one when it fits.
LEMMA ZoomTransformResult ==
    ASSUME NEW z \in ZoomStages, z.dirty, z.size \in [w: Nat \ {0}, h: Nat \ {0}]
    PROVE  LET done == ZoomTransform(z)
           IN  /\ done \in ZoomStages
               /\ done.fit = z.fit /\ done.area = z.area /\ done.size = z.size
               /\ done.orig = z.orig
               /\ done.dirty = FALSE
               /\ done.scale = IF z.fit THEN FitScale(FittedSize(z), z.area)
                                        ELSE z.scale
               /\ done.cached = [z.orig EXCEPT !.s = done.scale]
<1> DEFINE scale == IF z.fit THEN FitScale(FittedSize(z), z.area) ELSE z.scale
           t == [z.orig EXCEPT !.s = scale]
           done == SetCachedObject([z EXCEPT !.scale = scale], t)
<1>1. FittedSize(z) \in [w: Nat \ {0}, h: Nat \ {0}]
  BY DEF FittedSize
<1>2. scale \in Int
  BY <1>1, FitScaleType DEF ZoomStages
<1>3. ZoomTransform(z) = done
  BY DEF ZoomTransform
<1> HIDE DEF scale
<1>4. t \in Transforms
  BY <1>2 DEF Transforms, ZoomStages
<1>5. /\ done \in ZoomStages
      /\ done.fit = z.fit /\ done.area = z.area /\ done.size = z.size
      /\ done.orig = z.orig
      /\ done.dirty = FALSE
      /\ done.scale = scale
      /\ done.cached = t
  BY <1>2, <1>4 DEF SetCachedObject, ZoomStages
<1> QED
  BY <1>3, <1>5 DEF scale

\* The zoom is always recomputed, on the processed rotation.
LEMMA ProcessedZoomResult ==
    ASSUME NEW p \in Processors, Coherent(p), p.image \in Images
    PROVE  LET done == ProcessedZoom(p)
           IN  /\ done \in ZoomStages
               /\ done.fit = p.zoom.fit /\ done.area = p.zoom.area
               /\ done.size = Extent[p.image]
               /\ done.orig = RotationResult(p)
               /\ done.dirty = FALSE
               /\ done.scale = IF p.zoom.fit
                               THEN FitScale(FittedSize(done), p.zoom.area)
                               ELSE p.zoom.scale
               /\ done.cached = [RotationResult(p) EXCEPT !.s = done.scale]
<1> DEFINE z == IF p.flip.dirty \/ p.rotation.dirty
                THEN Bind(SizedZoom(p), ProcessedRotation(p).cached)
                ELSE SizedZoom(p)
<1>1. /\ p.zoom \in ZoomStages /\ p.rotation \in RotationStages
      /\ p.flip \in FlipStages
  BY DEF Processors
<1>2. /\ Extent[p.image] \in [w: Nat \ {0}, h: Nat \ {0}]
      /\ Extent[p.image] \in Extents
  BY ImageAssumption DEF Extents
<1>3. /\ SizedZoom(p) \in ZoomStages /\ SizedZoom(p).dirty
      /\ SizedZoom(p).fit = p.zoom.fit /\ SizedZoom(p).area = p.zoom.area
      /\ SizedZoom(p).scale = p.zoom.scale
      /\ SizedZoom(p).size = Extent[p.image]
      /\ SizedZoom(p).orig = p.zoom.orig
  BY <1>1, <1>2, IdentityType
     DEF SizedZoom, SetOriginalImageSize, InvalidateCache, ZoomStages
<1>4. /\ z \in ZoomStages /\ z.dirty
      /\ z.fit = p.zoom.fit /\ z.area = p.zoom.area /\ z.scale = p.zoom.scale
      /\ z.size = Extent[p.image]
  BY <1>3, IdentityType, ResultTypes, ProcessedRotationResult
     DEF Bind, InvalidateCache, ZoomStages
<1>5. z.orig = RotationResult(p)
  BY <1>1, <1>3, ProcessedRotationResult
     DEF Bind, InvalidateCache, ZoomStages, Coherent, FlipStages, RotationStages
<1>6. ProcessedZoom(p) = ZoomTransform(z)
  BY DEF ProcessedZoom
<1> HIDE DEF z
<1> DEFINE done == ProcessedZoom(p)
<1>7. z.size \in [w: Nat \ {0}, h: Nat \ {0}]
  BY <1>2, <1>4
<1>8. /\ done \in ZoomStages
      /\ done.fit = z.fit /\ done.area = z.area /\ done.size = z.size
      /\ done.orig = z.orig
      /\ done.dirty = FALSE
      /\ done.scale = IF z.fit THEN FitScale(FittedSize(z), z.area) ELSE z.scale
      /\ done.cached = [z.orig EXCEPT !.s = done.scale]
  BY ONLY <1>4, <1>6, <1>7, ZoomTransformResult, Zenon
<1> HIDE DEF done
<1>9. FittedSize(done) = FittedSize(z)
  BY <1>8 DEF FittedSize
<1>10. done.scale = IF p.zoom.fit THEN FitScale(FittedSize(done), p.zoom.area)
                                  ELSE p.zoom.scale
  BY <1>4, <1>8, <1>9
<1>11. done.cached = [RotationResult(p) EXCEPT !.s = done.scale]
  BY <1>5, <1>8
<1> QED
  BY <1>4, <1>5, <1>8, <1>10, <1>11 DEF done

-----------------------------------------------------------------------------
(* process *)

\* The pipeline a process leaves: of the right type, coherent, with its
\* settings unchanged but for the fitted scale and the clamped offsets.
LEMMA ProcessedPipeline ==
    ASSUME NEW p \in Processors, Coherent(p), p.image \in Images
    PROVE  LET done == Process(p).processor
           IN  /\ done \in Processors
               /\ Coherent(done)
               /\ done.image = p.image
               /\ done.flip.h = p.flip.h /\ done.flip.v = p.flip.v
               /\ done.rotation.index = p.rotation.index
               /\ done.zoom = ProcessedZoom(p)
               /\ done.border = ProcessedBorder(p)
               /\ done.border.area = p.border.area
               /\ done.border.style = p.border.style
               /\ Process(p).shown = Painted(done)
<1> DEFINE stages == [p EXCEPT !.flip = ProcessedFlip(p),
                               !.rotation = ProcessedRotation(p),
                               !.zoom = ProcessedZoom(p)]
           done == [stages EXCEPT !.border = ProcessedBorder(p)]
<1>1. p.image # NullImage /\ p.border \in BorderStages /\ p.zoom \in ZoomStages
  BY ImageAssumption DEF Processors
<1>2. NeedsTransformation(p)
  BY <1>1 DEF NeedsTransformation, SizedZoom, SetOriginalImageSize, InvalidateCache,
              ZoomStages
<1>3. Process(p).processor = done /\ Process(p).shown = Painted(done)
  BY <1>1, <1>2 DEF Process
<1>4. /\ ProcessedBorder(p) \in BorderStages
      /\ ProcessedBorder(p).area = p.border.area
      /\ ProcessedBorder(p).style = p.border.style
  <2> DEFINE size == TransformedSize(p.image, ProcessedZoom(p).cached)
             canvas == ExpandedTo(size, p.border.area)
  <2>1. ProcessedZoom(p).cached \in Transforms
    BY ProcessedZoomResult DEF ZoomStages
  <2>2. size.w \in Int /\ size.h \in Int
    BY <2>1, TransformedSizeType
  <2>3. ProcessedBorder(p) = BorderTransform(p.border, size)
    BY DEF ProcessedBorder
  <2> HIDE DEF size
  <2>4. canvas.w \in Int /\ canvas.h \in Int
    BY <1>1, <2>2 DEF ExpandedTo, Larger, BorderStages, Extents
  <2>5. BorderTransform(p.border, size)
          = [p.border EXCEPT !.x = ClampOffset(@, canvas.w, p.border.area.w),
                             !.y = ClampOffset(@, canvas.h, p.border.area.h),
                             !.dirty = FALSE]
    BY DEF BorderTransform
  <2> HIDE DEF canvas
  <2>6. /\ ClampOffset(p.border.x, canvas.w, p.border.area.w) \in Int
        /\ ClampOffset(p.border.y, canvas.h, p.border.area.h) \in Int
    BY <1>1, <2>4 DEF ClampOffset, BorderStages, Extents
  <2> QED
    BY <1>1, <2>3, <2>5, <2>6 DEF BorderStages
<1>5. /\ done \in Processors
      /\ done.image = p.image
      /\ done.flip = ProcessedFlip(p)
      /\ done.rotation = ProcessedRotation(p)
      /\ done.zoom = ProcessedZoom(p)
      /\ done.border = ProcessedBorder(p)
  BY <1>4, ProcessedFlipResult, ProcessedRotationResult, ProcessedZoomResult
     DEF Processors
<1> HIDE DEF done
<1>6. FlipResult(done) = FlipResult(p)
  BY <1>5, ProcessedFlipResult DEF FlipResult
<1>7. RotationResult(done) = RotationResult(p)
  BY <1>5, <1>6, ProcessedRotationResult DEF RotationResult
<1>8. done.zoom.cached = ZoomResult(done)
  BY <1>5, <1>7, ProcessedZoomResult DEF ZoomResult
<1>9. Coherent(done)
  <2>1. done.flip.cached = FlipResult(done) /\ done.rotation.orig = FlipResult(done)
    BY <1>5, <1>6, ProcessedFlipResult, ProcessedRotationResult
  <2>2. done.rotation.cached = RotationResult(done)
    BY <1>5, <1>7, ProcessedRotationResult
  <2>3. done.zoom.orig = RotationResult(done)
    BY <1>5, <1>7, ProcessedZoomResult
  <2> QED
    BY <1>8, <2>1, <2>2, <2>3 DEF Coherent
<1> QED
  BY <1>3, <1>4, <1>5, <1>9, ProcessedFlipResult, ProcessedRotationResult

\* After process the offsets lie between the edges of the painted canvas.
LEMMA ProcessedOffsets ==
    ASSUME NEW p \in Processors, Coherent(p), p.image \in Images
    PROVE  LET border == ProcessedBorder(p)
               canvas == ExpandedTo(TransformedSize(p.image, ProcessedZoom(p).cached),
                                    p.border.area)
           IN  /\ border.x \in 0..(canvas.w - p.border.area.w)
               /\ border.y \in 0..(canvas.h - p.border.area.h)
<1> DEFINE size == TransformedSize(p.image, ProcessedZoom(p).cached)
           canvas == ExpandedTo(size, p.border.area)
<1>1. p.border \in BorderStages
  BY DEF Processors
<1>2. size.w \in Int /\ size.h \in Int
  BY ProcessedZoomResult, TransformedSizeType DEF ZoomStages
<1>3. ProcessedBorder(p)
        = [p.border EXCEPT !.x = ClampOffset(@, canvas.w, p.border.area.w),
                           !.y = ClampOffset(@, canvas.h, p.border.area.h),
                           !.dirty = FALSE]
  BY DEF ProcessedBorder, BorderTransform
<1> HIDE DEF size
<1>4. /\ canvas.w \in Int /\ p.border.area.w \in Int /\ p.border.area.w <= canvas.w
      /\ canvas.h \in Int /\ p.border.area.h \in Int /\ p.border.area.h <= canvas.h
  BY <1>1, <1>2 DEF ExpandedTo, Larger, BorderStages, Extents
<1> HIDE DEF canvas
<1>5. p.border.x \in Int /\ p.border.y \in Int
  BY <1>1 DEF BorderStages
<1>6. /\ ClampOffset(p.border.x, canvas.w, p.border.area.w)
           \in 0..(canvas.w - p.border.area.w)
      /\ ClampOffset(p.border.y, canvas.h, p.border.area.h)
           \in 0..(canvas.h - p.border.area.h)
  BY <1>4, <1>5, ClampOffsetRange
<1>7. /\ ProcessedBorder(p).x = ClampOffset(p.border.x, canvas.w, p.border.area.w)
      /\ ProcessedBorder(p).y = ClampOffset(p.border.y, canvas.h, p.border.area.h)
  BY <1>1, <1>3 DEF BorderStages
<1> QED
  BY <1>6, <1>7 DEF canvas, size

-----------------------------------------------------------------------------
(* The methods.  Each leaves the pipeline sound: of its type, with truthful *)
(* dirty flags and never flipped about both axes at once.                   *)

Sound(p) ==
    /\ p \in Processors
    /\ Coherent(p)
    /\ ~(p.flip.h /\ p.flip.v)

\* A method that changes only the zoom, and leaves it dirty and bound as it was.
LEMMA SoundWithZoom ==
    ASSUME NEW p, Sound(p), NEW z \in ZoomStages, z.dirty, z.orig = p.zoom.orig
    PROVE  Sound([p EXCEPT !.zoom = z])
BY DEF Sound, Processors, Coherent, FlipResult, RotationResult

\* A method that changes only the border.
LEMMA SoundWithBorder ==
    ASSUME NEW p, Sound(p), NEW b \in BorderStages
    PROVE  Sound([p EXCEPT !.border = b])
BY DEF Sound, Processors, Coherent, FlipResult, RotationResult, ZoomResult

\* A method that changes only the rotation, and leaves it dirty.
LEMMA SoundWithRotation ==
    ASSUME NEW p, Sound(p), NEW r \in RotationStages, r.dirty,
           r.orig = p.rotation.orig
    PROVE  Sound([p EXCEPT !.rotation = r])
BY DEF Sound, Processors, Coherent, FlipResult

\* A method that leaves the flip dirty may change everything.
LEMMA SoundWithDirtyFlip ==
    ASSUME NEW p \in Processors, p.flip.dirty, ~(p.flip.h /\ p.flip.v)
    PROVE  Sound(p)
BY DEF Sound, Coherent

LEMMA SoundSetScaleFactor ==
    ASSUME NEW p, Sound(p), NEW scale \in Int
    PROVE  /\ Sound(SetScaleFactor(p, scale))
           /\ SetScaleFactor(p, scale).image = p.image
           /\ SetScaleFactor(p, scale).zoom.fit = p.zoom.fit
<1> DEFINE z == InvalidateCache([p.zoom EXCEPT !.scale = scale])
<1>1. p.zoom \in ZoomStages /\ p \in Processors
  BY DEF Sound, Processors
<1>2. z \in ZoomStages /\ z.dirty /\ z.orig = p.zoom.orig /\ z.fit = p.zoom.fit
  BY <1>1, IdentityType DEF InvalidateCache, ZoomStages
<1>3. SetScaleFactor(p, scale) = [p EXCEPT !.zoom = z]
  BY <1>1 DEF SetScaleFactor
<1> QED
  BY <1>1, <1>2, <1>3, SoundWithZoom DEF Processors

LEMMA SoundSetFitToArea ==
    ASSUME NEW p, Sound(p), NEW fit \in BOOLEAN
    PROVE  /\ Sound(SetFitToArea(p, fit))
           /\ SetFitToArea(p, fit).image = p.image
           /\ SetFitToArea(p, fit).zoom.fit = fit
<1> DEFINE z == InvalidateCache([p.zoom EXCEPT !.fit = fit])
<1>1. p.zoom \in ZoomStages /\ p \in Processors
  BY DEF Sound, Processors
<1>2. z \in ZoomStages /\ z.dirty /\ z.orig = p.zoom.orig /\ z.fit = fit
  BY <1>1, IdentityType DEF InvalidateCache, ZoomStages
<1>3. SetFitToArea(p, fit) = [p EXCEPT !.zoom = z]
  BY <1>1 DEF SetFitToArea
<1> QED
  BY <1>1, <1>2, <1>3, SoundWithZoom DEF Processors

\* The two stages that know the size of the window agree on it afterwards.
LEMMA SoundSetAreaSize ==
    ASSUME NEW p, Sound(p), NEW area \in Areas
    PROVE  LET done == SetAreaSize(p, area)
           IN  /\ Sound(done)
               /\ done.image = p.image
               /\ done.zoom.fit = p.zoom.fit
               /\ done.border.area = area
               /\ done.zoom.area = area
<1> DEFINE z == SetZoomArea(p.zoom, area)
           b == SetBorderArea(p.border, area)
<1>1. /\ p.zoom \in ZoomStages /\ p.border \in BorderStages /\ p \in Processors
      /\ area \in Extents
  BY ImageAssumption DEF Sound, Processors
<1>2. /\ z \in ZoomStages /\ z.orig = p.zoom.orig /\ z.fit = p.zoom.fit
      /\ z.area = area
      /\ z = p.zoom \/ z.dirty
  BY <1>1, IdentityType DEF SetZoomArea, InvalidateCache, ZoomStages
<1>3. b \in BorderStages /\ b.area = area
  BY <1>1 DEF SetBorderArea, BorderStages
<1>4. SetAreaSize(p, area) = [[p EXCEPT !.zoom = z] EXCEPT !.border = b]
  BY <1>1 DEF SetAreaSize, Processors
<1> HIDE DEF z, b
<1>5. Sound([p EXCEPT !.zoom = z])
  <2>1. CASE z.dirty
    BY <1>2, <2>1, SoundWithZoom
  <2>2. CASE z = p.zoom
    BY <1>1, <2>2 DEF Processors
  <2> QED
    BY <1>2, <2>1, <2>2
<1>6. Sound([[p EXCEPT !.zoom = z] EXCEPT !.border = b])
  BY <1>3, <1>5, SoundWithBorder
<1> QED
  BY <1>1, <1>2, <1>3, <1>4, <1>6 DEF Processors

\* The stages' own setters.
LEMMA FlipToggles ==
    ASSUME NEW f \in FlipStages
    PROVE  /\ ToggleH(f) \in FlipStages /\ ToggleH(f).dirty
           /\ ToggleH(f).h = ~f.h /\ ToggleH(f).v = f.v
           /\ ToggleV(f) \in FlipStages /\ ToggleV(f).dirty
           /\ ToggleV(f).v = ~f.v /\ ToggleV(f).h = f.h
BY IdentityType DEF ToggleH, ToggleV, InvalidateCache, FlipStages

LEMMA RotationTurns ==
    ASSUME NEW r \in RotationStages
    PROVE  /\ TurnLeft(r) \in RotationStages /\ TurnLeft(r).dirty
           /\ TurnLeft(r).orig = r.orig
           /\ TurnRight(r) \in RotationStages /\ TurnRight(r).dirty
           /\ TurnRight(r).orig = r.orig
<1>1. (r.index + 3) % 4 \in 0..3 /\ (r.index + 1) % 4 \in 0..3
  BY DEF RotationStages
<1> QED
  BY <1>1, IdentityType DEF TurnLeft, TurnRight, InvalidateCache, RotationStages

\* flip() normalises the flips and leaves them dirty.
LEMMA FlipNormalises ==
    ASSUME NEW p \in Processors, p.flip.dirty
    PROVE  /\ Sound(Flip(p))
           /\ Flip(p).image = p.image
           /\ Flip(p).zoom = p.zoom
<1>1. p.flip \in FlipStages /\ p.rotation \in RotationStages
  BY DEF Processors
<1>2. CASE p.flip.h /\ p.flip.v
  <2> DEFINE f == ToggleV(ToggleH(p.flip))
             r == TurnRight(TurnRight(p.rotation))
  <2>1. f \in FlipStages /\ f.dirty /\ ~f.h /\ ~f.v
    BY <1>1, <1>2, FlipToggles
  <2>2. r \in RotationStages
    BY <1>1, RotationTurns
  <2>3. Flip(p) = [p EXCEPT !.flip = f, !.rotation = r]
    BY <1>2 DEF Flip
  <2> HIDE DEF f, r
  <2>4. /\ Flip(p) \in Processors /\ Flip(p).flip = f
        /\ Flip(p).image = p.image /\ Flip(p).zoom = p.zoom
    BY <2>1, <2>2, <2>3 DEF Processors
  <2> QED
    BY <2>1, <2>4, SoundWithDirtyFlip
<1>3. CASE ~(p.flip.h /\ p.flip.v)
  BY <1>3, SoundWithDirtyFlip DEF Flip
<1> QED
  BY <1>2, <1>3

LEMMA SoundFlips ==
    ASSUME NEW p, Sound(p)
    PROVE  /\ Sound(FlipHorizontally(p))
           /\ FlipHorizontally(p).image = p.image
           /\ FlipHorizontally(p).zoom = p.zoom
           /\ Sound(FlipVertically(p))
           /\ FlipVertically(p).image = p.image
           /\ FlipVertically(p).zoom = p.zoom
<1> DEFINE h == [p EXCEPT !.flip = ToggleH(@)]
           v == [p EXCEPT !.flip = ToggleV(@)]
<1>1. p \in Processors /\ p.flip \in FlipStages
  BY DEF Sound, Processors
<1>2. /\ h \in Processors /\ h.flip.dirty /\ h.image = p.image /\ h.zoom = p.zoom
      /\ v \in Processors /\ v.flip.dirty /\ v.image = p.image /\ v.zoom = p.zoom
  BY <1>1, FlipToggles DEF Processors
<1>3. FlipHorizontally(p) = Flip(h) /\ FlipVertically(p) = Flip(v)
  BY DEF FlipHorizontally, FlipVertically
<1> HIDE DEF h, v
<1> QED
  BY <1>2, <1>3, FlipNormalises

LEMMA SoundRotations ==
    ASSUME NEW p, Sound(p)
    PROVE  /\ Sound(RotateLeft(p))
           /\ RotateLeft(p).image = p.image /\ RotateLeft(p).zoom = p.zoom
           /\ Sound(RotateRight(p))
           /\ RotateRight(p).image = p.image /\ RotateRight(p).zoom = p.zoom
<1> DEFINE l == IF IsFlipped(p) THEN TurnRight(p.rotation) ELSE TurnLeft(p.rotation)
           r == IF IsFlipped(p) THEN TurnLeft(p.rotation) ELSE TurnRight(p.rotation)
<1>1. p \in Processors /\ p.rotation \in RotationStages
  BY DEF Sound, Processors
<1>2. /\ l \in RotationStages /\ l.dirty /\ l.orig = p.rotation.orig
      /\ r \in RotationStages /\ r.dirty /\ r.orig = p.rotation.orig
  BY <1>1, RotationTurns
<1>3. /\ RotateLeft(p) = [p EXCEPT !.rotation = l]
      /\ RotateRight(p) = [p EXCEPT !.rotation = r]
  BY DEF RotateLeft, RotateRight
<1> HIDE DEF l, r
<1> QED
  BY <1>1, <1>2, <1>3, SoundWithRotation DEF Processors

LEMMA SoundOffsets ==
    ASSUME NEW p, Sound(p), NEW pixels \in Int
    PROVE  /\ Sound(AddImageOffsetX(p, pixels))
           /\ AddImageOffsetX(p, pixels).image = p.image
           /\ AddImageOffsetX(p, pixels).zoom = p.zoom
           /\ Sound(AddImageOffsetY(p, pixels))
           /\ AddImageOffsetY(p, pixels).image = p.image
           /\ AddImageOffsetY(p, pixels).zoom = p.zoom
<1> DEFINE x == [p.border EXCEPT !.x = @ + pixels]
           y == [p.border EXCEPT !.y = @ + pixels]
<1>1. p \in Processors /\ p.border \in BorderStages
  BY DEF Sound, Processors
<1>2. x \in BorderStages /\ y \in BorderStages
  BY <1>1 DEF BorderStages
<1>3. /\ AddImageOffsetX(p, pixels) = [p EXCEPT !.border = x]
      /\ AddImageOffsetY(p, pixels) = [p EXCEPT !.border = y]
  BY <1>1 DEF AddImageOffsetX, AddImageOffsetY, Processors
<1> HIDE DEF x, y
<1> QED
  BY <1>1, <1>2, <1>3, SoundWithBorder DEF Processors

LEMMA SoundSetStyle ==
    ASSUME NEW p, Sound(p), NEW style \in Styles
    PROVE  /\ Sound(SetStyle(p, style))
           /\ SetStyle(p, style).image = p.image
           /\ SetStyle(p, style).zoom = p.zoom
<1> DEFINE b == [p.border EXCEPT !.style = style, !.dirty = TRUE]
<1>1. p \in Processors /\ p.border \in BorderStages
  BY DEF Sound, Processors
<1>2. b \in BorderStages
  BY <1>1 DEF BorderStages
<1>3. SetStyle(p, style) = [p EXCEPT !.border = b]
  BY <1>1 DEF SetStyle, Processors
<1> HIDE DEF b
<1> QED
  BY <1>1, <1>2, <1>3, SoundWithBorder DEF Processors

\* Resetting the stages; every flag is set for the next process.
LEMMA StageResets ==
    ASSUME NEW f \in FlipStages, NEW r \in RotationStages, NEW z \in ZoomStages,
           NEW b \in BorderStages
    PROVE  /\ ResetFlip(f) \in FlipStages /\ ResetFlip(f).dirty
           /\ ~ResetFlip(f).h /\ ~ResetFlip(f).v
           /\ ResetRotation(r) \in RotationStages
           /\ ResetZoom(z) \in ZoomStages /\ ResetZoom(z).fit = z.fit
           /\ ResetBorder(b) \in BorderStages
<1>1. /\ ResetFlip(f) \in FlipStages /\ ResetFlip(f).dirty
      /\ ~ResetFlip(f).h /\ ~ResetFlip(f).v
  BY DEF ResetFlip, SetIsCacheDirty, FlipStages
<1>2. ResetRotation(r) \in RotationStages
  <2> DEFINE upright == [r EXCEPT !.index = 0]
  <2>1. upright \in RotationStages
    BY DEF RotationStages
  <2> HIDE DEF upright
  <2>2. SetIsCacheDirty(upright) \in RotationStages
    BY <2>1 DEF SetIsCacheDirty, RotationStages
  <2> QED
    BY <2>2 DEF ResetRotation, upright
<1>3. ResetZoom(z) \in ZoomStages /\ ResetZoom(z).fit = z.fit
  <2> DEFINE full == [z EXCEPT !.scale = OneScale]
  <2>1. full \in ZoomStages /\ full.fit = z.fit
    BY ScaleAssumption DEF ZoomStages
  <2> HIDE DEF full
  <2>2. SetIsCacheDirty(full) \in ZoomStages /\ SetIsCacheDirty(full).fit = full.fit
    BY <2>1 DEF SetIsCacheDirty, ZoomStages
  <2> QED
    BY <2>1, <2>2 DEF ResetZoom, full
<1>4. ResetBorder(b) \in BorderStages
  <2> DEFINE unscrolled == [b EXCEPT !.x = 0, !.y = 0]
  <2>1. \A n \in Int : [b EXCEPT !.x = n, !.y = n] \in BorderStages
    BY DEF BorderStages
  <2>2. 0 \in Int
    OBVIOUS
  <2>3. unscrolled \in BorderStages
    BY ONLY <2>1, <2>2, Zenon
  <2> HIDE DEF unscrolled
  <2>4. SetIsCacheDirty(unscrolled) \in BorderStages
    BY <2>3 DEF SetIsCacheDirty, BorderStages
  <2> QED
    BY <2>4 DEF ResetBorder, unscrolled
<1> QED
  BY <1>1, <1>2, <1>3, <1>4

\* bind, with the reset of another file and without it for the next frame.
LEMMA SoundBindImage ==
    ASSUME NEW p, Sound(p), NEW image \in Images \cup {NullImage},
           NEW reset \in BOOLEAN
    PROVE  /\ Sound(BindImage(p, image, reset))
           /\ BindImage(p, image, reset).image = image
           /\ BindImage(p, image, reset).zoom.fit = p.zoom.fit
<1> DEFINE bound == [p EXCEPT !.image = image]
<1>1. /\ p \in Processors /\ p.flip \in FlipStages /\ p.rotation \in RotationStages
      /\ p.zoom \in ZoomStages /\ p.border \in BorderStages
      /\ ~(p.flip.h /\ p.flip.v)
  BY DEF Sound, Processors
<1>2. CASE ~reset
  <2> DEFINE f == SetIsCacheDirty(p.flip)
  <2>1. f \in FlipStages /\ f.dirty /\ ~(f.h /\ f.v)
    BY <1>1 DEF SetIsCacheDirty, FlipStages
  <2>2. BindImage(p, image, reset) = [p EXCEPT !.image = image, !.flip = f]
    BY <1>2 DEF BindImage
  <2> HIDE DEF f
  <2> QED
    BY <1>1, <2>1, <2>2, SoundWithDirtyFlip DEF Processors
<1>3. CASE reset
  <2> DEFINE f == ResetFlip(p.flip)
             r == ResetRotation(p.rotation)
             z == ResetZoom(p.zoom)
             b == ResetBorder(p.border)
  <2>1. f \in FlipStages /\ f.dirty /\ ~f.h /\ ~f.v
    BY <1>1, StageResets
  <2>2. r \in RotationStages
    BY <1>1, StageResets
  <2>3. z \in ZoomStages /\ z.fit = p.zoom.fit
    BY <1>1, StageResets
  <2>4. b \in BorderStages
    BY <1>1, StageResets
  <2>5. BindImage(p, image, reset)
          = [bound EXCEPT !.flip = f, !.rotation = r, !.zoom = z, !.border = b]
    BY <1>1, <1>3 DEF BindImage, ResetTransformation, Processors
  <2> HIDE DEF f, r, z, b
  <2> DEFINE q == BindImage(p, image, reset)
  <2>6. /\ q \in Processors /\ q.flip = f /\ q.zoom = z /\ q.image = image
    BY <1>1, <2>1, <2>2, <2>3, <2>4, <2>5 DEF Processors
  <2> QED
    BY <2>1, <2>3, <2>6, SoundWithDirtyFlip
<1> QED
  BY <1>2, <1>3

\* process, as the view uses it: a sound pipeline again, and the picture of its
\* settings on the screen.
LEMMA SoundProcess ==
    ASSUME NEW p, Sound(p), p.image \in Images
    PROVE  LET done == Process(p).processor
           IN  /\ Sound(done)
               /\ done.image = p.image
               /\ done.zoom.fit = p.zoom.fit
               /\ Process(p).shown \in Pictures
               /\ Process(p).shown =
                      [image |-> p.image, by |-> ZoomResult(done),
                       area |-> p.border.area, x |-> done.border.x,
                       y |-> done.border.y, style |-> done.border.style]
<1> DEFINE done == Process(p).processor
<1>1. p \in Processors /\ Coherent(p)
  BY DEF Sound
<1>2. /\ done \in Processors /\ Coherent(done) /\ done.image = p.image
      /\ done.flip.h = p.flip.h /\ done.flip.v = p.flip.v
      /\ done.zoom = ProcessedZoom(p) /\ done.rotation.index = p.rotation.index
      /\ done.border.area = p.border.area
      /\ Process(p).shown = Painted(done)
  BY <1>1, ProcessedPipeline
<1>3. done.zoom.fit = p.zoom.fit
  BY <1>1, <1>2, ProcessedZoomResult
<1>4. done.zoom.cached = ZoomResult(done)
  <2>1. done.zoom.cached = [RotationResult(p) EXCEPT !.s = done.zoom.scale]
    BY <1>1, <1>2, ProcessedZoomResult
  <2>2. RotationResult(done) = RotationResult(p)
    BY <1>2 DEF RotationResult, FlipResult
  <2> QED
    BY <2>1, <2>2 DEF ZoomResult
<1> HIDE DEF done
<1>5. Sound(done)
  BY <1>2 DEF Sound
<1>6. Painted(done) \in Pictures
  BY <1>2 DEF Painted, Pictures, Processors, ZoomStages, BorderStages
<1> QED
  BY <1>2, <1>3, <1>4, <1>5, <1>6 DEF Painted, Sound, done

\* The picture that process shows is scrolled within its bounds.
LEMMA ProcessScrollsInBounds ==
    ASSUME NEW p, Sound(p), p.image \in Images
    PROVE  LET painted == Process(p).shown
               canvas  == ExpandedTo(TransformedSize(painted.image, painted.by),
                                     painted.area)
           IN  /\ painted.x \in 0..(canvas.w - painted.area.w)
               /\ painted.y \in 0..(canvas.h - painted.area.h)
<1> DEFINE done == Process(p).processor
<1>1. p \in Processors /\ Coherent(p)
  BY DEF Sound
<1>2. /\ Process(p).shown = Painted(done)
      /\ done.image = p.image
      /\ done.zoom = ProcessedZoom(p)
      /\ done.border = ProcessedBorder(p)
      /\ done.border.area = p.border.area
  BY <1>1, ProcessedPipeline
<1>3. /\ Painted(done).image = p.image
      /\ Painted(done).by = ProcessedZoom(p).cached
      /\ Painted(done).area = p.border.area
      /\ Painted(done).x = ProcessedBorder(p).x
      /\ Painted(done).y = ProcessedBorder(p).y
  BY <1>2 DEF Painted
<1> QED
  BY <1>1, <1>2, <1>3, ProcessedOffsets

-----------------------------------------------------------------------------
(* Orientation and scale: what each method makes of the settings that turn, *)
(* flip and size the picture.                                               *)

Facing(p) == [h |-> p.flip.h, v |-> p.flip.v, q |-> p.rotation.index]

Facings == [h: BOOLEAN, v: BOOLEAN, q: 0..3]

LEMMA FacingType ==
    ASSUME NEW p, Sound(p)
    PROVE  Facing(p) \in Facings /\ ~(Facing(p).h /\ Facing(p).v)
BY DEF Sound, Processors, FlipStages, RotationStages, Facing, Facings

\* Methods of the zoom and the border do not turn the picture.
LEMMA SettersKeepFacing ==
    ASSUME NEW p, Sound(p), NEW area, NEW scale, NEW fit, NEW pixels, NEW style
    PROVE  /\ Facing(SetAreaSize(p, area)) = Facing(p)
           /\ Facing(SetScaleFactor(p, scale)) = Facing(p)
           /\ Facing(SetFitToArea(p, fit)) = Facing(p)
           /\ Facing(AddImageOffsetX(p, pixels)) = Facing(p)
           /\ Facing(AddImageOffsetY(p, pixels)) = Facing(p)
           /\ Facing(SetStyle(p, style)) = Facing(p)
BY DEF Sound, Processors, Facing, SetAreaSize, SetScaleFactor, SetFitToArea,
       AddImageOffsetX, AddImageOffsetY, SetStyle

LEMMA SettersOfScale ==
    ASSUME NEW p, Sound(p), NEW area, NEW scale, NEW fit
    PROVE  /\ SetAreaSize(p, area).zoom.scale = p.zoom.scale
           /\ SetScaleFactor(p, scale).zoom.scale = scale
           /\ SetFitToArea(p, fit).zoom.scale = p.zoom.scale
<1>1. p \in Processors /\ p.zoom \in ZoomStages
  BY DEF Sound, Processors
<1>2. SetZoomArea(p.zoom, area).scale = p.zoom.scale
  BY <1>1 DEF SetZoomArea, InvalidateCache, ZoomStages
<1>3. SetAreaSize(p, area).zoom = SetZoomArea(p.zoom, area)
  BY <1>1 DEF SetAreaSize, Processors
<1>4. SetScaleFactor(p, scale).zoom = InvalidateCache([p.zoom EXCEPT !.scale = scale])
  BY <1>1 DEF SetScaleFactor, Processors
<1>5. SetFitToArea(p, fit).zoom = InvalidateCache([p.zoom EXCEPT !.fit = fit])
  BY <1>1 DEF SetFitToArea, Processors
<1>6. /\ InvalidateCache([p.zoom EXCEPT !.scale = scale]).scale = scale
      /\ InvalidateCache([p.zoom EXCEPT !.fit = fit]).scale = p.zoom.scale
  BY <1>1 DEF InvalidateCache, ZoomStages
<1> QED
  BY <1>2, <1>3, <1>4, <1>5, <1>6

\* A quarter turn, against the flip when there is one.
LEMMA RotationsFace ==
    ASSUME NEW p, Sound(p)
    PROVE  LET f == Facing(p)
               l == Facing(RotateLeft(p))
               r == Facing(RotateRight(p))
           IN  /\ l.h = f.h /\ l.v = f.v /\ r.h = f.h /\ r.v = f.v
               /\ l.q = IF f.h \/ f.v THEN (f.q + 1) % 4 ELSE (f.q + 3) % 4
               /\ r.q = IF f.h \/ f.v THEN (f.q + 3) % 4 ELSE (f.q + 1) % 4
<1>1. p \in Processors /\ p.rotation \in RotationStages
  BY DEF Sound, Processors
<1>2. /\ TurnLeft(p.rotation).index = (p.rotation.index + 3) % 4
      /\ TurnRight(p.rotation).index = (p.rotation.index + 1) % 4
  BY <1>1 DEF TurnLeft, TurnRight, InvalidateCache, RotationStages
<1>3. /\ RotateLeft(p).flip = p.flip /\ RotateRight(p).flip = p.flip
      /\ RotateLeft(p).rotation = IF IsFlipped(p) THEN TurnRight(p.rotation)
                                                  ELSE TurnLeft(p.rotation)
      /\ RotateRight(p).rotation = IF IsFlipped(p) THEN TurnLeft(p.rotation)
                                                   ELSE TurnRight(p.rotation)
  BY <1>1 DEF RotateLeft, RotateRight, Processors
<1> QED
  BY <1>2, <1>3 DEF Facing, IsFlipped

\* A flip is toggled, or both are and become a half turn.
LEMMA FlipsFace ==
    ASSUME NEW p, Sound(p)
    PROVE  LET f == Facing(p)
               turned == [h |-> FALSE, v |-> FALSE, q |-> (f.q + 2) % 4]
           IN  /\ Facing(FlipHorizontally(p)) = IF f.v THEN turned
                                                ELSE [f EXCEPT !.h = ~f.h]
               /\ Facing(FlipVertically(p)) = IF f.h THEN turned
                                              ELSE [f EXCEPT !.v = ~f.v]
<1> DEFINE hp == [p EXCEPT !.flip = ToggleH(p.flip)]
           vp == [p EXCEPT !.flip = ToggleV(p.flip)]
           f == Facing(p)
           turned == [h |-> FALSE, v |-> FALSE, q |-> (f.q + 2) % 4]
<1>1. /\ p \in Processors /\ p.flip \in FlipStages /\ p.rotation \in RotationStages
      /\ ~(p.flip.h /\ p.flip.v)
  BY DEF Sound, Processors
<1>2. \A q \in Processors :
          Facing(Flip(q)) = IF q.flip.h /\ q.flip.v
                            THEN [h |-> FALSE, v |-> FALSE, q |-> (q.rotation.index + 2) % 4]
                            ELSE Facing(q)
  <2> TAKE q \in Processors
  <2>1. q.flip \in FlipStages /\ q.rotation \in RotationStages
    BY DEF Processors
  <2>2. CASE q.flip.h /\ q.flip.v
    <3> DEFINE t == TurnRight(TurnRight(q.rotation))
               g == ToggleV(ToggleH(q.flip))
    <3>1. ~g.h /\ ~g.v /\ g.h \in BOOLEAN /\ g.v \in BOOLEAN
      BY <2>1, <2>2, FlipToggles DEF FlipStages
    <3>2. \A r \in RotationStages : TurnRight(r).index = (r.index + 1) % 4
      BY DEF TurnRight, InvalidateCache, RotationStages
    <3>3. t.index = (((q.rotation.index + 1) % 4) + 1) % 4
      BY <2>1, <3>2, RotationTurns
    <3>4. t.index = (q.rotation.index + 2) % 4
      BY <2>1, <3>3 DEF RotationStages
    <3>5. Flip(q).flip = g /\ Flip(q).rotation = t
      BY <2>2 DEF Flip, Processors
    <3> HIDE DEF g, t
    <3> QED
      BY <2>2, <3>1, <3>4, <3>5 DEF Facing
  <2>3. CASE ~(q.flip.h /\ q.flip.v)
    BY <2>3 DEF Flip
  <2> QED
    BY <2>2, <2>3
<1>3. /\ hp \in Processors /\ hp.flip.h = ~f.h /\ hp.flip.v = f.v
      /\ hp.rotation.index = f.q
      /\ vp \in Processors /\ vp.flip.v = ~f.v /\ vp.flip.h = f.h
      /\ vp.rotation.index = f.q
  BY <1>1, FlipToggles DEF Processors, Facing
<1>4. f \in Facings /\ ~(f.h /\ f.v)
  BY FacingType
<1>5. FlipHorizontally(p) = Flip(hp) /\ FlipVertically(p) = Flip(vp)
  BY DEF FlipHorizontally, FlipVertically
<1>6. /\ Facing(hp) = [h |-> ~f.h, v |-> f.v, q |-> f.q]
      /\ Facing(vp) = [h |-> f.h, v |-> ~f.v, q |-> f.q]
  BY <1>3 DEF Facing
<1>7. /\ Facing(Flip(hp)) = IF hp.flip.h /\ hp.flip.v THEN turned ELSE Facing(hp)
      /\ Facing(Flip(vp)) = IF vp.flip.h /\ vp.flip.v THEN turned ELSE Facing(vp)
  BY <1>2, <1>3
<1> HIDE DEF hp, vp, f, turned
<1>8. Facing(Flip(hp)) = IF f.v THEN turned ELSE [f EXCEPT !.h = ~f.h]
  BY <1>3, <1>4, <1>6, <1>7 DEF Facings
<1>9. Facing(Flip(vp)) = IF f.h THEN turned ELSE [f EXCEPT !.v = ~f.v]
  BY <1>3, <1>4, <1>6, <1>7 DEF Facings
<1> QED
  BY <1>5, <1>8, <1>9 DEF f, turned

\* Another file starts upright at 1.0; another frame changes neither.
LEMMA BindFaces ==
    ASSUME NEW p, Sound(p), NEW image
    PROVE  /\ Facing(BindImage(p, image, TRUE)) = [h |-> FALSE, v |-> FALSE, q |-> 0]
           /\ BindImage(p, image, TRUE).zoom.scale = OneScale
           /\ Facing(BindImage(p, image, FALSE)) = Facing(p)
           /\ BindImage(p, image, FALSE).zoom = p.zoom
<1>1. /\ p \in Processors /\ p.flip \in FlipStages /\ p.rotation \in RotationStages
      /\ p.zoom \in ZoomStages
  BY DEF Sound, Processors
<1> DEFINE q == BindImage(p, image, TRUE)
           n == BindImage(p, image, FALSE)
<1>2. /\ q.flip = ResetFlip(p.flip) /\ q.rotation = ResetRotation(p.rotation)
      /\ q.zoom = ResetZoom(p.zoom)
  BY <1>1 DEF BindImage, ResetTransformation, Processors
<1>3. /\ n.flip = SetIsCacheDirty(p.flip) /\ n.rotation = p.rotation
      /\ n.zoom = p.zoom
  BY <1>1 DEF BindImage, Processors
<1>4. ResetFlip(p.flip).h = FALSE /\ ResetFlip(p.flip).v = FALSE
  BY <1>1 DEF ResetFlip, SetIsCacheDirty, FlipStages
<1>5. ResetRotation(p.rotation).index = 0
  BY <1>1 DEF ResetRotation, SetIsCacheDirty, RotationStages
<1>6. ResetZoom(p.zoom).scale = OneScale
  BY <1>1 DEF ResetZoom, SetIsCacheDirty, ZoomStages
<1>7. SetIsCacheDirty(p.flip).h = p.flip.h /\ SetIsCacheDirty(p.flip).v = p.flip.v
  BY <1>1 DEF SetIsCacheDirty, FlipStages
<1> HIDE DEF q, n
<1>8. Facing(q) = [h |-> FALSE, v |-> FALSE, q |-> 0] /\ Facing(n) = Facing(p)
  BY <1>2, <1>3, <1>4, <1>5, <1>7 DEF Facing
<1> QED
  BY <1>2, <1>3, <1>6, <1>8 DEF q, n

\* process shows the picture as its settings have it and changes none of them,
\* but for the scale of a picture that is fitted.
LEMMA ProcessFaces ==
    ASSUME NEW p, Sound(p), p.image \in Images
    PROVE  LET done == Process(p).processor
               by   == Process(p).shown.by
           IN  /\ Facing(done) = Facing(p)
               /\ by.h = Facing(p).h /\ by.v = Facing(p).v /\ by.q = Facing(p).q
               /\ ~p.zoom.fit => done.zoom.scale = p.zoom.scale
<1> DEFINE done == Process(p).processor
<1>1. p \in Processors /\ Coherent(p)
  BY DEF Sound
<1>2. /\ done.flip.h = p.flip.h /\ done.flip.v = p.flip.v
      /\ done.rotation.index = p.rotation.index
      /\ done.zoom = ProcessedZoom(p)
  BY <1>1, ProcessedPipeline
<1>3. Process(p).shown.by = ZoomResult(done)
  <2>1. Process(p).shown =
            [image |-> p.image, by |-> ZoomResult(done),
             area |-> p.border.area, x |-> done.border.x,
             y |-> done.border.y, style |-> done.border.style]
    BY SoundProcess
  <2> QED
    BY <2>1
<1>4. ~p.zoom.fit => done.zoom.scale = p.zoom.scale
  BY <1>1, <1>2, ProcessedZoomResult
<1> HIDE DEF done
<1>5. /\ ZoomResult(done).h = done.flip.h /\ ZoomResult(done).v = done.flip.v
      /\ ZoomResult(done).q = done.rotation.index
  BY DEF ZoomResult, RotationResult, FlipResult
<1> QED
  BY <1>2, <1>3, <1>4, <1>5 DEF Facing, done

-----------------------------------------------------------------------------
(* The scale that fits *)

\* A quotient that is rounded down.
LEMMA DivBounds ==
    ASSUME NEW n \in Nat, NEW d \in Nat \ {0}
    PROVE  n \div d \in Nat /\ (n \div d) * d <= n /\ n < (n \div d + 1) * d
<1> DEFINE q == n \div d
<1>1. q \in Nat /\ n % d \in 0..(d - 1) /\ n = d * q + (n % d)
  OBVIOUS
<1> HIDE DEF q
<1>2. q * d = d * q /\ (q + 1) * d = d * q + d /\ d * q \in Nat
  BY <1>1
<1> QED
  BY <1>1, <1>2 DEF q

\* The order of products by a positive number.
LEMMA ProductOrder ==
    ASSUME NEW a \in Nat, NEW b \in Nat, NEW d \in Nat \ {0}
    PROVE  (a <= b => a * d <= b * d) /\ (a * d <= b * d => a <= b)
<1>1. a <= b => a * d <= b * d
  OBVIOUS
<1>2. ASSUME ~(a <= b) PROVE ~(a * d <= b * d)
  <2>1. PICK k \in Nat \ {0} : a = b + k
    <3>1. a - b \in Nat \ {0} /\ a = b + (a - b)
      BY <1>2
    <3> QED
      BY <3>1
  <2>2. a * d = b * d + k * d /\ k * d \in Nat /\ k * d > 0 /\ b * d \in Nat
    BY <2>1
  <2> QED
    BY <2>2
<1> QED
  BY <1>1, <1>2

\* The scale at which one side, a long, meets the area's is too small for the
\* other side, b long, to reach over it.
LEMMA SideFits ==
    ASSUME NEW a \in Nat \ {0}, NEW b \in Nat \ {0}, NEW roomA \in Nat, NEW roomB \in Nat,
           NEW one \in Nat \ {0}, roomA * b <= roomB * a
    PROVE  LET s == (roomA * one) \div a
           IN  /\ s \in Nat
               /\ a * s <= roomA * one
               /\ b * s <= roomB * one
               /\ roomA * one < a * (s + 1)
<1> DEFINE s == (roomA * one) \div a
<1>1. roomA * one \in Nat /\ roomB * one \in Nat
  OBVIOUS
<1>2. s \in Nat /\ s * a <= roomA * one /\ roomA * one < (s + 1) * a
  BY <1>1, DivBounds
<1> HIDE DEF s
<1>3. a * s = s * a /\ a * (s + 1) = (s + 1) * a
  BY <1>2
<1>4. b * s <= roomB * one
  <2>1. (b * s) * a = (s * a) * b
    BY <1>2
  <2>2. (s * a) * b <= (roomA * one) * b
    <3>1. s * a \in Nat
      BY <1>2
    <3> QED
      BY <1>1, <1>2, <3>1, ProductOrder
  <2>3. (roomA * one) * b = (roomA * b) * one
    OBVIOUS
  <2>4. (roomA * b) * one <= (roomB * a) * one
    <3>1. roomA * b \in Nat /\ roomB * a \in Nat
      OBVIOUS
    <3> QED
      BY <3>1, ProductOrder
  <2>5. (roomB * a) * one = (roomB * one) * a
    OBVIOUS
  <2>6. b * s \in Nat /\ (b * s) * a \in Nat /\ (s * a) * b \in Nat
        /\ (roomA * one) * b \in Nat /\ (roomB * a) * one \in Nat
    BY <1>2
  <2>7. (b * s) * a <= (roomB * one) * a
    BY <2>1, <2>2, <2>3, <2>4, <2>5, <2>6
  <2> QED
    BY <1>1, <2>6, <2>7, ProductOrder
<1> QED
  BY <1>2, <1>3, <1>4 DEF s

\* The fit of a picture: all of it is in the area, and one unit of the scale more
\* would take a side over it.
LEMMA FitScaleFits ==
    ASSUME NEW size \in [w: Nat \ {0}, h: Nat \ {0}], NEW area \in Extents
    PROVE  LET s == FitScale(size, area)
           IN  /\ s \in Nat
               /\ size.w * s <= area.w * OneScale
               /\ size.h * s <= area.h * OneScale
               /\ \/ area.w * OneScale < size.w * (s + 1)
                  \/ area.h * OneScale < size.h * (s + 1)
<1>1. /\ size.w \in Nat \ {0} /\ size.h \in Nat \ {0}
      /\ area.w \in Nat /\ area.h \in Nat /\ OneScale \in Nat \ {0}
  BY ScaleAssumption DEF Extents
<1>2. CASE area.w * size.h < area.h * size.w
  <2>1. area.w * size.h <= area.h * size.w
    BY <1>1, <1>2
  <2>2. FitScale(size, area) = (area.w * OneScale) \div size.w
    BY <1>2 DEF FitScale
  <2> DEFINE s == (area.w * OneScale) \div size.w
  <2>3. /\ s \in Nat /\ size.w * s <= area.w * OneScale
        /\ size.h * s <= area.h * OneScale /\ area.w * OneScale < size.w * (s + 1)
    BY ONLY <1>1, <2>1, SideFits
  <2> HIDE DEF s
  <2>4. FitScale(size, area) = s
    BY <2>2 DEF s
  <2> QED
    BY <2>3, <2>4
<1>3. CASE ~(area.w * size.h < area.h * size.w)
  <2>1. area.h * size.w <= area.w * size.h
    BY <1>1, <1>3
  <2>2. FitScale(size, area) = (area.h * OneScale) \div size.h
    BY <1>3 DEF FitScale
  <2> DEFINE s == (area.h * OneScale) \div size.h
  <2>3. /\ s \in Nat /\ size.h * s <= area.h * OneScale
        /\ size.w * s <= area.w * OneScale /\ area.h * OneScale < size.h * (s + 1)
    BY ONLY <1>1, <2>1, SideFits
  <2> HIDE DEF s
  <2>4. FitScale(size, area) = s
    BY <2>2 DEF s
  <2> QED
    BY <2>3, <2>4
<1> QED
  BY <1>2, <1>3

\* What scaling leaves of a side that fits is within the area.
LEMMA ScaledWithin ==
    ASSUME NEW side \in Nat, NEW s \in Nat, NEW room \in Nat,
           side * s <= room * OneScale
    PROVE  (side * Abs(s)) \div OneScale <= room
<1> DEFINE q == (side * s) \div OneScale
<1>1. side * s \in Nat /\ OneScale \in Nat \ {0} /\ Abs(s) = s
  BY ScaleAssumption DEF Abs
<1>2. q \in Nat /\ q * OneScale <= side * s
  BY <1>1, DivBounds
<1> HIDE DEF q
<1>3. q * OneScale <= room * OneScale
  <2>1. q * OneScale \in Nat /\ room * OneScale \in Nat
    BY <1>1, <1>2
  <2> QED
    BY <1>1, <1>2, <2>1
<1>4. q <= room
  BY <1>1, <1>2, <1>3, ProductOrder
<1> QED
  BY <1>1, <1>4 DEF q

-----------------------------------------------------------------------------
(* The invariant *)

\* The picture s is the frame image under the settings of p in a window area.
Current(s, image, p, area) ==
    s = [image |-> image, by |-> ZoomResult(p), area |-> area,
         x |-> p.border.x, y |-> p.border.y, style |-> p.border.style]

InBounds(s) ==
    LET canvas == ExpandedTo(TransformedSize(s.image, s.by), s.area)
    IN  /\ s.x \in 0..(canvas.w - s.area.w)
        /\ s.y \in 0..(canvas.h - s.area.h)

\* The pipeline works on the frame that is on view.
BoundToView == original \in Images => processor.image = original

IndInv ==
    /\ TypeOK
    /\ Sound(processor)
    /\ BoundToView
    /\ original \in Images => /\ Current(shown, original, processor, window)
                              /\ InBounds(shown)
    /\ FitActionAgrees

-----------------------------------------------------------------------------
\* transformImage shows the current picture, or nothing new without a frame.
LEMMA TransformedImageResult ==
    ASSUME NEW p, Sound(p), NEW image \in Images \cup {NullImage},
           NEW area \in Areas, shown \in Pictures,
           image \in Images => p.image = image
    PROVE  LET r == TransformedImage(p, image, area)
           IN  /\ Sound(r.processor)
               /\ r.processor.image = p.image
               /\ r.processor.zoom.fit = p.zoom.fit
               /\ r.shown \in Pictures
               /\ image \in Images => /\ Current(r.shown, image, r.processor, area)
                                      /\ InBounds(r.shown)
<1>1. CASE image = NullImage
  BY <1>1, ImageAssumption DEF TransformedImage
<1>2. CASE image \in Images
  <2> DEFINE sized == SetAreaSize(p, area)
  <2>1. /\ Sound(sized) /\ sized.image = image
        /\ sized.zoom.fit = p.zoom.fit /\ sized.border.area = area
    BY <1>2, SoundSetAreaSize
  <2>2. TransformedImage(p, image, area) = Process(sized)
    BY <1>2, ImageAssumption DEF TransformedImage
  <2> HIDE DEF sized
  <2>3. /\ Sound(Process(sized).processor)
        /\ Process(sized).processor.image = image
        /\ Process(sized).processor.zoom.fit = p.zoom.fit
        /\ Process(sized).shown \in Pictures
        /\ Current(Process(sized).shown, image, Process(sized).processor, area)
    BY <1>2, <2>1, SoundProcess DEF Current
  <2>4. InBounds(Process(sized).shown)
    BY <1>2, <2>1, ProcessScrollsInBounds DEF InBounds
  <2> QED
    BY <1>2, <2>2, <2>3, <2>4
<1> QED
  BY <1>1, <1>2

LEMMA SoundFitSet ==
    ASSUME NEW p, Sound(p), NEW enabled \in BOOLEAN
    PROVE  /\ Sound(FitSet(p, enabled))
           /\ FitSet(p, enabled).image = p.image
           /\ FitSet(p, enabled).zoom.fit = enabled
<1> DEFINE fitted == SetFitToArea(p, enabled)
<1>1. Sound(fitted) /\ fitted.image = p.image /\ fitted.zoom.fit = enabled
  BY SoundSetFitToArea
<1>2. FitSet(p, enabled) = SetScaleFactor(fitted, OneScale) /\ OneScale \in Int
  BY ScaleAssumption DEF FitSet
<1> HIDE DEF fitted
<1> QED
  BY <1>1, <1>2, SoundSetScaleFactor

LEMMA SoundFitUnchecked ==
    ASSUME IndInv
    PROVE  /\ Sound(FitUnchecked(processor))
           /\ FitUnchecked(processor).image = processor.image
           /\ FitUnchecked(processor).zoom.fit = FALSE
<1>1. CASE ~fitAction
  BY <1>1 DEF IndInv, FitUnchecked, FitActionAgrees
<1>2. CASE fitAction
  <2> DEFINE p == FitSet(processor, FALSE)
  <2>1. Sound(p) /\ p.image = processor.image /\ p.zoom.fit = FALSE
    BY SoundFitSet DEF IndInv
  <2>2. FitUnchecked(processor) = TransformedImage(p, original, window).processor
    BY <1>2 DEF FitUnchecked, AfterRepaint
  <2> HIDE DEF p
  <2> QED
    BY <2>1, <2>2, TransformedImageResult DEF IndInv, TypeOK, BoundToView
<1> QED
  BY <1>1, <1>2 DEF IndInv, TypeOK

\* The limits of zoom are scale factors.
LEMMA SoundZoomed ==
    ASSUME NEW p, Sound(p), NEW factor \in Int
    PROVE  /\ Sound(ZoomedIn(p, factor))
           /\ ZoomedIn(p, factor).image = p.image
           /\ ZoomedIn(p, factor).zoom.fit = p.zoom.fit
           /\ Sound(ZoomedOut(p, factor))
           /\ ZoomedOut(p, factor).image = p.image
           /\ ZoomedOut(p, factor).zoom.fit = p.zoom.fit
<1>1. p.zoom.scale \in Int
  BY DEF Sound, Processors, ZoomStages
<1>2. MaxScale \in Int /\ MinScale \in Int
  BY ViewAssumption
<1>3. /\ Smaller(p.zoom.scale + factor, MaxScale) \in Int
      /\ Larger(p.zoom.scale - factor, MinScale) \in Int
  BY <1>1, <1>2 DEF Smaller, Larger
<1> QED
  BY <1>3, SoundSetScaleFactor DEF ZoomedIn, ZoomedOut

\* Setting the fit alone changes nothing of what is on the screen.
LEMMA SetFitToAreaShowsSame ==
    ASSUME NEW p, Sound(p), NEW fit \in BOOLEAN
    PROVE  /\ ZoomResult(SetFitToArea(p, fit)) = ZoomResult(p)
           /\ SetFitToArea(p, fit).border = p.border
<1> DEFINE z == InvalidateCache([p.zoom EXCEPT !.fit = fit])
<1>1. p \in Processors /\ p.zoom \in ZoomStages
  BY DEF Sound, Processors
<1>2. z.scale = p.zoom.scale
  BY <1>1 DEF InvalidateCache, ZoomStages
<1>3. SetFitToArea(p, fit) = [p EXCEPT !.zoom = z]
  BY <1>1 DEF SetFitToArea
<1> HIDE DEF z
<1> QED
  BY <1>1, <1>2, <1>3 DEF ZoomResult, RotationResult, FlipResult, Processors

\* A handler that ends in a repaint of the frame on view keeps the invariant
\* when what it repaints is sound and agrees with the menu about the fit.
LEMMA RepaintKeepsInv ==
    ASSUME IndInv, NEW p, Sound(p), p.image = processor.image,
           p.zoom.fit = fitAction', fitAction' \in BOOLEAN,
           Repaint(p), UNCHANGED <<original, window>>
    PROVE  IndInv'
<1> DEFINE r == TransformedImage(p, original, window)
<1>1. /\ original \in Images \cup {NullImage} /\ window \in Areas
      /\ shown \in Pictures /\ blind \in 0..BlindBound
      /\ original \in Images => p.image = original
  BY DEF IndInv, TypeOK, BoundToView
<1>2. /\ Sound(r.processor) /\ r.processor.image = p.image
      /\ r.processor.zoom.fit = p.zoom.fit
      /\ r.shown \in Pictures
      /\ original \in Images => /\ Current(r.shown, original, r.processor, window)
                                /\ InBounds(r.shown)
  BY <1>1, TransformedImageResult
<1>3. processor' = r.processor /\ shown' = r.shown /\ CountBlind
  BY DEF Repaint
<1> HIDE DEF r
<1>4. blind' \in 0..BlindBound
  BY <1>1, <1>3, ViewAssumption DEF CountBlind
<1>5. TypeOK'
  BY <1>1, <1>2, <1>3, <1>4 DEF TypeOK, Sound
<1> QED
  BY <1>1, <1>2, <1>3, <1>5 DEF IndInv, BoundToView, FitActionAgrees

LEMMA InitEstablishesInv ==
    ASSUME Init PROVE IndInv
<1>1. PICK style \in Styles :
          processor = LET p == InitProcessor(style)
                      IN  IF fitAction
                          THEN SetScaleFactor(SetFitToArea(p, TRUE), OneScale)
                          ELSE p
  BY DEF Init
<1>2. /\ original = NullImage /\ window \in Areas /\ fitAction \in BOOLEAN
      /\ shown = Blank(processor) /\ blind = 0
  BY DEF Init
<1> DEFINE p == InitProcessor(style)
<1>3. Sound(p) /\ p.zoom.fit = FALSE
  BY InitProcessorType DEF Sound, InitProcessor, InitFlip, InitZoom
<1>4. Sound(processor) /\ processor.zoom.fit = fitAction
  <2>1. CASE fitAction
    <3>1. processor = FitSet(p, TRUE)
      BY <1>1, <2>1 DEF FitSet
    <3> HIDE DEF p
    <3> QED
      BY <1>3, <2>1, <3>1, SoundFitSet
  <2>2. CASE ~fitAction
    BY <1>1, <1>2, <1>3, <2>2
  <2> QED
    BY <1>2, <2>1, <2>2
<1>5. Blank(processor) \in Pictures
  BY <1>4, IdentityType, NoExtentType
     DEF Blank, Pictures, Sound, Processors, BorderStages
<1>6. 0 \in 0..BlindBound
  BY ViewAssumption
<1>7. TypeOK
  BY <1>2, <1>4, <1>5, <1>6 DEF TypeOK, Sound
<1> QED
  BY <1>2, <1>4, <1>7, ImageAssumption DEF IndInv, BoundToView, FitActionAgrees

\* showImage and onNextImage: another frame is bound and becomes the view.
LEMMA FrameKeepsInv ==
    ASSUME IndInv, NEW image \in Images \cup {NullImage}, NEW reset \in BOOLEAN,
           original' = image, blind' \in {0, blind}, UNCHANGED <<window, fitAction>>,
           LET r == TransformedImage(BindImage(processor, image, reset), image, window)
           IN  processor' = r.processor /\ shown' = r.shown
    PROVE  IndInv'
<1> DEFINE p == BindImage(processor, image, reset)
           r == TransformedImage(p, image, window)
<1>1. window \in Areas /\ shown \in Pictures /\ fitAction \in BOOLEAN
  BY DEF IndInv, TypeOK
<1>2. Sound(p) /\ p.image = image /\ p.zoom.fit = fitAction
  BY SoundBindImage DEF IndInv, FitActionAgrees
<1> HIDE DEF p
<1>3. /\ Sound(r.processor) /\ r.processor.image = p.image
      /\ r.processor.zoom.fit = p.zoom.fit
      /\ r.shown \in Pictures
      /\ image \in Images => /\ Current(r.shown, image, r.processor, window)
                             /\ InBounds(r.shown)
  BY <1>1, <1>2, TransformedImageResult
<1>4. processor' = r.processor /\ shown' = r.shown
  BY DEF p
<1> HIDE DEF r
<1>5. 0 \in 0..BlindBound /\ blind \in 0..BlindBound
  BY ViewAssumption DEF IndInv, TypeOK
<1>6. TypeOK'
  BY <1>1, <1>3, <1>4, <1>5 DEF TypeOK, Sound
<1> QED
  BY <1>2, <1>3, <1>4, <1>6 DEF IndInv, BoundToView, FitActionAgrees

LEMMA NextKeepsInv ==
    ASSUME IndInv, [Next]_vars PROVE IndInv'
<1>1. /\ Sound(processor) /\ processor.zoom.fit = fitAction /\ fitAction \in BOOLEAN
      /\ OffsetStep \in Int /\ -OffsetStep \in Int /\ ZoomStep \in Int
  BY ViewAssumption DEF IndInv, FitActionAgrees, TypeOK
<1>2. ASSUME NEW image \in Images, ShowImage(image) PROVE IndInv'
  BY <1>2, FrameKeepsInv DEF ShowImage
<1>3. CASE ShowUndecodable
  BY <1>3, ImageAssumption
     DEF ShowUndecodable, IndInv, TypeOK, BoundToView, FitActionAgrees
<1>4. ASSUME NEW image \in Images \cup {NullImage}, NextImage(image) PROVE IndInv'
  BY <1>4, FrameKeepsInv DEF NextImage
<1>5. CASE FlipHorizontallyTriggered
  BY <1>1, <1>5, SoundFlips, RepaintKeepsInv DEF FlipHorizontallyTriggered
<1>6. CASE FlipVerticallyTriggered
  BY <1>1, <1>6, SoundFlips, RepaintKeepsInv DEF FlipVerticallyTriggered
<1>7. CASE RotateLeftTriggered
  BY <1>1, <1>7, SoundRotations, RepaintKeepsInv DEF RotateLeftTriggered
<1>8. CASE RotateRightTriggered
  BY <1>1, <1>8, SoundRotations, RepaintKeepsInv DEF RotateRightTriggered
<1>9. CASE ScrollLeft \/ ScrollRight
  BY <1>1, <1>9, SoundOffsets, RepaintKeepsInv DEF ScrollLeft, ScrollRight, ScrolledX
<1>10. CASE ScrollUp \/ ScrollDown
  BY <1>1, <1>10, SoundOffsets, RepaintKeepsInv DEF ScrollUp, ScrollDown, ScrolledY
<1>11. ASSUME NEW drag \in Drags, ScrollTo(drag) PROVE IndInv'
  <2>1. -drag[1] \in Int /\ -drag[2] \in Int
    BY ViewAssumption
  <2> DEFINE moved == AddImageOffsetX(processor, -drag[1])
             x == AfterRepaint(moved)
             y == AddImageOffsetY(x, -drag[2])
  <2>2. Sound(moved) /\ moved.image = processor.image /\ moved.zoom.fit = fitAction
    BY <1>1, <2>1, SoundOffsets
  <2> HIDE DEF moved
  <2>3. Sound(x) /\ x.image = processor.image /\ x.zoom.fit = fitAction
    BY <2>2, TransformedImageResult DEF AfterRepaint, IndInv, TypeOK, BoundToView
  <2> HIDE DEF x
  <2>4. Sound(y) /\ y.image = processor.image /\ y.zoom.fit = fitAction
    BY <2>1, <2>3, SoundOffsets
  <2>5. Repaint(y) /\ UNCHANGED <<original, window, fitAction>>
    BY <1>11 DEF ScrollTo, x, moved
  <2> HIDE DEF y
  <2> QED
    BY <1>1, <2>4, <2>5, RepaintKeepsInv
<1>12. ASSUME NEW factor \in WheelSteps, WheelZoom(factor) PROVE IndInv'
  <2>1. factor \in Int
    BY ViewAssumption
  <2> QED
    BY <1>1, <1>12, <2>1, SoundZoomed, RepaintKeepsInv DEF WheelZoom
<1>13. ASSUME NEW value \in Pinches, GestureZoom(value) PROVE IndInv'
  <2>1. value \in Int /\ -value \in Int
    BY ViewAssumption
  <2>2. CASE value >= 0
    BY <1>1, <1>13, <2>1, <2>2, SoundZoomed, RepaintKeepsInv DEF GestureZoom
  <2>3. CASE ~(value >= 0)
    BY <1>1, <1>13, <2>1, <2>3, SoundZoomed, RepaintKeepsInv DEF GestureZoom
  <2> QED
    BY <2>2, <2>3
<1>14. CASE FitToWindowToggled
  <2> DEFINE p == FitSet(processor, ~fitAction)
  <2>1. (~fitAction) \in BOOLEAN
    BY <1>1
  <2>2. fitAction' = ~fitAction
    BY <1>14, Zenon DEF FitToWindowToggled
  <2>3. Sound(p) /\ p.image = processor.image /\ p.zoom.fit = ~fitAction
    BY <1>1, <2>1, SoundFitSet, Zenon
  <2>4. Repaint(p) /\ UNCHANGED <<original, window>>
    BY <1>14 DEF FitToWindowToggled
  <2> HIDE DEF p
  <2>5. p.zoom.fit = fitAction' /\ fitAction' \in BOOLEAN
    BY <2>1, <2>2, <2>3, Zenon
  <2> QED
    BY <2>3, <2>4, <2>5, RepaintKeepsInv, Zenon
<1>15. CASE ZoomInTriggered
  BY <1>1, <1>15, SoundFitUnchecked, SoundZoomed, RepaintKeepsInv DEF ZoomInTriggered
<1>16. CASE ZoomOutTriggered
  BY <1>1, <1>16, SoundFitUnchecked, SoundZoomed, RepaintKeepsInv
     DEF ZoomOutTriggered
<1>17. CASE OriginalSizeTriggered
  <2> DEFINE p == FitUnchecked(processor)
             q == FitSet(p, FALSE)
             r == TransformedImage(q, original, window)
  <2>1. /\ original \in Images \cup {NullImage} /\ shown \in Pictures
        /\ window \in Areas /\ blind \in 0..BlindBound
        /\ original \in Images => processor.image = original
    BY DEF IndInv, TypeOK, BoundToView
  <2>2. Sound(p) /\ p.image = processor.image /\ p.zoom.fit = FALSE
    BY SoundFitUnchecked
  <2>3. /\ fitAction' = FALSE /\ shown' = r.shown /\ CountBlind
        /\ processor' = SetFitToArea(r.processor, FALSE)
        /\ UNCHANGED <<original, window>>
    BY <1>17, <2>2, Zenon DEF OriginalSizeTriggered
  <2> HIDE DEF p
  <2>4. Sound(q) /\ q.image = processor.image
    BY <2>2, SoundFitSet
  <2> HIDE DEF q
  <2>5. /\ Sound(r.processor) /\ r.processor.image = processor.image
        /\ r.shown \in Pictures
        /\ original \in Images => /\ Current(r.shown, original, r.processor, window)
                                  /\ InBounds(r.shown)
    BY <2>1, <2>4, TransformedImageResult
  <2> HIDE DEF r
  <2>6. /\ Sound(processor') /\ processor'.image = processor.image
        /\ processor'.zoom.fit = FALSE
    <3>1. FALSE \in BOOLEAN
      OBVIOUS
    <3> QED
      BY <2>3, <2>5, <3>1, SoundSetFitToArea, Zenon
  <2>7. original \in Images => Current(shown', original, processor', window)
    BY <2>3, <2>5, SetFitToAreaShowsSame DEF Current
  <2>8. blind' \in 0..BlindBound
    BY <2>1, <2>3, ViewAssumption DEF CountBlind
  <2>9. TypeOK'
    BY <2>1, <2>3, <2>5, <2>6, <2>8 DEF TypeOK, Sound
  <2> QED
    BY <2>1, <2>3, <2>5, <2>6, <2>7, <2>9 DEF IndInv, BoundToView, FitActionAgrees
<1>18. ASSUME NEW area \in Areas, ResizeEvent(area) PROVE IndInv'
  <2> DEFINE r == TransformedImage(processor, original, area)
  <2>1. /\ original \in Images \cup {NullImage} /\ shown \in Pictures
        /\ blind \in 0..BlindBound
        /\ original \in Images => processor.image = original
    BY DEF IndInv, TypeOK, BoundToView
  <2>2. /\ Sound(r.processor) /\ r.processor.image = processor.image
        /\ r.processor.zoom.fit = fitAction
        /\ r.shown \in Pictures
        /\ original \in Images => /\ Current(r.shown, original, r.processor, area)
                                  /\ InBounds(r.shown)
    BY <1>1, <2>1, TransformedImageResult
  <2>3. /\ processor' = r.processor /\ shown' = r.shown /\ CountBlind
        /\ window' = area /\ UNCHANGED <<original, fitAction>>
    BY <1>18 DEF ResizeEvent
  <2> HIDE DEF r
  <2>4. blind' \in 0..BlindBound
    BY <2>1, <2>3, ViewAssumption DEF CountBlind
  <2>5. TypeOK'
    BY <1>1, <2>1, <2>2, <2>3, <2>4 DEF TypeOK, Sound
  <2> QED
    BY <2>1, <2>2, <2>3, <2>5 DEF IndInv, BoundToView, FitActionAgrees
<1>19. ASSUME NEW style \in Styles, SettingsAccepted(style) PROVE IndInv'
  BY <1>1, <1>19, SoundSetStyle, RepaintKeepsInv DEF SettingsAccepted
<1>20. CASE UNCHANGED vars
  BY <1>20 DEF vars, IndInv, TypeOK, BoundToView, FitActionAgrees
<1> QED
  BY <1>2, <1>3, <1>4, <1>5, <1>6, <1>7, <1>8, <1>9, <1>10, <1>11, <1>12, <1>14,
     <1>15, <1>16, <1>17, <1>18, <1>19, <1>20, <1>13 DEF Next

-----------------------------------------------------------------------------
(* The scale and the limits of zoom.  The fit leaves a scale of its own      *)
(* behind, which every way of ending the fit replaces by 1.0; what a step    *)
(* makes of the scale of a picture that is not fitted is one of a few cases. *)

\* The scale that a command works on: that of the picture, or the one that the
\* end of its fit puts back.
Base == IF fitAction THEN OneScale ELSE processor.zoom.scale

\* What a command leaves as the scale factor, if the picture is not fitted then:
\* any of the Zooms, and any step.
ZoomRescaled(s) ==
    \/ s = OneScale
    \/ \E factor \in Nat : \/ s = Smaller(Base + factor, MaxScale)
                           \/ s = Larger(Base - factor, MinScale)

Rescaled(s) ==
    \/ s = Base
    \/ \E factor \in WheelSteps : WheelZoom(factor) /\ s = Smaller(Base + factor, MaxScale)
    \/ ZoomRescaled(s)

\* The commands that turn the picture.
Turns == \/ RotateLeftTriggered       \/ RotateRightTriggered
         \/ FlipHorizontallyTriggered \/ FlipVerticallyTriggered

\* transformImage keeps what the user chose.
LEMMA TransformedImageFaces ==
    ASSUME NEW p, Sound(p), NEW image \in Images \cup {NullImage},
           NEW area \in Areas, image \in Images => p.image = image
    PROVE  LET r == TransformedImage(p, image, area)
           IN  /\ ~p.zoom.fit => r.processor.zoom.scale = p.zoom.scale
               /\ image \in Images => /\ r.shown.by.h = Facing(p).h
                                      /\ r.shown.by.v = Facing(p).v
                                      /\ r.shown.by.q = Facing(p).q
               /\ image \notin Images => r.shown = shown
<1>1. CASE image = NullImage
  BY <1>1, ImageAssumption DEF TransformedImage
<1>2. CASE image \in Images
  <2> DEFINE sized == SetAreaSize(p, area)
  <2>1. Sound(sized) /\ sized.image = image /\ sized.zoom.fit = p.zoom.fit
    BY <1>2, SoundSetAreaSize
  <2>2. Facing(sized) = Facing(p)
    BY SettersKeepFacing
  <2>3. sized.zoom.scale = p.zoom.scale
    BY SettersOfScale
  <2>4. TransformedImage(p, image, area) = Process(sized)
    BY <1>2, ImageAssumption DEF TransformedImage
  <2> HIDE DEF sized
  <2> QED
    BY <1>2, <2>1, <2>2, <2>3, <2>4, ProcessFaces
<1> QED
  BY <1>1, <1>2

LEMMA FitSetScale ==
    ASSUME NEW p, Sound(p), NEW enabled \in BOOLEAN
    PROVE  FitSet(p, enabled).zoom.scale = OneScale
<1> DEFINE fitted == SetFitToArea(p, enabled)
<1>1. Sound(fitted) /\ FitSet(p, enabled) = SetScaleFactor(fitted, OneScale)
  BY SoundSetFitToArea DEF FitSet
<1>2. OneScale \in Int
  BY ScaleAssumption
<1> HIDE DEF fitted
<1> QED
  BY <1>1, <1>2, SettersOfScale

LEMMA FitUncheckedScale ==
    ASSUME IndInv
    PROVE  FitUnchecked(processor).zoom.scale = Base
<1>1. CASE ~fitAction
  BY <1>1 DEF FitUnchecked, Base
<1>2. CASE fitAction
  <2> DEFINE p == FitSet(processor, FALSE)
  <2>1. Sound(p) /\ p.image = processor.image /\ ~p.zoom.fit
    BY SoundFitSet DEF IndInv
  <2>2. p.zoom.scale = OneScale
    BY FitSetScale DEF IndInv
  <2>3. FitUnchecked(processor) = TransformedImage(p, original, window).processor
    BY <1>2 DEF FitUnchecked, AfterRepaint
  <2> HIDE DEF p
  <2>4. FitUnchecked(processor).zoom.scale = OneScale
    BY <2>1, <2>2, <2>3, TransformedImageFaces DEF IndInv, TypeOK, BoundToView
  <2> QED
    BY <1>2, <2>4 DEF Base
<1> QED
  BY <1>1, <1>2 DEF IndInv, TypeOK

LEMMA ZoomedScale ==
    ASSUME NEW p, Sound(p), NEW factor \in Int
    PROVE  /\ ZoomedIn(p, factor).zoom.scale = Smaller(p.zoom.scale + factor, MaxScale)
           /\ ZoomedOut(p, factor).zoom.scale = Larger(p.zoom.scale - factor, MinScale)
BY SettersOfScale DEF ZoomedIn, ZoomedOut

LEMMA RepaintScales ==
    ASSUME IndInv, NEW p, Sound(p), p.image = processor.image, Repaint(p),
           ~processor'.zoom.fit
    PROVE  ~p.zoom.fit /\ processor'.zoom.scale = p.zoom.scale
<1> DEFINE r == TransformedImage(p, original, window)
<1>1. /\ original \in Images \cup {NullImage} /\ window \in Areas
      /\ shown \in Pictures
      /\ original \in Images => p.image = original
  BY DEF IndInv, TypeOK, BoundToView
<1>2. /\ r.processor.zoom.fit = p.zoom.fit
      /\ ~p.zoom.fit => r.processor.zoom.scale = p.zoom.scale
  BY <1>1, TransformedImageResult, TransformedImageFaces
<1>3. processor' = r.processor
  BY DEF Repaint
<1> QED
  BY <1>2, <1>3

LEMMA FrameScales ==
    ASSUME IndInv, NEW image \in Images \cup {NullImage},
           NEW reset \in BOOLEAN,
           processor' = TransformedImage(BindImage(processor, image, reset),
                                         image, window).processor,
           ~processor'.zoom.fit
    PROVE  /\ ~fitAction
           /\ processor'.zoom.scale = IF reset THEN OneScale ELSE processor.zoom.scale
<1> DEFINE p == BindImage(processor, image, reset)
<1>1. window \in Areas /\ shown \in Pictures /\ Sound(processor)
  BY DEF IndInv, TypeOK
<1>2. Sound(p) /\ p.image = image /\ p.zoom.fit = processor.zoom.fit
  BY <1>1, SoundBindImage
<1>3. p.zoom.scale = IF reset THEN OneScale ELSE processor.zoom.scale
  <2>1. CASE reset
    BY <1>1, <2>1, BindFaces
  <2>2. CASE ~reset
    BY <1>1, <2>2, BindFaces
  <2> QED
    BY <2>1, <2>2
<1> HIDE DEF p
<1>4. /\ TransformedImage(p, image, window).processor.zoom.fit = p.zoom.fit
      /\ ~p.zoom.fit => TransformedImage(p, image, window).processor.zoom.scale
                            = p.zoom.scale
  BY <1>1, <1>2, TransformedImageResult, TransformedImageFaces
<1>5. ~p.zoom.fit /\ processor'.zoom.scale = p.zoom.scale /\ ~fitAction
  BY <1>2, <1>4 DEF p, IndInv, FitActionAgrees
<1> QED
  BY <1>3, <1>5

\* Turning the picture, the next frame, scrolling, resizing and restyling leave the
\* scale of a picture that is not fitted alone, and the fit as it is.
LEMMA PlainKeepsScale ==
    ASSUME IndInv, Turns \/ Settles \/ UNCHANGED vars, ~fitAction'
    PROVE  ~fitAction /\ processor'.zoom.scale = processor.zoom.scale
<1> DEFINE Kept == ~fitAction /\ processor'.zoom.scale = processor.zoom.scale
<1>1. /\ Sound(processor) /\ fitAction \in BOOLEAN /\ processor.zoom.fit = fitAction
      /\ OffsetStep \in Int /\ -OffsetStep \in Int
      /\ ZoomStep \in Int /\ ZoomStep \in Nat
      /\ processor.zoom.scale \in Int
  BY ViewAssumption
     DEF IndInv, TypeOK, FitActionAgrees, Sound, Processors, ZoomStages
<1>2. ~processor'.zoom.fit
  <2>1. [Next]_vars
    BY DEF Next, Turns, Settles
  <2> QED
    BY <2>1, NextKeepsInv DEF IndInv, FitActionAgrees
<1>3. ASSUME NEW p, Sound(p), p.image = processor.image, p.zoom = processor.zoom,
             Repaint(p)
      PROVE  Kept
  <2>1. ~p.zoom.fit /\ processor'.zoom.scale = p.zoom.scale
    BY <1>2, <1>3, RepaintScales
  <2> QED
    BY <1>1, <1>3, <2>1
<1>4. ASSUME NEW image \in Images \cup {NullImage}, NextImage(image) PROVE Kept
  BY <1>2, <1>4, FrameScales DEF NextImage
<1>5. CASE FlipHorizontallyTriggered \/ FlipVerticallyTriggered
  BY <1>1, <1>3, <1>5, SoundFlips
     DEF FlipHorizontallyTriggered, FlipVerticallyTriggered
<1>6. CASE RotateLeftTriggered \/ RotateRightTriggered
  BY <1>1, <1>3, <1>6, SoundRotations DEF RotateLeftTriggered, RotateRightTriggered
<1>7. CASE ScrollLeft \/ ScrollRight \/ ScrollUp \/ ScrollDown
  BY <1>1, <1>3, <1>7, SoundOffsets
     DEF ScrollLeft, ScrollRight, ScrollUp, ScrollDown, ScrolledX, ScrolledY
<1>8. ASSUME NEW drag \in Drags, ScrollTo(drag) PROVE Kept
  <2>1. -drag[1] \in Int /\ -drag[2] \in Int
    BY ViewAssumption
  <2> DEFINE moved == AddImageOffsetX(processor, -drag[1])
             x == AfterRepaint(moved)
             y == AddImageOffsetY(x, -drag[2])
  <2>2. Sound(moved) /\ moved.image = processor.image /\ moved.zoom = processor.zoom
    BY <1>1, <2>1, SoundOffsets
  <2> HIDE DEF moved
  <2>3. /\ Sound(x) /\ x.image = processor.image /\ x.zoom.fit = processor.zoom.fit
        /\ ~moved.zoom.fit => x.zoom.scale = moved.zoom.scale
    BY <2>2, TransformedImageResult, TransformedImageFaces
       DEF AfterRepaint, IndInv, TypeOK, BoundToView
  <2> HIDE DEF x
  <2>4. Sound(y) /\ y.image = processor.image /\ y.zoom = x.zoom
    BY <2>1, <2>3, SoundOffsets
  <2>5. Repaint(y)
    BY <1>8 DEF ScrollTo, x, moved
  <2> HIDE DEF y
  <2>6. ~y.zoom.fit /\ processor'.zoom.scale = y.zoom.scale
    BY <1>2, <2>4, <2>5, RepaintScales
  <2> QED
    BY <1>1, <2>2, <2>3, <2>4, <2>6
<1>9. ASSUME NEW area \in Areas, ResizeEvent(area)
       PROVE  Kept
  <2> DEFINE r == TransformedImage(processor, original, area)
  <2>1. /\ r.processor.zoom.fit = processor.zoom.fit
        /\ ~processor.zoom.fit => r.processor.zoom.scale = processor.zoom.scale
    BY <1>1, TransformedImageResult, TransformedImageFaces
       DEF IndInv, TypeOK, BoundToView
  <2>2. processor' = r.processor
    BY <1>9 DEF ResizeEvent
  <2> QED
    BY <1>1, <1>2, <2>1, <2>2
<1>10. ASSUME NEW style \in Styles, SettingsAccepted(style)
       PROVE  Kept
  BY <1>1, <1>3, <1>10, SoundSetStyle DEF SettingsAccepted
<1>11. CASE ShowUndecodable \/ UNCHANGED vars
  <2>1. processor' = processor
    BY <1>11 DEF ShowUndecodable, vars
  <2> QED
    BY <1>1, <1>2, <2>1
<1> QED
  BY <1>4, <1>5, <1>6, <1>7, <1>8, <1>9, <1>10, <1>11 DEF Turns, Settles

LEMMA ZoomsRescale ==
    ASSUME IndInv, Zooms, ~fitAction'
    PROVE  ZoomRescaled(processor'.zoom.scale)
<1>1. /\ Sound(processor) /\ fitAction \in BOOLEAN /\ processor.zoom.fit = fitAction
      /\ OffsetStep \in Int /\ -OffsetStep \in Int
      /\ ZoomStep \in Int /\ ZoomStep \in Nat
      /\ processor.zoom.scale \in Int
  BY ViewAssumption
     DEF IndInv, TypeOK, FitActionAgrees, Sound, Processors, ZoomStages
<1>2. ~processor'.zoom.fit
  <2>1. [Next]_vars
    BY DEF Next, Zooms
  <2> QED
    BY <2>1, NextKeepsInv DEF IndInv, FitActionAgrees
<1>3. ASSUME NEW value \in Pinches, GestureZoom(value)
       PROVE  ZoomRescaled(processor'.zoom.scale)
  <2>1. value \in Int /\ -value \in Int
    BY ViewAssumption
  <2>2. CASE value >= 0
    <3> DEFINE p == ZoomedIn(processor, value)
    <3>1. /\ Sound(p) /\ p.image = processor.image /\ p.zoom.fit = fitAction
          /\ p.zoom.scale = Smaller(processor.zoom.scale + value, MaxScale)
      BY <1>1, <2>1, SoundZoomed, ZoomedScale
    <3>2. Repaint(p)
      BY <1>3, <2>2 DEF GestureZoom
    <3> HIDE DEF p
    <3>3. ~p.zoom.fit /\ processor'.zoom.scale = p.zoom.scale
      BY <1>2, <3>1, <3>2, RepaintScales
    <3>4. processor'.zoom.scale = Smaller(Base + value, MaxScale) /\ value \in Nat
      BY <2>1, <2>2, <3>1, <3>3 DEF Base
    <3> QED
      BY <3>4 DEF ZoomRescaled
  <2>3. CASE ~(value >= 0)
    <3> DEFINE p == ZoomedOut(processor, -value)
    <3>1. /\ Sound(p) /\ p.image = processor.image /\ p.zoom.fit = fitAction
          /\ p.zoom.scale = Larger(processor.zoom.scale - (-value), MinScale)
      BY <1>1, <2>1, SoundZoomed, ZoomedScale
    <3>2. Repaint(p)
      BY <1>3, <2>3 DEF GestureZoom
    <3> HIDE DEF p
    <3>3. ~p.zoom.fit /\ processor'.zoom.scale = p.zoom.scale
      BY <1>2, <3>1, <3>2, RepaintScales
    <3>4. processor'.zoom.scale = Larger(Base - (-value), MinScale) /\ -value \in Nat
      BY <2>1, <2>3, <3>1, <3>3 DEF Base
    <3> QED
      BY <3>4 DEF ZoomRescaled
  <2> QED
    BY <2>2, <2>3
<1>4. CASE FitToWindowToggled
  <2> DEFINE p == FitSet(processor, ~fitAction)
  <2>1. (~fitAction) \in BOOLEAN
    BY <1>1
  <2>2. Sound(p) /\ p.image = processor.image /\ p.zoom.scale = OneScale
    BY <1>1, <2>1, SoundFitSet, FitSetScale, Zenon
  <2>3. Repaint(p)
    BY <1>4 DEF FitToWindowToggled
  <2> HIDE DEF p
  <2>4. processor'.zoom.scale = OneScale
    BY <1>2, <2>2, <2>3, RepaintScales
  <2> QED
    BY <2>4 DEF ZoomRescaled
<1>5. CASE ZoomInTriggered \/ ZoomOutTriggered
  <2> DEFINE p == FitUnchecked(processor)
  <2>1. Sound(p) /\ p.image = processor.image /\ p.zoom.scale = Base
    BY SoundFitUnchecked, FitUncheckedScale
  <2>2. Repaint(ZoomedIn(p, ZoomStep)) \/ Repaint(ZoomedOut(p, ZoomStep))
    BY <1>5 DEF ZoomInTriggered, ZoomOutTriggered
  <2> HIDE DEF p
  <2>3. \/ processor'.zoom.scale = Smaller(Base + ZoomStep, MaxScale)
        \/ processor'.zoom.scale = Larger(Base - ZoomStep, MinScale)
    BY <1>1, <1>2, <2>1, <2>2, SoundZoomed, ZoomedScale, RepaintScales
  <2> QED
    BY <1>1, <2>3 DEF ZoomRescaled
<1>6. CASE OriginalSizeTriggered
  <2> DEFINE p == FitUnchecked(processor)
             q == FitSet(p, FALSE)
             r == TransformedImage(q, original, window)
  <2>1. Sound(p) /\ p.image = processor.image /\ p.zoom.fit = FALSE
    BY SoundFitUnchecked
  <2>2. processor' = SetFitToArea(r.processor, FALSE)
    BY <1>6, <2>1, Zenon DEF OriginalSizeTriggered
  <2> HIDE DEF p
  <2>3. /\ Sound(q) /\ q.image = processor.image
        /\ q.zoom.fit = FALSE /\ q.zoom.scale = OneScale
    BY <2>1, SoundFitSet, FitSetScale
  <2> HIDE DEF q
  <2>4. Sound(r.processor) /\ r.processor.zoom.scale = OneScale
    BY <2>3, TransformedImageResult, TransformedImageFaces
       DEF IndInv, TypeOK, BoundToView
  <2> HIDE DEF r
  <2>5. processor'.zoom.scale = OneScale
    BY <2>2, <2>4, SettersOfScale
  <2> QED
    BY <2>5 DEF ZoomRescaled
<1> QED
  BY <1>3, <1>4, <1>5, <1>6 DEF Zooms

LEMMA NextRescales ==
    ASSUME IndInv, [Next]_vars, ~fitAction'
    PROVE  Rescaled(processor'.zoom.scale)
<1>1. /\ Sound(processor) /\ fitAction \in BOOLEAN /\ processor.zoom.fit = fitAction
      /\ OffsetStep \in Int /\ -OffsetStep \in Int
      /\ ZoomStep \in Int /\ ZoomStep \in Nat
      /\ processor.zoom.scale \in Int
  BY ViewAssumption
     DEF IndInv, TypeOK, FitActionAgrees, Sound, Processors, ZoomStages
<1>2. ~processor'.zoom.fit
  BY NextKeepsInv DEF IndInv, FitActionAgrees
<1>3. CASE Turns \/ Settles \/ UNCHANGED vars
  BY <1>3, PlainKeepsScale DEF Rescaled, Base
<1>4. CASE Zooms
  BY <1>4, ZoomsRescale DEF Rescaled
<1>5. ASSUME NEW image \in Images, ShowImage(image)
      PROVE  Rescaled(processor'.zoom.scale)
  BY <1>2, <1>5, FrameScales DEF ShowImage, Rescaled, ZoomRescaled
<1>6. ASSUME NEW factor \in WheelSteps, WheelZoom(factor)
       PROVE  Rescaled(processor'.zoom.scale)
  <2>1. factor \in Int
    BY ViewAssumption
  <2> DEFINE p == ZoomedIn(processor, factor)
  <2>2. /\ Sound(p) /\ p.image = processor.image /\ p.zoom.fit = fitAction
        /\ p.zoom.scale = Smaller(processor.zoom.scale + factor, MaxScale)
    BY <1>1, <2>1, SoundZoomed, ZoomedScale
  <2>3. Repaint(p)
    BY <1>6 DEF WheelZoom
  <2> HIDE DEF p
  <2>4. ~p.zoom.fit /\ processor'.zoom.scale = p.zoom.scale
    BY <1>2, <2>2, <2>3, RepaintScales
  <2>5. Base = processor.zoom.scale
    BY <2>2, <2>4 DEF Base
  <2>6. WheelZoom(factor) /\ processor'.zoom.scale = Smaller(Base + factor, MaxScale)
    BY <1>6, <2>2, <2>4, <2>5
  <2> HIDE DEF WheelZoom, Base
  <2> QED
    BY <2>6 DEF Rescaled
<1> QED
  BY <1>3, <1>4, <1>5, <1>6 DEF Next, Turns, Zooms, Settles

\* No case takes the scale over the upper limit, and only the wheel takes it below
\* the lower one.
LEMMA RescaledWithin ==
    ASSUME Base \in Int, NEW s, Rescaled(s)
    PROVE  /\ Base <= MaxScale => s <= MaxScale
           /\ \/ Base >= MinScale => s >= MinScale
              \/ \E factor \in WheelSteps : WheelZoom(factor)
<1>1. /\ MinScale \in Int /\ MaxScale \in Int /\ OneScale \in Int
      /\ MinScale <= OneScale /\ OneScale <= MaxScale /\ WheelSteps \subseteq Int
  BY ViewAssumption, ScaleAssumption
<1>2. CASE s \in {Base, OneScale}
  BY <1>1, <1>2
<1>3. ASSUME NEW factor \in WheelSteps, WheelZoom(factor),
             s = Smaller(Base + factor, MaxScale)
      PROVE  s <= MaxScale /\ \E f \in WheelSteps : WheelZoom(f)
  <2>1. s <= MaxScale
    BY <1>1, <1>3 DEF Smaller
  <2> HIDE DEF WheelZoom
  <2> QED
    BY <1>3, <2>1
<1>4. ASSUME NEW factor \in Nat, s = Smaller(Base + factor, MaxScale)
      PROVE  s <= MaxScale /\ (Base >= MinScale => s >= MinScale)
  BY <1>1, <1>4 DEF Smaller
<1>5. ASSUME NEW factor \in Nat, s = Larger(Base - factor, MinScale)
      PROVE  (Base <= MaxScale => s <= MaxScale) /\ s >= MinScale
  BY <1>1, <1>5 DEF Larger
<1> HIDE DEF WheelZoom, Base
<1> QED
  BY <1>2, <1>3, <1>4, <1>5 DEF Rescaled, ZoomRescaled

LEMMA BaseType == IndInv => Base \in Int
BY ScaleAssumption DEF IndInv, TypeOK, Base, Processors, ZoomStages

LEMMA InitScale ==
    ASSUME Init PROVE processor.zoom.scale = OneScale
<1>1. PICK style \in Styles :
          processor = LET p == InitProcessor(style)
                      IN  IF fitAction
                          THEN SetScaleFactor(SetFitToArea(p, TRUE), OneScale)
                          ELSE p
  BY DEF Init
<1> DEFINE p == InitProcessor(style)
<1>2. Sound(p) /\ p.zoom.scale = OneScale
  BY InitProcessorType DEF Sound, InitProcessor, InitFlip, InitZoom
<1>3. CASE fitAction
  <2>1. processor = FitSet(p, TRUE)
    BY <1>1, <1>3 DEF FitSet
  <2> HIDE DEF p
  <2> QED
    BY <1>2, <2>1, FitSetScale
<1>4. CASE ~fitAction
  BY <1>1, <1>2, <1>4
<1> QED
  BY <1>3, <1>4

-----------------------------------------------------------------------------
(* The fit.  Every repaint of a fitted picture computes the scale anew, from *)
(* the transformation that the picture is then painted with.                *)

\* The size that the pipeline takes the picture under transformation t to have.
FittedExtent(image, t) ==
    IF IsRotating(t) /\ ~IsProject(t)
    THEN [w |-> Extent[image].h, h |-> Extent[image].w]
    ELSE Extent[image]

\* The picture s is painted at the scale that fits this size to the window.
PaintedFitted(s) == s.by.s = FitScale(FittedExtent(s.image, s.by), s.area)

FitShown == original \in Images /\ processor.zoom.fit => PaintedFitted(shown)

LEMMA SetAreaSizeAreas ==
    ASSUME NEW p, Sound(p), NEW area \in Areas
    PROVE  LET sized == SetAreaSize(p, area)
           IN  sized.zoom.area = area /\ sized.border.area = area
<1>1. p \in Processors /\ p.zoom \in ZoomStages /\ p.border \in BorderStages
  BY DEF Sound, Processors
<1>2. /\ SetAreaSize(p, area).zoom = SetZoomArea(p.zoom, area)
      /\ SetAreaSize(p, area).border = SetBorderArea(p.border, area)
  BY <1>1 DEF SetAreaSize, Processors
<1>3. SetZoomArea(p.zoom, area).area = area
  BY <1>1 DEF SetZoomArea, InvalidateCache, ZoomStages
<1>4. SetBorderArea(p.border, area).area = area
  BY <1>1 DEF SetBorderArea, BorderStages
<1> QED
  BY <1>2, <1>3, <1>4

LEMMA ProcessFits ==
    ASSUME NEW p, Sound(p), p.image \in Images, p.zoom.fit,
           p.zoom.area = p.border.area
    PROVE  PaintedFitted(Process(p).shown)
<1> DEFINE done == Process(p).processor
           z == ProcessedZoom(p)
<1>1. p \in Processors /\ Coherent(p)
  BY DEF Sound
<1>2. /\ Process(p).shown = Painted(done) /\ done.image = p.image
      /\ done.zoom = z /\ done.border.area = p.border.area
  BY <1>1, ProcessedPipeline
<1>3. /\ z.size = Extent[p.image] /\ z.orig = RotationResult(p)
      /\ z.scale = FitScale(FittedSize(z), p.zoom.area)
      /\ z.cached = [RotationResult(p) EXCEPT !.s = z.scale]
  BY <1>1, ProcessedZoomResult
<1> HIDE DEF z, done
<1>4. RotationResult(p) \in Transforms
  BY <1>1, ResultTypes
<1>5. /\ z.cached.h = RotationResult(p).h /\ z.cached.v = RotationResult(p).v
      /\ z.cached.q = RotationResult(p).q /\ z.cached.s = z.scale
  BY <1>3, <1>4 DEF Transforms
<1>6. FittedExtent(p.image, z.cached) = FittedSize(z)
  BY <1>3, <1>5 DEF FittedExtent, FittedSize, IsRotating, IsProject
<1>7. /\ Painted(done).image = p.image /\ Painted(done).by = z.cached
      /\ Painted(done).area = p.border.area
  BY <1>2 DEF Painted
<1> QED
  BY <1>2, <1>3, <1>5, <1>6, <1>7 DEF PaintedFitted

LEMMA TransformedImageFits ==
    ASSUME NEW p, Sound(p), NEW image \in Images, p.image = image, p.zoom.fit,
           NEW area \in Areas
    PROVE  PaintedFitted(TransformedImage(p, image, area).shown)
<1> DEFINE sized == SetAreaSize(p, area)
<1>1. Sound(sized) /\ sized.image = image /\ sized.zoom.fit = p.zoom.fit
  BY SoundSetAreaSize
<1>2. sized.zoom.area = area /\ sized.border.area = area
  BY SetAreaSizeAreas
<1>3. TransformedImage(p, image, area) = Process(sized)
  BY ImageAssumption DEF TransformedImage
<1> HIDE DEF sized
<1> QED
  BY <1>1, <1>2, <1>3, ProcessFits

LEMMA RepaintFits ==
    ASSUME IndInv, NEW p, Sound(p), p.image = processor.image, Repaint(p),
           UNCHANGED <<original, window>>
    PROVE  FitShown'
<1> DEFINE r == TransformedImage(p, original, window)
<1>1. /\ original \in Images \cup {NullImage} /\ window \in Areas
      /\ shown \in Pictures
      /\ original \in Images => p.image = original
  BY DEF IndInv, TypeOK, BoundToView
<1>2. r.processor.zoom.fit = p.zoom.fit
  BY <1>1, TransformedImageResult
<1>3. original \in Images /\ p.zoom.fit => PaintedFitted(r.shown)
  BY <1>1, TransformedImageFits
<1>4. processor' = r.processor /\ shown' = r.shown
  BY DEF Repaint
<1> QED
  BY <1>2, <1>3, <1>4 DEF FitShown, PaintedFitted

LEMMA FrameFits ==
    ASSUME IndInv, NEW image \in Images \cup {NullImage}, NEW reset \in BOOLEAN,
           original' = image,
           LET r == TransformedImage(BindImage(processor, image, reset), image, window)
           IN  processor' = r.processor /\ shown' = r.shown
    PROVE  FitShown'
<1> DEFINE p == BindImage(processor, image, reset)
           r == TransformedImage(p, image, window)
<1>1. window \in Areas /\ shown \in Pictures
  BY DEF IndInv, TypeOK
<1>2. Sound(p) /\ p.image = image
  BY SoundBindImage DEF IndInv
<1> HIDE DEF p
<1>3. r.processor.zoom.fit = p.zoom.fit
  BY <1>1, <1>2, TransformedImageResult
<1>4. image \in Images /\ p.zoom.fit => PaintedFitted(r.shown)
  BY <1>1, <1>2, TransformedImageFits
<1>5. processor' = r.processor /\ shown' = r.shown
  BY DEF p
<1> QED
  BY <1>3, <1>4, <1>5 DEF FitShown, PaintedFitted

LEMMA NextFits ==
    ASSUME IndInv, FitShown, [Next]_vars PROVE FitShown'
<1>1. /\ Sound(processor) /\ fitAction \in BOOLEAN
      /\ OffsetStep \in Int /\ -OffsetStep \in Int /\ ZoomStep \in Int
  BY ViewAssumption DEF IndInv, TypeOK
<1>2. ASSUME NEW image \in Images, ShowImage(image) PROVE FitShown'
  BY <1>2, FrameFits DEF ShowImage
<1>3. CASE ShowUndecodable
  BY <1>3, ImageAssumption DEF ShowUndecodable, FitShown
<1>4. ASSUME NEW image \in Images \cup {NullImage}, NextImage(image) PROVE FitShown'
  BY <1>4, FrameFits DEF NextImage
<1>5. CASE FlipHorizontallyTriggered \/ FlipVerticallyTriggered
  BY <1>1, <1>5, SoundFlips, RepaintFits
     DEF FlipHorizontallyTriggered, FlipVerticallyTriggered
<1>6. CASE RotateLeftTriggered \/ RotateRightTriggered
  BY <1>1, <1>6, SoundRotations, RepaintFits
     DEF RotateLeftTriggered, RotateRightTriggered
<1>7. CASE ScrollLeft \/ ScrollRight \/ ScrollUp \/ ScrollDown
  BY <1>1, <1>7, SoundOffsets, RepaintFits
     DEF ScrollLeft, ScrollRight, ScrollUp, ScrollDown, ScrolledX, ScrolledY
<1>8. ASSUME NEW drag \in Drags, ScrollTo(drag) PROVE FitShown'
  <2>1. -drag[1] \in Int /\ -drag[2] \in Int
    BY ViewAssumption
  <2> DEFINE moved == AddImageOffsetX(processor, -drag[1])
             x == AfterRepaint(moved)
             y == AddImageOffsetY(x, -drag[2])
  <2>2. Sound(moved) /\ moved.image = processor.image
    BY <1>1, <2>1, SoundOffsets
  <2> HIDE DEF moved
  <2>3. Sound(x) /\ x.image = processor.image
    BY <2>2, TransformedImageResult DEF AfterRepaint, IndInv, TypeOK, BoundToView
  <2> HIDE DEF x
  <2>4. Sound(y) /\ y.image = processor.image
    BY <2>1, <2>3, SoundOffsets
  <2>5. Repaint(y) /\ UNCHANGED <<original, window>>
    BY <1>8 DEF ScrollTo, x, moved
  <2> HIDE DEF y
  <2> QED
    BY <2>4, <2>5, RepaintFits
<1>9. ASSUME NEW factor \in WheelSteps, WheelZoom(factor) PROVE FitShown'
  <2>1. factor \in Int
    BY ViewAssumption
  <2> QED
    BY <1>1, <1>9, <2>1, SoundZoomed, RepaintFits DEF WheelZoom
<1>10. ASSUME NEW value \in Pinches, GestureZoom(value) PROVE FitShown'
  <2>1. value \in Int /\ -value \in Int
    BY ViewAssumption
  <2>2. CASE value >= 0
    BY <1>1, <1>10, <2>1, <2>2, SoundZoomed, RepaintFits DEF GestureZoom
  <2>3. CASE ~(value >= 0)
    BY <1>1, <1>10, <2>1, <2>3, SoundZoomed, RepaintFits DEF GestureZoom
  <2> QED
    BY <2>2, <2>3
<1>11. CASE FitToWindowToggled
  <2> DEFINE p == FitSet(processor, ~fitAction)
  <2>1. (~fitAction) \in BOOLEAN
    BY <1>1
  <2>2. Sound(p) /\ p.image = processor.image
    BY <1>1, <2>1, SoundFitSet, Zenon
  <2>3. Repaint(p) /\ UNCHANGED <<original, window>>
    BY <1>11 DEF FitToWindowToggled
  <2> HIDE DEF p
  <2> QED
    BY <2>2, <2>3, RepaintFits
<1>12. CASE ZoomInTriggered \/ ZoomOutTriggered
  BY <1>1, <1>12, SoundFitUnchecked, SoundZoomed, RepaintFits
     DEF ZoomInTriggered, ZoomOutTriggered
<1>13. CASE OriginalSizeTriggered
  <2>1. IndInv' /\ fitAction' = FALSE
    BY <1>13, NextKeepsInv, Zenon DEF Next, OriginalSizeTriggered
  <2> QED
    BY <2>1 DEF IndInv, FitActionAgrees, FitShown
<1>14. ASSUME NEW area \in Areas, ResizeEvent(area) PROVE FitShown'
  <2> DEFINE r == TransformedImage(processor, original, area)
  <2>1. /\ original \in Images \cup {NullImage} /\ shown \in Pictures
        /\ original \in Images => processor.image = original
    BY DEF IndInv, TypeOK, BoundToView
  <2>2. r.processor.zoom.fit = processor.zoom.fit
    BY <1>1, <2>1, TransformedImageResult
  <2>3. original \in Images /\ processor.zoom.fit => PaintedFitted(r.shown)
    BY <1>1, <2>1, TransformedImageFits
  <2>4. processor' = r.processor /\ shown' = r.shown /\ original' = original
    BY <1>14 DEF ResizeEvent
  <2> QED
    BY <2>2, <2>3, <2>4 DEF FitShown, PaintedFitted
<1>15. ASSUME NEW style \in Styles, SettingsAccepted(style) PROVE FitShown'
  BY <1>1, <1>15, SoundSetStyle, RepaintFits DEF SettingsAccepted
<1>16. CASE UNCHANGED vars
  BY <1>16 DEF vars, FitShown, PaintedFitted
<1> QED
  BY <1>2, <1>3, <1>4, <1>5, <1>6, <1>7, <1>8, <1>9, <1>10, <1>11, <1>12, <1>13,
     <1>14, <1>15, <1>16 DEF Next

\* A scale computed for the size the picture has on the screen fits it.
LEMMA FittedPictureFits ==
    ASSUME NEW s \in Pictures, s.image \in Images, PaintedFitted(s),
           FittedExtent(s.image, s.by) = Turned(Extent[s.image], s.by.q)
    PROVE  Fits(s)
<1> DEFINE full == Turned(Extent[s.image], s.by.q)
           w == (Extent[s.image].w * Abs(s.by.s)) \div OneScale
           h == (Extent[s.image].h * Abs(s.by.s)) \div OneScale
           size == TransformedSize(s.image, s.by)
<1>1. /\ s.area \in Extents /\ s.area.w \in Nat /\ s.area.h \in Nat
      /\ Extent[s.image] \in [w: Nat \ {0}, h: Nat \ {0}]
  BY ImageAssumption DEF Pictures, Extents
<1>2. full \in [w: Nat \ {0}, h: Nat \ {0}]
  BY <1>1 DEF Turned
<1>3. s.by.s = FitScale(full, s.area)
  BY DEF PaintedFitted
<1>4. full.w = (IF s.by.q % 2 = 1 THEN Extent[s.image].h ELSE Extent[s.image].w)
      /\ full.h = (IF s.by.q % 2 = 1 THEN Extent[s.image].w ELSE Extent[s.image].h)
  BY DEF Turned
<1>5. size = IF w = 0 \/ h = 0 THEN NoExtent
             ELSE IF s.by.q % 2 = 1 THEN [w |-> h, h |-> w] ELSE [w |-> w, h |-> h]
  BY DEF TransformedSize, Turned
<1> HIDE DEF full, size
<1>6. /\ s.by.s \in Nat
      /\ full.w * s.by.s <= s.area.w * OneScale
      /\ full.h * s.by.s <= s.area.h * OneScale
      /\ \/ s.area.w * OneScale < full.w * (s.by.s + 1)
         \/ s.area.h * OneScale < full.h * (s.by.s + 1)
  BY <1>1, <1>2, <1>3, FitScaleFits
<1>7. size.w <= s.area.w /\ size.h <= s.area.h
  <2>1. CASE s.by.q % 2 = 1
    <3>1. h <= s.area.w /\ w <= s.area.h
      BY <1>1, <1>4, <1>6, <2>1, ScaledWithin
    <3> HIDE DEF w, h
    <3> QED
      BY <1>1, <1>5, <2>1, <3>1 DEF NoExtent
  <2>2. CASE s.by.q % 2 # 1
    <3>1. w <= s.area.w /\ h <= s.area.h
      BY <1>1, <1>4, <1>6, <2>2, ScaledWithin
    <3> HIDE DEF w, h
    <3> QED
      BY <1>1, <1>5, <2>2, <3>1 DEF NoExtent
  <2> QED
    BY <2>1, <2>2
<1> QED
  BY <1>6, <1>7 DEF Fits, full, size

LEMMA FitShownFits ==
    ASSUME IndInv, FitShown PROVE FitToWindowUnlessFlippedOnSide
<1> SUFFICES ASSUME original # NullImage, fitAction,
                    IsFlipped(processor) => processor.rotation.index % 2 = 0
             PROVE  Fits(shown)
  BY DEF FitToWindowUnlessFlippedOnSide
<1>1. /\ original \in Images /\ shown \in Pictures /\ processor \in Processors
      /\ shown.image = original /\ shown.by = ZoomResult(processor)
  BY DEF IndInv, TypeOK, Current
<1>2. PaintedFitted(shown)
  BY <1>1 DEF IndInv, FitActionAgrees, FitShown
<1>3. /\ shown.by.h = processor.flip.h /\ shown.by.v = processor.flip.v
      /\ shown.by.q = processor.rotation.index /\ processor.rotation.index \in 0..3
  BY <1>1 DEF ZoomResult, RotationResult, FlipResult, Processors, RotationStages
<1>4. FittedExtent(shown.image, shown.by) = Turned(Extent[shown.image], shown.by.q)
  BY <1>3 DEF FittedExtent, Turned, IsRotating, IsProject, IsFlipped
<1> QED
  BY <1>1, <1>2, <1>4, FittedPictureFits

-----------------------------------------------------------------------------
(* The orientation on the screen.  What the picture faces is a function of  *)
(* the two flips and the quarter turns alone, so that every command is      *)
(* compared with its namesake of Orientation on the few values these have.  *)
(* A negative scale turns that by a half turn, which commutes with them.    *)

\* The corner that a scale above 0 brings to corner c, and the whole view.
FacedCorner(t, c) ==
    LET beforeV == IF t.v THEN (5 - c) % 4 ELSE c
        beforeH == IF t.h THEN 3 - beforeV ELSE beforeV
    IN  (beforeH + 4 - t.q) % 4

Seen(t) == [c \in 0..3 |-> FacedCorner(t, c)]

Faced == Seen(shown.by)

\* A view turned by a half turn.
HalfTurned(view) == [c \in 0..3 |-> view[(c + 2) % 4]]

LEMMA SeenOfFacing ==
    ASSUME NEW s, NEW t, s.h = t.h, s.v = t.v, s.q = t.q
    PROVE  Seen(s) = Seen(t)
BY DEF Seen, FacedCorner

LEMMA SeenUpright ==
    ASSUME NEW t, t.h = FALSE, t.v = FALSE, t.q = 0
    PROVE  Seen(t) = Screen!Upright
<1>1. \A c \in 0..3 : FacedCorner(t, c) = c
  BY DEF FacedCorner
<1> QED
  BY <1>1 DEF Seen, Screen!Upright, Screen!Corners

\* Everything that is turned stays below two full turns.
Wrap(n) == IF n < 4 THEN n ELSE n - 4

LEMMA WrapIsModulo == \A n \in 0..7 : n % 4 = Wrap(n) /\ Wrap(n) \in 0..3
BY DEF Wrap

LEMMA CornerIsWrapped ==
    ASSUME NEW t, t.h \in BOOLEAN, t.v \in BOOLEAN, t.q \in 0..3, NEW c \in 0..3
    PROVE  LET beforeV == IF t.v THEN Wrap(5 - c) ELSE c
               beforeH == IF t.h THEN 3 - beforeV ELSE beforeV
           IN  FacedCorner(t, c) = Wrap(beforeH + 4 - t.q)
<1> DEFINE beforeV == IF t.v THEN Wrap(5 - c) ELSE c
           beforeH == IF t.h THEN 3 - beforeV ELSE beforeV
<1>1. 5 - c \in 0..7
  OBVIOUS
<1>2. (5 - c) % 4 = Wrap(5 - c) /\ Wrap(5 - c) \in 0..3
  BY <1>1, WrapIsModulo
<1>3. beforeH \in 0..3
  BY <1>2
<1>4. FacedCorner(t, c) = (beforeH + 4 - t.q) % 4
  BY <1>2 DEF FacedCorner
<1> HIDE DEF beforeH
<1>5. beforeH + 4 - t.q \in 0..7
  BY <1>3
<1>6. FacedCorner(t, c) = Wrap(beforeH + 4 - t.q)
  BY <1>4, <1>5, WrapIsModulo
<1> QED
  BY <1>6 DEF beforeH

\* Under one flip a quarter turn before it looks like one the other way after it.
LEMMA SeenTurned ==
    ASSUME NEW f \in Facings, NEW g \in Facings, ~(f.h /\ f.v), g.h = f.h, g.v = f.v
    PROVE  /\ g.q = (IF f.h \/ f.v THEN (f.q + 3) % 4 ELSE (f.q + 1) % 4) =>
                  Seen(g) = [c \in 0..3 |-> Seen(f)[(c + 3) % 4]]
           /\ g.q = (IF f.h \/ f.v THEN (f.q + 1) % 4 ELSE (f.q + 3) % 4) =>
                  Seen(g) = [c \in 0..3 |-> Seen(f)[(c + 1) % 4]]
<1>1. /\ f.h \in BOOLEAN /\ f.v \in BOOLEAN /\ f.q \in 0..3
      /\ g.h \in BOOLEAN /\ g.v \in BOOLEAN /\ g.q \in 0..3
  BY DEF Facings
<1>2. \A c \in 0..3 : (c + 3) % 4 \in 0..3 /\ (c + 1) % 4 \in 0..3
  OBVIOUS
<1> DEFINE further == Wrap(f.q + 1)
           back == Wrap(f.q + 3)
<1>a. (f.q + 1) % 4 = further /\ (f.q + 3) % 4 = back
  <2>1. f.q + 1 \in 0..7 /\ f.q + 3 \in 0..7
    BY <1>1
  <2> QED
    BY <2>1, WrapIsModulo
<1>b. \A c \in 0..3 : (c + 1) % 4 = Wrap(c + 1) /\ (c + 3) % 4 = Wrap(c + 3)
  <2>1. \A c \in 0..3 : c + 1 \in 0..7 /\ c + 3 \in 0..7
    OBVIOUS
  <2> QED
    BY <2>1, WrapIsModulo
<1>3. ASSUME g.q = IF f.h \/ f.v THEN (f.q + 3) % 4 ELSE (f.q + 1) % 4, NEW c \in 0..3
      PROVE  FacedCorner(g, c) = FacedCorner(f, (c + 3) % 4)
  <2>a. Wrap(c + 3) \in 0..3 /\ (c + 3) % 4 = Wrap(c + 3)
    BY <1>2, <1>b
  <2>b. FacedCorner(g, c) =
              LET beforeV == IF g.v THEN Wrap(5 - c) ELSE c
                  beforeH == IF g.h THEN 3 - beforeV ELSE beforeV
              IN  Wrap(beforeH + 4 - g.q)
    BY <1>1, CornerIsWrapped
  <2>c. FacedCorner(f, Wrap(c + 3)) =
              LET beforeV == IF f.v THEN Wrap(5 - Wrap(c + 3)) ELSE Wrap(c + 3)
                  beforeH == IF f.h THEN 3 - beforeV ELSE beforeV
              IN  Wrap(beforeH + 4 - f.q)
    BY <1>1, <2>a, CornerIsWrapped
  <2>1. CASE ~f.h /\ ~f.v
    BY <1>1, <1>3, <1>a, <2>a, <2>b, <2>c, <2>1 DEF Wrap
  <2>2. CASE f.h /\ ~f.v
    BY <1>1, <1>3, <1>a, <2>a, <2>b, <2>c, <2>2 DEF Wrap
  <2>3. CASE ~f.h /\ f.v
    BY <1>1, <1>3, <1>a, <2>a, <2>b, <2>c, <2>3 DEF Wrap
  <2> QED
    BY <1>1, <2>1, <2>2, <2>3
<1>4. ASSUME g.q = IF f.h \/ f.v THEN (f.q + 1) % 4 ELSE (f.q + 3) % 4, NEW c \in 0..3
      PROVE  FacedCorner(g, c) = FacedCorner(f, (c + 1) % 4)
  <2>a. Wrap(c + 1) \in 0..3 /\ (c + 1) % 4 = Wrap(c + 1)
    BY <1>2, <1>b
  <2>b. FacedCorner(g, c) =
              LET beforeV == IF g.v THEN Wrap(5 - c) ELSE c
                  beforeH == IF g.h THEN 3 - beforeV ELSE beforeV
              IN  Wrap(beforeH + 4 - g.q)
    BY <1>1, CornerIsWrapped
  <2>c. FacedCorner(f, Wrap(c + 1)) =
              LET beforeV == IF f.v THEN Wrap(5 - Wrap(c + 1)) ELSE Wrap(c + 1)
                  beforeH == IF f.h THEN 3 - beforeV ELSE beforeV
              IN  Wrap(beforeH + 4 - f.q)
    BY <1>1, <2>a, CornerIsWrapped
  <2>1. CASE ~f.h /\ ~f.v
    <3>1. g.q = Wrap(f.q + 3) /\ ~g.h /\ ~g.v
      BY <1>1, <1>4, <1>a, <2>1
    <3>2. FacedCorner(g, c) = Wrap(c + 4 - Wrap(f.q + 3))
      BY <2>b, <3>1
    <3>3. FacedCorner(f, Wrap(c + 1)) = Wrap(Wrap(c + 1) + 4 - f.q)
      BY <2>c, <2>1
    <3>4. Wrap(c + 4 - Wrap(f.q + 3)) = Wrap(Wrap(c + 1) + 4 - f.q)
      BY <1>1 DEF Wrap
    <3> QED
      BY <2>a, <3>2, <3>3, <3>4
  <2>2. CASE f.h /\ ~f.v
    BY <1>1, <1>4, <1>a, <2>a, <2>b, <2>c, <2>2 DEF Wrap
  <2>3. CASE ~f.h /\ f.v
    BY <1>1, <1>4, <1>a, <2>a, <2>b, <2>c, <2>3 DEF Wrap
  <2> QED
    BY <1>1, <2>1, <2>2, <2>3
<1> QED
  BY <1>2, <1>3, <1>4 DEF Seen

\* A second flip, which becomes a half turn, looks like the second flip.
LEMMA SeenFlipped ==
    ASSUME NEW f \in Facings, ~(f.h /\ f.v)
    PROVE  LET turned == [h |-> FALSE, v |-> FALSE, q |-> (f.q + 2) % 4]
               fh == IF f.v THEN turned ELSE [f EXCEPT !.h = ~f.h]
               fv == IF f.h THEN turned ELSE [f EXCEPT !.v = ~f.v]
           IN  /\ Seen(fh) = [c \in 0..3 |-> Seen(f)[3 - c]]
               /\ Seen(fv) = [c \in 0..3 |-> Seen(f)[(5 - c) % 4]]
<1> DEFINE turned == [h |-> FALSE, v |-> FALSE, q |-> (f.q + 2) % 4]
           fh == IF f.v THEN turned ELSE [f EXCEPT !.h = ~f.h]
           fv == IF f.h THEN turned ELSE [f EXCEPT !.v = ~f.v]
<1>1. f.h \in BOOLEAN /\ f.v \in BOOLEAN /\ f.q \in 0..3
  BY DEF Facings
<1>2. \A c \in 0..3 : 3 - c \in 0..3 /\ (5 - c) % 4 \in 0..3
  OBVIOUS
<1>3. /\ f.v => /\ fh.h = FALSE /\ fh.v = FALSE
                /\ fh.q = (f.q + 2) % 4
      /\ ~f.v => fh.h = ~f.h /\ fh.v = FALSE /\ fh.q = f.q
      /\ f.h => /\ fv.h = FALSE /\ fv.v = FALSE
                /\ fv.q = (f.q + 2) % 4
      /\ ~f.h => fv.h = FALSE /\ fv.v = ~f.v /\ fv.q = f.q
  <2>1. CASE f.v
    BY <1>1, <2>1 DEF Facings
  <2>2. CASE ~f.v
    BY <1>1, <2>2 DEF Facings
  <2> QED
    BY <2>1, <2>2
<1> HIDE DEF fh, fv, turned
<1>a. (f.q + 2) % 4 = Wrap(f.q + 2) /\ Wrap(f.q + 2) \in 0..3
  <2>1. f.q + 2 \in 0..7
    BY <1>1
  <2> QED
    BY <2>1, WrapIsModulo
<1>b. /\ fh.h \in BOOLEAN /\ fh.v \in BOOLEAN /\ fh.q \in 0..3
      /\ fv.h \in BOOLEAN /\ fv.v \in BOOLEAN /\ fv.q \in 0..3
  BY <1>1, <1>3, <1>a
<1>c. \A c \in 0..3 : (5 - c) % 4 = Wrap(5 - c)
  <2>1. \A c \in 0..3 : 5 - c \in 0..7
    OBVIOUS
  <2> QED
    BY <2>1, WrapIsModulo
<1>4. ASSUME NEW c \in 0..3 PROVE FacedCorner(fh, c) = FacedCorner(f, 3 - c)
  <2>a. 3 - c \in 0..3
    BY <1>2
  <2>b. FacedCorner(fh, c) =
              LET beforeV == IF fh.v THEN Wrap(5 - c) ELSE c
                  beforeH == IF fh.h THEN 3 - beforeV ELSE beforeV
              IN  Wrap(beforeH + 4 - fh.q)
    BY <1>b, CornerIsWrapped
  <2>c. FacedCorner(f, 3 - c) =
              LET beforeV == IF f.v THEN Wrap(5 - (3 - c)) ELSE 3 - c
                  beforeH == IF f.h THEN 3 - beforeV ELSE beforeV
              IN  Wrap(beforeH + 4 - f.q)
    BY <1>1, <2>a, CornerIsWrapped
  <2>1. CASE ~f.h /\ ~f.v
    <3>1. fh.h /\ ~fh.v /\ fh.q = f.q
      BY <1>3, <2>1
    <3>2. FacedCorner(fh, c) = Wrap(3 - c + 4 - f.q)
      BY <2>b, <3>1
    <3>3. FacedCorner(f, 3 - c) = Wrap(3 - c + 4 - f.q)
      BY <2>c, <2>1
    <3> QED
      BY <3>2, <3>3
  <2>2. CASE f.h /\ ~f.v
    BY <1>1, <1>3, <1>a, <2>a, <2>b, <2>c, <2>2 DEF Wrap
  <2>3. CASE ~f.h /\ f.v
    <3>1. ~fh.h /\ ~fh.v /\ fh.q = Wrap(f.q + 2)
      BY <1>3, <1>a, <2>3
    <3>2. FacedCorner(fh, c) = Wrap(c + 4 - Wrap(f.q + 2))
      BY <2>b, <3>1
    <3>3. FacedCorner(f, 3 - c) = Wrap(Wrap(5 - (3 - c)) + 4 - f.q)
      BY <2>c, <2>3
    <3>4. Wrap(c + 4 - Wrap(f.q + 2)) = Wrap(Wrap(5 - (3 - c)) + 4 - f.q)
      BY <1>1 DEF Wrap
    <3> QED
      BY <3>2, <3>3, <3>4
  <2> QED
    BY <1>1, <2>1, <2>2, <2>3
<1>5. ASSUME NEW c \in 0..3 PROVE FacedCorner(fv, c) = FacedCorner(f, (5 - c) % 4)
  <2>a. Wrap(5 - c) \in 0..3 /\ (5 - c) % 4 = Wrap(5 - c)
    BY <1>2, <1>c
  <2>b. FacedCorner(fv, c) =
              LET beforeV == IF fv.v THEN Wrap(5 - c) ELSE c
                  beforeH == IF fv.h THEN 3 - beforeV ELSE beforeV
              IN  Wrap(beforeH + 4 - fv.q)
    BY <1>b, CornerIsWrapped
  <2>c. FacedCorner(f, Wrap(5 - c)) =
              LET beforeV == IF f.v THEN Wrap(5 - Wrap(5 - c)) ELSE Wrap(5 - c)
                  beforeH == IF f.h THEN 3 - beforeV ELSE beforeV
              IN  Wrap(beforeH + 4 - f.q)
    BY <1>1, <2>a, CornerIsWrapped
  <2>1. CASE ~f.h /\ ~f.v
    <3>1. ~fv.h /\ fv.v /\ fv.q = f.q
      BY <1>3, <2>1
    <3>2. FacedCorner(fv, c) = Wrap(Wrap(5 - c) + 4 - f.q)
      BY <2>b, <3>1
    <3>3. FacedCorner(f, Wrap(5 - c)) = Wrap(Wrap(5 - c) + 4 - f.q)
      BY <2>c, <2>1
    <3> QED
      BY <2>a, <3>2, <3>3
  <2>2. CASE f.h /\ ~f.v
    BY <1>1, <1>3, <1>a, <2>a, <2>b, <2>c, <2>2 DEF Wrap
  <2>3. CASE ~f.h /\ f.v
    BY <1>1, <1>3, <1>a, <2>a, <2>b, <2>c, <2>3 DEF Wrap
  <2> QED
    BY <1>1, <2>1, <2>2, <2>3
<1>6. Seen(fh) = [c \in 0..3 |-> Seen(f)[3 - c]]
  BY <1>2, <1>4 DEF Seen
<1>7. Seen(fv) = [c \in 0..3 |-> Seen(f)[(5 - c) % 4]]
  BY <1>2, <1>5 DEF Seen
<1> QED
  BY <1>6, <1>7 DEF fh, fv, turned

\* What is on the screen faces as the pipeline does.
LEMMA ScreenFaces ==
    ASSUME IndInv, original \in Images
    PROVE  Faced = Seen(Facing(processor))
<1>1. shown.by = ZoomResult(processor)
  BY DEF IndInv, Current
<1>2. /\ shown.by.h = Facing(processor).h /\ shown.by.v = Facing(processor).v
      /\ shown.by.q = Facing(processor).q
  BY <1>1 DEF Facing, ZoomResult, RotationResult, FlipResult
<1>3. Faced = Seen(shown.by)
  BY DEF Faced
<1> QED
  BY <1>2, <1>3, SeenOfFacing

\* A handler that ends in a repaint shows the frame on view as the pipeline it
\* repaints faces, and leaves the screen alone without a frame.
LEMMA RepaintShows ==
    ASSUME IndInv, NEW p, Sound(p), NEW area \in Areas,
           original \in Images => p.image = original,
           shown' = TransformedImage(p, original, area).shown
    PROVE  /\ original \in Images => Faced' = Seen(Facing(p))
           /\ original \notin Images => Faced' = Faced
<1> DEFINE r == TransformedImage(p, original, area)
<1>1. original \in Images \cup {NullImage}
  BY DEF IndInv, TypeOK
<1>2. /\ original \in Images => /\ r.shown.by.h = Facing(p).h
                                /\ r.shown.by.v = Facing(p).v
                                /\ r.shown.by.q = Facing(p).q
      /\ original \notin Images => r.shown = shown
  BY <1>1, TransformedImageFaces
<1>3. shown' = r.shown
  OBVIOUS
<1> HIDE DEF r
<1>4. Faced' = Seen(shown'.by) /\ Faced = Seen(shown.by)
  BY DEF Faced, Seen, FacedCorner
<1>5. original \in Images => Seen(r.shown.by) = Seen(Facing(p))
  BY <1>2, SeenOfFacing
<1> QED
  BY <1>2, <1>3, <1>4, <1>5

\* So a repaint that turns nothing leaves what is faced as it is.
LEMMA RepaintKeepsFaced ==
    ASSUME IndInv, NEW p, Sound(p), p.image = processor.image, NEW area \in Areas,
           Facing(p) = Facing(processor),
           shown' = TransformedImage(p, original, area).shown
    PROVE  Faced' = Faced
<1>1. original \in Images => p.image = original
  BY DEF IndInv, BoundToView
<1> QED
  BY <1>1, RepaintShows, ScreenFaces

\* The same for a command, which repaints in the window as it is.
LEMMA CommandKeepsFaced ==
    ASSUME IndInv, NEW p, Sound(p), p.image = processor.image,
           Facing(p) = Facing(processor), Repaint(p)
    PROVE  Faced' = Faced
<1>1. window \in Areas /\ shown' = TransformedImage(p, original, window).shown
  BY DEF IndInv, TypeOK, Repaint
<1> QED
  BY <1>1, RepaintKeepsFaced

LEMMA ZoomKeepsFacing ==
    ASSUME NEW p, Sound(p), NEW enabled \in BOOLEAN, NEW factor
    PROVE  /\ Facing(FitSet(p, enabled)) = Facing(p)
           /\ Facing(ZoomedIn(p, factor)) = Facing(p)
           /\ Facing(ZoomedOut(p, factor)) = Facing(p)
<1> DEFINE fitted == SetFitToArea(p, enabled)
<1>1. Sound(fitted) /\ Facing(fitted) = Facing(p)
  BY SoundSetFitToArea, SettersKeepFacing
<1>2. FitSet(p, enabled) = SetScaleFactor(fitted, OneScale)
  BY DEF FitSet
<1> HIDE DEF fitted
<1> QED
  BY <1>1, <1>2, SettersKeepFacing DEF ZoomedIn, ZoomedOut

\* transformImage itself turns nothing.
LEMMA AfterRepaintFaces ==
    ASSUME IndInv, NEW p, Sound(p), p.image = processor.image
    PROVE  Facing(AfterRepaint(p)) = Facing(p)
<1>1. CASE original = NullImage
  BY <1>1 DEF AfterRepaint, TransformedImage
<1>2. CASE original \in Images
  <2> DEFINE sized == SetAreaSize(p, window)
  <2>1. window \in Areas /\ p.image = original
    BY <1>2 DEF IndInv, TypeOK, BoundToView
  <2>2. Sound(sized) /\ sized.image = original /\ Facing(sized) = Facing(p)
    BY <2>1, SoundSetAreaSize, SettersKeepFacing
  <2>3. AfterRepaint(p) = Process(sized).processor
    BY <1>2, ImageAssumption DEF AfterRepaint, TransformedImage
  <2> HIDE DEF sized
  <2> QED
    BY <1>2, <2>2, <2>3, ProcessFaces
<1> QED
  BY <1>1, <1>2 DEF IndInv, TypeOK

LEMMA FitUncheckedFaces ==
    ASSUME IndInv
    PROVE  Facing(FitUnchecked(processor)) = Facing(processor)
<1>1. CASE ~fitAction
  BY <1>1 DEF FitUnchecked
<1>2. CASE fitAction
  <2> DEFINE p == FitSet(processor, FALSE)
  <2>1. Sound(processor)
    BY DEF IndInv
  <2>2. Sound(p) /\ p.image = processor.image /\ Facing(p) = Facing(processor)
    BY <2>1, SoundFitSet, ZoomKeepsFacing
  <2>3. FitUnchecked(processor) = AfterRepaint(p)
    BY <1>2 DEF FitUnchecked
  <2> HIDE DEF p
  <2> QED
    BY <2>2, <2>3, AfterRepaintFaces
<1> QED
  BY <1>1, <1>2 DEF IndInv, TypeOK

\* The four commands that do turn the picture, by what is faced before.
LEMMA TurnsFace ==
    ASSUME IndInv, original \in Images
    PROVE  /\ RotateLeftTriggered       => Faced' = [c \in 0..3 |-> Faced[(c + 1) % 4]]
           /\ RotateRightTriggered      => Faced' = [c \in 0..3 |-> Faced[(c + 3) % 4]]
           /\ FlipHorizontallyTriggered => Faced' = [c \in 0..3 |-> Faced[3 - c]]
           /\ FlipVerticallyTriggered   => Faced' = [c \in 0..3 |-> Faced[(5 - c) % 4]]
<1> DEFINE f == Facing(processor)
<1>1. Sound(processor) /\ window \in Areas /\ processor.image = original
  BY DEF IndInv, TypeOK, BoundToView
<1>2. f \in Facings /\ ~(f.h /\ f.v)
  BY <1>1, FacingType
<1>3. Faced = Seen(f)
  BY ScreenFaces
<1>4. ASSUME NEW p, Sound(p), p.image = processor.image, Repaint(p)
      PROVE  Faced' = Seen(Facing(p))
  <2>1. shown' = TransformedImage(p, original, window).shown
    BY <1>4 DEF Repaint
  <2> QED
    BY <1>1, <1>4, <2>1, RepaintShows
<1>5. ASSUME RotateLeftTriggered
      PROVE  Faced' = [c \in 0..3 |-> Faced[(c + 1) % 4]]
  <2> DEFINE p == RotateLeft(processor)
  <2>1. Sound(p) /\ p.image = processor.image /\ Repaint(p)
    BY <1>1, <1>5, SoundRotations DEF RotateLeftTriggered
  <2>2. Facing(p) \in Facings
    BY <2>1, FacingType
  <2>3. /\ Facing(p).h = f.h /\ Facing(p).v = f.v
        /\ Facing(p).q = IF f.h \/ f.v THEN (f.q + 1) % 4 ELSE (f.q + 3) % 4
    BY <1>1, RotationsFace
  <2> HIDE DEF p, f
  <2>4. Seen(Facing(p)) = [c \in 0..3 |-> Seen(f)[(c + 1) % 4]]
    BY <1>2, <2>2, <2>3, SeenTurned
  <2> QED
    BY <1>3, <1>4, <2>1, <2>4
<1>6. ASSUME RotateRightTriggered
      PROVE  Faced' = [c \in 0..3 |-> Faced[(c + 3) % 4]]
  <2> DEFINE p == RotateRight(processor)
  <2>1. Sound(p) /\ p.image = processor.image /\ Repaint(p)
    BY <1>1, <1>6, SoundRotations DEF RotateRightTriggered
  <2>2. Facing(p) \in Facings
    BY <2>1, FacingType
  <2>3. /\ Facing(p).h = f.h /\ Facing(p).v = f.v
        /\ Facing(p).q = IF f.h \/ f.v THEN (f.q + 3) % 4 ELSE (f.q + 1) % 4
    BY <1>1, RotationsFace
  <2> HIDE DEF p, f
  <2>4. Seen(Facing(p)) = [c \in 0..3 |-> Seen(f)[(c + 3) % 4]]
    BY <1>2, <2>2, <2>3, SeenTurned
  <2> QED
    BY <1>3, <1>4, <2>1, <2>4
<1>7. ASSUME FlipHorizontallyTriggered
      PROVE  Faced' = [c \in 0..3 |-> Faced[3 - c]]
  <2> DEFINE p == FlipHorizontally(processor)
  <2>1. Sound(p) /\ p.image = processor.image /\ Repaint(p)
    BY <1>1, <1>7, SoundFlips DEF FlipHorizontallyTriggered
  <2>2. Seen(Facing(p)) = [c \in 0..3 |-> Seen(f)[3 - c]]
    BY <1>1, <1>2, FlipsFace, SeenFlipped
  <2> HIDE DEF p, f
  <2> QED
    BY <1>3, <1>4, <2>1, <2>2
<1>8. ASSUME FlipVerticallyTriggered
      PROVE  Faced' = [c \in 0..3 |-> Faced[(5 - c) % 4]]
  <2> DEFINE p == FlipVertically(processor)
  <2>1. Sound(p) /\ p.image = processor.image /\ Repaint(p)
    BY <1>1, <1>8, SoundFlips DEF FlipVerticallyTriggered
  <2>2. Seen(Facing(p)) = [c \in 0..3 |-> Seen(f)[(5 - c) % 4]]
    BY <1>1, <1>2, FlipsFace, SeenFlipped
  <2> HIDE DEF p, f
  <2> QED
    BY <1>3, <1>4, <2>1, <2>2
<1> QED
  BY <1>5, <1>6, <1>7, <1>8

\* Showing a picture resets what the one before it faced.
LEMMA OpenFaces ==
    ASSUME IndInv, NEW image \in Images, ShowImage(image)
    PROVE  Faced' = Screen!Upright
<1> DEFINE p == BindImage(processor, image, TRUE)
           r == TransformedImage(p, image, window)
<1>1. Sound(processor) /\ window \in Areas
  BY DEF IndInv, TypeOK
<1>2. Sound(p) /\ p.image = image
  BY <1>1, SoundBindImage
<1>3. Facing(p) = [h |-> FALSE, v |-> FALSE, q |-> 0]
  BY <1>1, BindFaces
<1>4. shown' = r.shown
  BY DEF ShowImage
<1> HIDE DEF p
<1>5. r.shown.by.h = FALSE /\ r.shown.by.v = FALSE /\ r.shown.by.q = 0
  BY <1>1, <1>2, <1>3, TransformedImageFaces
<1> HIDE DEF r
<1>6. Seen(r.shown.by) = Screen!Upright
  BY <1>5, SeenUpright
<1>7. Faced' = Seen(shown'.by)
  BY DEF Faced, Seen, FacedCorner
<1> QED
  BY <1>4, <1>6, <1>7

\* No other step changes what is faced.
LEMMA OthersKeepFaced ==
    ASSUME IndInv, Wheels \/ Zooms \/ Settles
    PROVE  Faced' = Faced
<1>1. /\ Sound(processor) /\ fitAction \in BOOLEAN /\ window \in Areas
      /\ original \in Images \cup {NullImage} /\ shown \in Pictures
      /\ OffsetStep \in Int /\ -OffsetStep \in Int /\ ZoomStep \in Int
  BY ViewAssumption DEF IndInv, TypeOK
<1>2. CASE ShowUndecodable
  BY <1>2 DEF ShowUndecodable, Faced, Seen, FacedCorner
<1>3. ASSUME NEW image \in Images \cup {NullImage}, NextImage(image)
      PROVE  Faced' = Faced
  <2> DEFINE p == BindImage(processor, image, FALSE)
             r == TransformedImage(p, image, window)
  <2>1. Sound(p) /\ p.image = image
    BY <1>1, SoundBindImage
  <2>2. Facing(p) = Facing(processor)
    BY <1>1, BindFaces
  <2>3. shown' = r.shown /\ (original = NullImage => image = NullImage)
    BY <1>3 DEF NextImage
  <2> HIDE DEF p
  <2>4. /\ image \in Images => /\ r.shown.by.h = Facing(processor).h
                               /\ r.shown.by.v = Facing(processor).v
                               /\ r.shown.by.q = Facing(processor).q
        /\ image \notin Images => r.shown = shown
    BY <1>1, <2>1, <2>2, TransformedImageFaces
  <2> HIDE DEF r
  <2>5. image \in Images => Seen(r.shown.by) = Seen(Facing(processor))
    BY <2>4, SeenOfFacing
  <2>6. Faced' = Seen(shown'.by) /\ Faced = Seen(shown.by)
    BY DEF Faced, Seen, FacedCorner
  <2> QED
    BY <1>1, <2>3, <2>4, <2>5, <2>6, ScreenFaces, ImageAssumption
<1>4. CASE ScrollLeft \/ ScrollRight \/ ScrollUp \/ ScrollDown
  BY <1>1, <1>4, SoundOffsets, SettersKeepFacing, CommandKeepsFaced
     DEF ScrollLeft, ScrollRight, ScrollUp, ScrollDown, ScrolledX, ScrolledY
<1>5. ASSUME NEW drag \in Drags, ScrollTo(drag)
      PROVE  Faced' = Faced
  <2>1. -drag[1] \in Int /\ -drag[2] \in Int
    BY ViewAssumption
  <2> DEFINE moved == AddImageOffsetX(processor, -drag[1])
             x == AfterRepaint(moved)
             y == AddImageOffsetY(x, -drag[2])
  <2>2. /\ Sound(moved) /\ moved.image = processor.image
        /\ Facing(moved) = Facing(processor)
    BY <1>1, <2>1, SoundOffsets, SettersKeepFacing
  <2> HIDE DEF moved
  <2>3. Sound(x) /\ x.image = processor.image
    BY <2>2, TransformedImageResult DEF AfterRepaint, IndInv, TypeOK, BoundToView
  <2>4. Facing(x) = Facing(processor)
    BY <2>2, AfterRepaintFaces
  <2> HIDE DEF x
  <2>5. Sound(y) /\ y.image = processor.image /\ Facing(y) = Facing(processor)
    BY <2>1, <2>3, <2>4, SoundOffsets, SettersKeepFacing
  <2>6. Repaint(y)
    BY <1>5 DEF ScrollTo, x, moved
  <2> HIDE DEF y
  <2> QED
    BY <2>5, <2>6, CommandKeepsFaced
<1>6. ASSUME NEW factor \in WheelSteps, WheelZoom(factor)
      PROVE  Faced' = Faced
  <2>1. factor \in Int
    BY ViewAssumption
  <2> QED
    BY <1>1, <1>6, <2>1, SoundZoomed, ZoomKeepsFacing, CommandKeepsFaced
       DEF WheelZoom
<1>7. ASSUME NEW value \in Pinches, GestureZoom(value)
      PROVE  Faced' = Faced
  <2>1. value \in Int /\ -value \in Int
    BY ViewAssumption
  <2> QED
    BY <1>1, <1>7, <2>1, SoundZoomed, ZoomKeepsFacing, CommandKeepsFaced
       DEF GestureZoom
<1>8. CASE FitToWindowToggled
  <2> DEFINE p == FitSet(processor, ~fitAction)
  <2>1. (~fitAction) \in BOOLEAN
    BY <1>1
  <2>2. /\ Sound(p) /\ p.image = processor.image
        /\ Facing(p) = Facing(processor)
    BY <1>1, <2>1, SoundFitSet, ZoomKeepsFacing, Zenon
  <2>3. Repaint(p)
    BY <1>8 DEF FitToWindowToggled
  <2> HIDE DEF p
  <2> QED
    BY <2>2, <2>3, CommandKeepsFaced
<1>9. CASE ZoomInTriggered \/ ZoomOutTriggered
  <2> DEFINE p == FitUnchecked(processor)
  <2>1. Sound(p) /\ p.image = processor.image /\ Facing(p) = Facing(processor)
    BY SoundFitUnchecked, FitUncheckedFaces
  <2>2. Repaint(ZoomedIn(p, ZoomStep)) \/ Repaint(ZoomedOut(p, ZoomStep))
    BY <1>9 DEF ZoomInTriggered, ZoomOutTriggered
  <2> HIDE DEF p
  <2> QED
    BY <1>1, <2>1, <2>2, SoundZoomed, ZoomKeepsFacing, CommandKeepsFaced
<1>10. CASE OriginalSizeTriggered
  <2> DEFINE p == FitUnchecked(processor)
             q == FitSet(p, FALSE)
  <2>1. Sound(p) /\ p.image = processor.image /\ Facing(p) = Facing(processor)
    BY SoundFitUnchecked, FitUncheckedFaces
  <2>2. shown' = TransformedImage(q, original, window).shown
    BY <1>10 DEF OriginalSizeTriggered
  <2> HIDE DEF p
  <2>3. Sound(q) /\ q.image = processor.image /\ Facing(q) = Facing(processor)
    BY <2>1, SoundFitSet, ZoomKeepsFacing
  <2> HIDE DEF q
  <2> QED
    BY <1>1, <2>2, <2>3, RepaintKeepsFaced
<1>11. ASSUME NEW area \in Areas, ResizeEvent(area)
       PROVE  Faced' = Faced
  BY <1>1, <1>11, RepaintKeepsFaced DEF ResizeEvent
<1>12. ASSUME NEW style \in Styles, SettingsAccepted(style)
       PROVE  Faced' = Faced
  BY <1>1, <1>12, SoundSetStyle, SettersKeepFacing, CommandKeepsFaced
     DEF SettingsAccepted
<1> QED
  BY <1>2, <1>3, <1>4, <1>5, <1>6, <1>7, <1>8, <1>9, <1>10, <1>11, <1>12
     DEF Wheels, Zooms, Settles

\* A negative scale is seen as a half turn of what is faced.
LEMMA ScreenOfSign ==
    ASSUME NEW t \in Transforms
    PROVE  [c \in 0..3 |-> CornerAt(t, c)] =
               IF t.s < 0 THEN HalfTurned(Seen(t)) ELSE Seen(t)
<1>1. t.h \in BOOLEAN /\ t.v \in BOOLEAN /\ t.q \in 0..3 /\ t.s \in Int
  BY DEF Transforms
<1>2. CASE ~(t.s < 0)
  BY <1>2 DEF CornerAt, QuartersSeen, Seen, FacedCorner
<1>3. CASE t.s < 0
  <2> DEFINE turned == [h |-> t.h, v |-> t.v, q |-> (t.q + 2) % 4]
  <2>1. /\ turned.h \in BOOLEAN /\ turned.v \in BOOLEAN /\ turned.q \in 0..3
        /\ turned.h = t.h /\ turned.v = t.v /\ turned.q = Wrap(t.q + 2)
    <3>1. t.q + 2 \in 0..7
      BY <1>1
    <3> QED
      BY <1>1, <3>1, WrapIsModulo
  <2>2. \A c \in 0..3 : (c + 2) % 4 = Wrap(c + 2) /\ Wrap(c + 2) \in 0..3
    <3>1. \A c \in 0..3 : c + 2 \in 0..7
      OBVIOUS
    <3> QED
      BY <3>1, WrapIsModulo
  <2>3. ASSUME NEW c \in 0..3 PROVE CornerAt(t, c) = FacedCorner(t, (c + 2) % 4)
    <3>1. CornerAt(t, c) = FacedCorner(turned, c)
      BY <1>3 DEF CornerAt, QuartersSeen, FacedCorner
    <3> HIDE DEF turned
    <3>2. FacedCorner(turned, c) =
              LET beforeV == IF turned.v THEN Wrap(5 - c) ELSE c
                  beforeH == IF turned.h THEN 3 - beforeV ELSE beforeV
              IN  Wrap(beforeH + 4 - turned.q)
      BY <2>1, CornerIsWrapped
    <3>3. FacedCorner(t, Wrap(c + 2)) =
              LET beforeV == IF t.v THEN Wrap(5 - Wrap(c + 2)) ELSE Wrap(c + 2)
                  beforeH == IF t.h THEN 3 - beforeV ELSE beforeV
              IN  Wrap(beforeH + 4 - t.q)
      BY <1>1, <2>2, CornerIsWrapped
    <3>4. FacedCorner(turned, c) = FacedCorner(t, Wrap(c + 2))
      <4>1. CASE ~t.h /\ ~t.v
        BY <1>1, <2>1, <3>2, <3>3, <4>1 DEF Wrap
      <4>2. CASE t.h /\ ~t.v
        BY <1>1, <2>1, <3>2, <3>3, <4>2 DEF Wrap
      <4>3. CASE ~t.h /\ t.v
        BY <1>1, <2>1, <3>2, <3>3, <4>3 DEF Wrap
      <4>4. CASE t.h /\ t.v
        BY <1>1, <2>1, <3>2, <3>3, <4>4 DEF Wrap
      <4> QED
        BY <1>1, <4>1, <4>2, <4>3, <4>4
    <3> QED
      BY <2>2, <3>1, <3>4
  <2>4. \A c \in 0..3 : (c + 2) % 4 \in 0..3
    BY <2>2
  <2>5. [c \in 0..3 |-> CornerAt(t, c)] = [c \in 0..3 |-> FacedCorner(t, (c + 2) % 4)]
    BY <2>3
  <2>6. HalfTurned(Seen(t)) = [c \in 0..3 |-> FacedCorner(t, (c + 2) % 4)]
    BY <2>4 DEF HalfTurned, Seen
  <2> QED
    BY <1>3, <2>5, <2>6
<1> QED
  BY <1>2, <1>3

\* A half turn commutes with the four commands and is its own inverse.
LEMMA HalfTurnCommutes ==
    ASSUME NEW view, NEW turned
    PROVE  /\ turned = [c \in 0..3 |-> view[(c + 3) % 4]] =>
                  HalfTurned(turned) = [c \in 0..3 |-> HalfTurned(view)[(c + 3) % 4]]
           /\ turned = [c \in 0..3 |-> view[(c + 1) % 4]] =>
                  HalfTurned(turned) = [c \in 0..3 |-> HalfTurned(view)[(c + 1) % 4]]
           /\ turned = [c \in 0..3 |-> view[3 - c]] =>
                  HalfTurned(turned) = [c \in 0..3 |-> HalfTurned(view)[3 - c]]
           /\ turned = [c \in 0..3 |-> view[(5 - c) % 4]] =>
                  HalfTurned(turned) = [c \in 0..3 |-> HalfTurned(view)[(5 - c) % 4]]
           /\ HalfTurned(HalfTurned(view)) = [c \in 0..3 |-> view[c]]
<1>1. \A c \in 0..3 :
          /\ (c + 1) % 4 \in 0..3 /\ (c + 2) % 4 \in 0..3 /\ (c + 3) % 4 \in 0..3
          /\ 3 - c \in 0..3 /\ (5 - c) % 4 \in 0..3
  OBVIOUS
<1>2. \A c \in 0..3 : /\ (((c + 2) % 4) + 3) % 4 = (((c + 3) % 4) + 2) % 4
                      /\ (((c + 2) % 4) + 1) % 4 = (((c + 1) % 4) + 2) % 4
                      /\ 3 - ((c + 2) % 4) = (3 - c + 2) % 4
                      /\ (5 - ((c + 2) % 4)) % 4 = (((5 - c) % 4) + 2) % 4
                      /\ (((c + 2) % 4) + 2) % 4 = c
  <2>1. \A c \in 0..3 : c = 0 \/ c = 1 \/ c = 2 \/ c = 3
    OBVIOUS
  <2> QED
    BY <2>1
<1> QED
  BY <1>1, <1>2 DEF HalfTurned

\* Whether the wheel has turned what is faced over.
Over == shown.by.s < 0

-----------------------------------------------------------------------------
(* The sign of the scale *)

\* But for showing a picture, a step changes the screen only while a frame is on
\* view and stays there.
LEMMA StepShows ==
    ASSUME IndInv, Turns \/ Wheels \/ Zooms \/ Settles
    PROVE  shown' = shown \/ (original \in Images /\ original' \in Images)
<1>1. original \in Images \cup {NullImage}
  BY DEF IndInv, TypeOK
<1>2. ASSUME NEW p, Repaint(p), original' = original
      PROVE  shown' = shown \/ (original \in Images /\ original' \in Images)
  BY <1>1, <1>2 DEF Repaint, TransformedImage
<1>3. CASE Turns
  BY <1>2, <1>3 DEF Turns, RotateLeftTriggered, RotateRightTriggered,
                    FlipHorizontallyTriggered, FlipVerticallyTriggered
<1>4. CASE Wheels
  BY <1>2, <1>4 DEF Wheels, WheelZoom
<1>5. ASSUME NEW value \in Pinches, GestureZoom(value)
      PROVE  shown' = shown \/ (original \in Images /\ original' \in Images)
  BY <1>2, <1>5 DEF GestureZoom
<1>6. CASE FitToWindowToggled \/ ZoomInTriggered \/ ZoomOutTriggered
  BY <1>2, <1>6 DEF FitToWindowToggled, ZoomInTriggered, ZoomOutTriggered
<1>7. CASE OriginalSizeTriggered
  BY <1>1, <1>7 DEF OriginalSizeTriggered, TransformedImage
<1>8. CASE ShowUndecodable
  BY <1>8 DEF ShowUndecodable
<1>9. ASSUME NEW image \in Images \cup {NullImage}, NextImage(image)
      PROVE  shown' = shown \/ (original \in Images /\ original' \in Images)
  BY <1>1, <1>9 DEF NextImage, TransformedImage
<1>10. CASE ScrollLeft \/ ScrollRight \/ ScrollUp \/ ScrollDown
  BY <1>2, <1>10 DEF ScrollLeft, ScrollRight, ScrollUp, ScrollDown, ScrolledX, ScrolledY
<1>11. ASSUME NEW drag \in Drags, ScrollTo(drag)
       PROVE  shown' = shown \/ (original \in Images /\ original' \in Images)
  BY <1>2, <1>11 DEF ScrollTo
<1>12. ASSUME NEW area \in Areas, ResizeEvent(area)
       PROVE  shown' = shown \/ (original \in Images /\ original' \in Images)
  BY <1>1, <1>12 DEF ResizeEvent, TransformedImage
<1>13. ASSUME NEW style \in Styles, SettingsAccepted(style)
       PROVE  shown' = shown \/ (original \in Images /\ original' \in Images)
  BY <1>2, <1>13 DEF SettingsAccepted
<1> QED
  BY <1>3, <1>4, <1>5, <1>6, <1>7, <1>8, <1>9, <1>10, <1>11, <1>12, <1>13
     DEF Zooms, Settles

\* A picture painted by a pipeline has the sign of the pipeline's scale, and one
\* that is fitted to its window has none.
LEMMA SignOfScale ==
    ASSUME NEW s \in Pictures, NEW p \in Processors, s.image \in Images,
           s.by = ZoomResult(p)
    PROVE  /\ s.by.s = p.zoom.scale /\ p.zoom.scale \in Int
           /\ PaintedFitted(s) => ~(s.by.s < 0)
<1>1. RotationResult(p) \in Transforms /\ p.zoom.scale \in Int
  BY ResultTypes DEF Processors, ZoomStages
<1>2. s.by.s = p.zoom.scale
  BY <1>1 DEF ZoomResult, Transforms
<1>3. ASSUME PaintedFitted(s) PROVE ~(s.by.s < 0)
  <2>1. Extent[s.image] \in [w: Nat \ {0}, h: Nat \ {0}] /\ s.area \in Extents
    BY ImageAssumption DEF Pictures
  <2>2. FittedExtent(s.image, s.by) \in [w: Nat \ {0}, h: Nat \ {0}]
    BY <2>1 DEF FittedExtent
  <2>3. s.by.s \in Nat
    BY <1>3, <2>1, <2>2, FitScaleFits DEF PaintedFitted
  <2> QED
    BY <2>3
<1> QED
  BY <1>1, <1>2, <1>3

\* Showing a picture starts it at a scale that is not below 0; a zoom command does
\* not take it there, but for the wheel; and nothing else changes the sign.
LEMMA SignKept ==
    ASSUME IndInv, FitShown, IndInv', FitShown'
    PROVE  /\ \A image \in Images : ShowImage(image) => ~Over'
           /\ Zooms /\ Over' => Over
           /\ Turns \/ Settles => (Over' <=> Over)
<1>1. /\ OneScale \in Nat /\ MinScale \in Nat /\ MaxScale \in Nat
      /\ processor.zoom.scale \in Int
  BY ScaleAssumption, ViewAssumption DEF IndInv, TypeOK, Processors, ZoomStages
<1>2. ASSUME original \in Images
      PROVE  shown.by.s = processor.zoom.scale /\ (fitAction => ~Over)
  <2>1. /\ shown \in Pictures /\ processor \in Processors /\ shown.image \in Images
        /\ shown.by = ZoomResult(processor) /\ processor.zoom.fit = fitAction
    BY <1>2 DEF IndInv, TypeOK, Current, FitActionAgrees
  <2> QED
    BY <1>2, <2>1, SignOfScale DEF FitShown, Over
<1>3. ASSUME original' \in Images
      PROVE  /\ shown'.by.s = processor'.zoom.scale /\ processor'.zoom.scale \in Int
             /\ fitAction' => ~Over'
  <2>1. /\ shown' \in Pictures /\ processor' \in Processors
        /\ shown'.image \in Images /\ shown'.by = ZoomResult(processor')
        /\ processor'.zoom.fit = fitAction'
    BY <1>3 DEF IndInv, TypeOK, Current, FitActionAgrees, ZoomResult, RotationResult,
                FlipResult
  <2>2. fitAction' => PaintedFitted(shown')
    BY <1>3, <2>1 DEF FitShown, PaintedFitted
  <2> QED
    BY <2>1, <2>2, SignOfScale DEF Over
<1>4. ASSUME NEW image \in Images, ShowImage(image) PROVE ~Over'
  <2>1. original' = image
    BY <1>4 DEF ShowImage
  <2>2. ASSUME ~fitAction' PROVE processor'.zoom.scale = OneScale
    <3>1. ~processor'.zoom.fit
      BY <2>2 DEF IndInv, FitActionAgrees
    <3> QED
      BY <1>4, <3>1, FrameScales DEF ShowImage
  <2> QED
    BY <1>1, <1>3, <2>1, <2>2 DEF Over
<1>5. ASSUME Zooms, Over' PROVE Over
  <2>1. CASE shown' = shown
    BY <1>5, <2>1 DEF Over
  <2>2. CASE original \in Images /\ original' \in Images
    <3>1. ~fitAction' /\ processor'.zoom.scale < 0
      BY <1>3, <1>5, <2>2 DEF Over
    <3>2. ZoomRescaled(processor'.zoom.scale)
      BY <1>5, <3>1, ZoomsRescale
    <3>3. Base \in Int
      BY <1>1 DEF Base
    <3>4. Base < 0
      <4> HIDE DEF Base
      <4> QED
        BY <1>1, <3>1, <3>2, <3>3 DEF ZoomRescaled, Smaller, Larger
    <3> QED
      BY <1>1, <1>2, <2>2, <3>4 DEF Base, Over
  <2> QED
    BY <1>5, <2>1, <2>2, StepShows
<1>6. ASSUME Turns \/ Settles PROVE Over' <=> Over
  <2>1. CASE shown' = shown
    BY <2>1 DEF Over
  <2>2. CASE original \in Images /\ original' \in Images
    <3>1. fitAction' = fitAction
      BY <1>6 DEF Turns, RotateLeftTriggered, RotateRightTriggered,
                  FlipHorizontallyTriggered, FlipVerticallyTriggered, Settles,
                  ShowUndecodable, NextImage, ScrollLeft, ScrollRight, ScrollUp,
                  ScrollDown, ScrolledX, ScrolledY, ScrollTo, ResizeEvent,
                  SettingsAccepted
    <3>2. CASE fitAction
      BY <1>2, <1>3, <2>2, <3>1, <3>2
    <3>3. CASE ~fitAction
      <4>1. processor'.zoom.scale = processor.zoom.scale
        BY <1>6, <3>1, <3>3, PlainKeepsScale
      <4> QED
        BY <1>2, <1>3, <2>2, <4>1 DEF Over
    <3> QED
      BY <3>2, <3>3
  <2> QED
    BY <1>6, <2>1, <2>2, StepShows
<1> QED
  BY <1>4, <1>5, <1>6

-----------------------------------------------------------------------------
\* Every step of the view, as a step of Orientation and command by command.
LEMMA NextOrients ==
    ASSUME IndInv, FitShown, [Next]_vars
    PROVE  [Screen!Next]_(Screen!vars) /\ [CommandsOrient]_vars
<1>1. IndInv' /\ FitShown' /\ original \in Images \cup {NullImage}
  BY NextKeepsInv, NextFits DEF IndInv, TypeOK
<1>2. /\ ShownOrientation = IF Over THEN HalfTurned(Faced) ELSE Faced
      /\ ShownOrientation' = IF Over' THEN HalfTurned(Faced') ELSE Faced'
  <2>1. shown.by \in Transforms /\ shown'.by \in Transforms
    BY <1>1 DEF IndInv, TypeOK, Pictures
  <2>2. /\ ShownOrientation = [c \in 0..3 |-> CornerAt(shown.by, c)]
        /\ Faced = Seen(shown.by)
    BY DEF ShownOrientation, Faced
  <2>3. ShownOrientation' = [c \in 0..3 |-> CornerAt(shown'.by, c)]
    BY DEF ShownOrientation, CornerAt, QuartersSeen
  <2>4. Faced' = Seen(shown'.by) /\ HalfTurned(Faced') = HalfTurned(Seen(shown'.by))
    BY DEF Faced, Seen, FacedCorner
  <2> QED
    BY <2>1, <2>2, <2>3, <2>4, ScreenOfSign DEF Over
<1>3. HalfTurned(HalfTurned(Faced)) = Faced
  <2>1. HalfTurned(HalfTurned(Faced)) = [c \in 0..3 |-> Faced[c]]
    BY HalfTurnCommutes
  <2> QED
    BY <2>1 DEF Faced, Seen
<1>4. ASSUME NEW image \in Images, ShowImage(image) PROVE Screen!Open
  <2>1. Faced' = Screen!Upright /\ ~Over'
    BY <1>1, <1>4, OpenFaces, SignKept
  <2> QED
    BY <1>2, <2>1 DEF Screen!Open, Over
<1>5. ASSUME Turns, original \in Images
      PROVE  /\ RotateLeftTriggered       => Screen!TurnLeft
             /\ RotateRightTriggered      => Screen!TurnRight
             /\ FlipHorizontallyTriggered => Screen!FlipHorizontally
             /\ FlipVerticallyTriggered   => Screen!FlipVertically
  <2>1. Over' <=> Over
    BY <1>1, <1>5, SignKept
  <2>2. UNCHANGED (shown.by.s < 0)
    BY <2>1 DEF Over
  <2>3. ASSUME RotateLeftTriggered
        PROVE  ShownOrientation' = [c \in 0..3 |-> ShownOrientation[(c + 1) % 4]]
    <3>1. Faced' = [c \in 0..3 |-> Faced[(c + 1) % 4]]
      BY <1>5, <2>3, TurnsFace
    <3>2. HalfTurned(Faced') = [c \in 0..3 |-> HalfTurned(Faced)[(c + 1) % 4]]
      BY <3>1, HalfTurnCommutes
    <3> QED
      BY <1>2, <2>1, <3>1, <3>2
  <2>4. ASSUME RotateRightTriggered
        PROVE  ShownOrientation' = [c \in 0..3 |-> ShownOrientation[(c + 3) % 4]]
    <3>1. Faced' = [c \in 0..3 |-> Faced[(c + 3) % 4]]
      BY <1>5, <2>4, TurnsFace
    <3>2. HalfTurned(Faced') = [c \in 0..3 |-> HalfTurned(Faced)[(c + 3) % 4]]
      BY <3>1, HalfTurnCommutes
    <3> QED
      BY <1>2, <2>1, <3>1, <3>2
  <2>5. ASSUME FlipHorizontallyTriggered
        PROVE  ShownOrientation' = [c \in 0..3 |-> ShownOrientation[3 - c]]
    <3>1. Faced' = [c \in 0..3 |-> Faced[3 - c]]
      BY <1>5, <2>5, TurnsFace
    <3>2. HalfTurned(Faced') = [c \in 0..3 |-> HalfTurned(Faced)[3 - c]]
      BY <3>1, HalfTurnCommutes
    <3> QED
      BY <1>2, <2>1, <3>1, <3>2
  <2>6. ASSUME FlipVerticallyTriggered
        PROVE  ShownOrientation' = [c \in 0..3 |-> ShownOrientation[(5 - c) % 4]]
    <3>1. Faced' = [c \in 0..3 |-> Faced[(5 - c) % 4]]
      BY <1>5, <2>6, TurnsFace
    <3>2. HalfTurned(Faced') = [c \in 0..3 |-> HalfTurned(Faced)[(5 - c) % 4]]
      BY <3>1, HalfTurnCommutes
    <3> QED
      BY <1>2, <2>1, <3>1, <3>2
  <2> QED
    BY <2>2, <2>3, <2>4, <2>5, <2>6
       DEF Screen!TurnLeft, Screen!TurnRight, Screen!FlipHorizontally,
           Screen!FlipVertically, Screen!Corners
<1>6. ASSUME Settles PROVE UNCHANGED Screen!vars
  <2>1. Faced' = Faced /\ (Over' <=> Over)
    BY <1>1, <1>6, OthersKeepFaced, SignKept
  <2> QED
    BY <1>2, <2>1 DEF Screen!vars, Over
<1>7. ASSUME Zooms PROVE Screen!Zoom
  <2>1. Faced' = Faced /\ (Over' => Over)
    BY <1>1, <1>7, OthersKeepFaced, SignKept
  <2>2. CASE Over' <=> Over
    BY <1>2, <2>1, <2>2 DEF Screen!Zoom, Screen!vars, Over
  <2>3. CASE Over /\ ~Over'
    <3>1. ShownOrientation' = HalfTurned(ShownOrientation)
      BY <1>2, <1>3, <2>1, <2>3
    <3> QED
      BY <2>3, <3>1 DEF Screen!Zoom, Screen!TurnedOver, Screen!Corners, HalfTurned, Over
  <2> QED
    BY <2>1, <2>2, <2>3
<1>8. ASSUME Wheels PROVE Screen!Wheel
  <2>1. Faced' = Faced
    BY <1>8, OthersKeepFaced
  <2>2. CASE Over' <=> Over
    BY <1>2, <2>1, <2>2 DEF Screen!Wheel, Screen!Zoom, Screen!vars, Over
  <2>3. CASE ~(Over' <=> Over)
    <3>1. ShownOrientation' = HalfTurned(ShownOrientation)
      BY <1>2, <1>3, <2>1, <2>3
    <3> QED
      BY <2>3, <3>1 DEF Screen!Wheel, Screen!Zoom, Screen!TurnedOver, Screen!Corners,
                        HalfTurned, Over
  <2> QED
    BY <2>2, <2>3
<1>9. ASSUME Turns \/ Wheels \/ Zooms \/ Settles, original \notin Images
      PROVE  UNCHANGED Screen!vars
  <2>1. shown' = shown
    BY <1>9, StepShows
  <2> QED
    BY <2>1 DEF Screen!vars, ShownOrientation, CornerAt, QuartersSeen
<1>10. CASE UNCHANGED vars
  BY <1>10 DEF vars, Screen!vars, ShownOrientation, CornerAt, QuartersSeen
<1>11. ASSUME Next
       PROVE  \/ \E image \in Images : ShowImage(image)
              \/ Turns \/ Wheels \/ Zooms \/ Settles
  BY <1>11, Zenon DEF Next, Turns, Wheels, Zooms, Settles
<1>12. [Screen!Next]_(Screen!vars)
  <2>1. CASE Turns
    BY <1>5, <1>9, <2>1 DEF Screen!Next, Turns
  <2> QED
    BY <1>4, <1>6, <1>7, <1>8, <1>10, <1>11, <2>1 DEF Screen!Next
<1>13. original # NullImage <=> original \in Images
  BY <1>1, ImageAssumption
<1>14. [CommandsOrient]_vars
  <2>1. original \in Images =>
            /\ RotateLeftTriggered       => Screen!TurnLeft
            /\ RotateRightTriggered      => Screen!TurnRight
            /\ FlipHorizontallyTriggered => Screen!FlipHorizontally
            /\ FlipVerticallyTriggered   => Screen!FlipVertically
    BY <1>5, Zenon DEF Turns
  <2> QED
    BY <1>4, <1>6, <1>7, <1>8, <1>9, <1>10, <1>11, <1>13, <2>1, Zenon DEF CommandsOrient
<1> QED
  BY <1>12, <1>14

-----------------------------------------------------------------------------
(* The theorems *)

\* Every state of every run of the view satisfies the inductive invariant.
THEOREM ViewInvariant == Spec => []IndInv
<1>1. Init => IndInv
  BY InitEstablishesInv
<1>2. IndInv /\ [Next]_vars => IndInv'
  BY NextKeepsInv
<1> QED
  BY <1>1, <1>2, PTL DEF Spec

\* The types of the view's state, pipeline and screen included.
THEOREM TypeCorrect == Spec => []TypeOK
<1>1. IndInv => TypeOK
  BY DEF IndInv
<1> QED
  BY <1>1, ViewInvariant, PTL

\* No stage of the pipeline is ever taken for clean while a setting it depends
\* on has changed (ImageProcessor::process, the setters of the four stages).
THEOREM CachesStayCoherent == Spec => []CachesCoherent
<1>1. IndInv => CachesCoherent
  BY DEF IndInv, Sound, CachesCoherent
<1> QED
  BY <1>1, ViewInvariant, PTL

\* Whenever a frame is on view, the screen shows it under the settings of that
\* moment: no command of the widget leaves a stale or a blank picture.
THEOREM ScreenIsCurrent == Spec => []ShownIsCurrent
<1>1. IndInv => ShownIsCurrent
  BY DEF IndInv, TypeOK, Current, ShownIsCurrent
<1> QED
  BY <1>1, ViewInvariant, PTL

\* ImageProcessor::flip never leaves the picture flipped about both axes.
THEOREM FlipsStayNormal == Spec => []NeverBothFlips
<1>1. IndInv => NeverBothFlips
  BY DEF IndInv, Sound, NeverBothFlips
<1> QED
  BY <1>1, ViewInvariant, PTL

\* No sequence of scroll, drag, zoom, turn and resize commands scrolls the
\* picture out of the window (ImageBorder::checkScrollOffset).
THEOREM ScrollStaysInBounds == Spec => []ScrollInBounds
<1>1. IndInv => ScrollInBounds
  BY DEF IndInv, TypeOK, InBounds, ScrollInBounds, ShownSize
<1> QED
  BY <1>1, ViewInvariant, PTL

\* The menu's check mark and the fit of the pipeline agree.
THEOREM FitActionStaysTrue == Spec => []FitActionAgrees
<1>1. IndInv => FitActionAgrees
  BY DEF IndInv
<1> QED
  BY <1>1, ViewInvariant, PTL

\* No command and no sequence of fitting and zooming leaves a picture that is
\* not fitted larger than the upper limit of zoom (ImageAreaWidget.cpp:171-189).
THEOREM UpperLimitHolds == Spec => []UpperZoomLimit
<1>1. Init => UpperZoomLimit
  BY InitScale, ViewAssumption DEF UpperZoomLimit
<1>2. IndInv /\ UpperZoomLimit /\ [Next]_vars => UpperZoomLimit'
  <2> SUFFICES ASSUME IndInv, UpperZoomLimit, [Next]_vars, ~fitAction'
               PROVE  processor'.zoom.scale <= MaxScale
    BY DEF UpperZoomLimit
  <2>1. Rescaled(processor'.zoom.scale) /\ Base \in Int
    BY NextRescales, BaseType
  <2>2. Base <= MaxScale
    BY ViewAssumption DEF Base, UpperZoomLimit
  <2> HIDE DEF Rescaled, Base
  <2> QED
    BY <2>1, <2>2, RescaledWithin
<1> QED
  BY <1>1, <1>2, ViewInvariant, PTL DEF Spec

\* The wheel with Ctrl is the only command that takes a picture below the lower limit
\* of zoom (ImageAreaWidget.cpp:341): every other one, ending the fit and changing
\* the file included, leaves one that was above it above it.
THEOREM LimitPassedByWheelOnly == Spec => OnlyWheelPassesLowerLimit
<1>1. IndInv /\ [Next]_vars =>
          [AboveLowerLimit => \/ AboveLowerLimit'
                              \/ \E factor \in WheelSteps : WheelZoom(factor)]_vars
  <2> SUFFICES ASSUME IndInv, [Next]_vars, AboveLowerLimit, ~fitAction'
               PROVE  \/ processor'.zoom.scale >= MinScale
                      \/ \E factor \in WheelSteps : WheelZoom(factor)
    BY Zenon DEF AboveLowerLimit
  <2>1. Rescaled(processor'.zoom.scale) /\ Base \in Int
    BY NextRescales, BaseType
  <2>2. Base >= MinScale
    BY ViewAssumption, ScaleAssumption DEF Base, AboveLowerLimit
  <2> HIDE DEF Rescaled, Base, WheelZoom
  <2> QED
    BY <2>1, <2>2, RescaledWithin
<1> QED
  BY <1>1, ViewInvariant, PTL DEF Spec, OnlyWheelPassesLowerLimit

\* A picture that is fitted is in the window as a whole and fills it in one
\* direction, for every size of picture and window and after any rotation, resize
\* and next frame, unless it is flipped and on its side (ImageZoom.h:30).
THEOREM FitHoldsUnlessFlippedOnSide == Spec => []FitToWindowUnlessFlippedOnSide
<1>1. Init => FitShown
  BY ImageAssumption DEF Init, FitShown
<1>2. IndInv /\ FitShown /\ [Next]_vars => FitShown'
  BY NextFits
<1>3. IndInv /\ FitShown => FitToWindowUnlessFlippedOnSide
  BY FitShownFits
<1> QED
  BY <1>1, <1>2, <1>3, ViewInvariant, PTL DEF Spec

\* The commands do to the screen what Orientation promises: two flips that
\* ImageProcessor::flip turns into a rotation, the direction that rotateLeft and
\* rotateRight choose under a flip, the next frame and the reset by another file
\* included.  Of the scalings, Ctrl+wheel alone turns what is seen over, and every
\* step that neither turns nor scales leaves the screen as it was turned.
THEOREM ViewImplementsOrientation == Spec => ImplementsOrientation
<1>1. Init => Screen!Init
  <2> SUFFICES ASSUME Init PROVE Screen!Init
    OBVIOUS
  <2>1. shown.by = IdentityTransform
    <3>1. shown = Blank(processor)
      BY DEF Init
    <3> QED
      BY <3>1 DEF Blank
  <2>2. /\ shown.by.h = FALSE /\ shown.by.v = FALSE /\ shown.by.q = 0
        /\ ~(shown.by.s < 0)
    BY <2>1, ScaleAssumption DEF IdentityTransform
  <2>3. ShownOrientation = Seen(shown.by)
    BY <2>1, IdentityType, <2>2, ScreenOfSign DEF ShownOrientation
  <2>4. Seen(shown.by) = Screen!Upright
    BY <2>2, SeenUpright
  <2>5. (shown.by.s < 0) = FALSE
    BY <2>2
  <2> QED
    BY <2>3, <2>4, <2>5 DEF Screen!Init
<1>2. Init => FitShown
  BY ImageAssumption DEF Init, FitShown
<1>3. IndInv /\ FitShown /\ [Next]_vars => FitShown'
  BY NextFits
<1>4. IndInv /\ FitShown /\ [Next]_vars =>
          [Screen!Next]_(Screen!vars) /\ [CommandsOrient]_vars
  BY NextOrients
<1> QED
  BY <1>1, <1>2, <1>3, <1>4, ViewInvariant, PTL
     DEF Spec, Screen!Spec, ImplementsOrientation

=============================================================================
