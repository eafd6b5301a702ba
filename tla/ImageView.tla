------------------------------ MODULE ImageView ------------------------------
(***************************************************************************)
(* The view of one picture in ui/ImageAreaWidget: every command that       *)
(* turns, flips, zooms, scrolls, resizes or restyles it, on the pipeline   *)
(* of ImageProcessor, together with the menu actions of ui/MainWindow that *)
(* are more than one call of the widget.  A handler runs to its end in the *)
(* event loop of the GUI thread, so it is one step.                        *)
(***************************************************************************)
EXTENDS ImageProcessor

CONSTANTS ZoomStep,     \* what a zoom command adds, 0.10
          MinScale,     \* minValue, 0.1
          MaxScale,     \* maxValue, 2.0
          WheelSteps,   \* what a notch of Ctrl+wheel adds, of either sign
          Pinches,      \* what a pinch or a smart zoom adds, of either sign
          OffsetStep,   \* m_imageOffsetStep
          Drags,        \* the distances of a drag or a wheel turn, <<x, y>>
          ScaleBound,   \* bound on how far below 0 the wheel takes the scale factor
          BlindBound    \* bound on the commands given while there is no picture

ASSUME ViewAssumption ==
    /\ {ZoomStep, MinScale, MaxScale, OffsetStep, ScaleBound, BlindBound} \subseteq Nat
    /\ WheelSteps \subseteq Int /\ Pinches \subseteq Int
    /\ Drags \subseteq Int \X Int
    /\ MinScale <= OneScale /\ OneScale <= MaxScale

VARIABLES original,   \* m_originalImage: the frame that is on view
          processor,  \* m_imageProcessor
          shown,      \* m_finalImage
          window,     \* the size of the widget
          fitAction,  \* whether the menu's actionFitToWindow is checked
          blind       \* commands that changed the pipeline without a picture,
                      \* counted only to bound them

vars == <<original, processor, shown, window, fitAction, blind>>

TypeOK ==
    /\ original \in Images \cup {NullImage}
    /\ processor \in Processors
    /\ shown \in Pictures
    /\ window \in Areas
    /\ fitAction \in BOOLEAN
    /\ blind \in 0..BlindBound

\* The main window's constructor checks actionFitToWindow, and so calls its
\* handler, when the settings say so; then it hands on the colours.
Init ==
    /\ original = NullImage
    /\ window \in Areas
    /\ fitAction \in BOOLEAN
    /\ \E style \in Styles :
           processor = LET p == InitProcessor(style)
                       IN  IF fitAction
                           THEN SetScaleFactor(SetFitToArea(p, TRUE), OneScale)
                           ELSE p
    /\ shown = Blank(processor)
    /\ blind = 0

-----------------------------------------------------------------------------
\* transformImage on pipeline p: what it leaves in the pipeline and on screen.
TransformedImage(p, image, area) ==
    IF image = NullImage
    THEN [processor |-> p, shown |-> shown]
    ELSE Process(SetAreaSize(p, area))

\* A command without a picture changes the pipeline and shows nothing.
CountBlind ==
    /\ original = NullImage => blind < BlindBound
    /\ blind' = IF original = NullImage THEN blind + 1 ELSE 0

\* The end of nearly every handler: transformImage, then update.
Repaint(p) ==
    LET r == TransformedImage(p, original, window)
    IN  processor' = r.processor /\ shown' = r.shown /\ CountBlind

\* The pipeline after a transformImage that another one follows.
AfterRepaint(p) == TransformedImage(p, original, window).processor

\* onSetFitToWindowTriggered
FitSet(p, enabled) == SetScaleFactor(SetFitToArea(p, enabled), OneScale)

\* Unchecking the action without its handler being run.
FitUncheckedQuietly(p) == p

\* setChecked(FALSE) of actionFitToWindow runs the handler of toggled only
\* when the action was checked.
FitUnchecked(p) == IF fitAction THEN AfterRepaint(FitSet(p, FALSE)) ELSE p

Smaller(a, b) == IF a < b THEN a ELSE b

\* zoom: the factor is added and one limit applied, the upper one for the
\* zoom-in commands and the lower one for the zoom-out commands.
ZoomedInUnlimited(p, factor) == SetScaleFactor(p, p.zoom.scale + factor)
ZoomedOutUnlimited(p, factor) == SetScaleFactor(p, p.zoom.scale - factor)
ZoomedIn(p, factor)  == SetScaleFactor(p, Smaller(p.zoom.scale + factor, MaxScale))
ZoomedOut(p, factor) == SetScaleFactor(p, Larger(p.zoom.scale - factor, MinScale))

-----------------------------------------------------------------------------
\* The view's part of showImage: the first frame of another file.
ShowImage(image) ==
    LET r == TransformedImage(BindImage(processor, image, TRUE), image, window)
    IN  /\ original' = image
        /\ processor' = r.processor
        /\ shown' = r.shown
        /\ blind' = 0
        /\ UNCHANGED <<window, fitAction>>

\* The same when the file's format is known and its data cannot be decoded.
ShowUndecodable ==
    /\ original' = NullImage
    /\ UNCHANGED <<processor, shown, window, fitAction, blind>>

\* onNextImage: the next frame of an animation, NullImage when the loader
\* cannot read its file any more.  A file that could not be decoded has no
\* further frames, even when a timer of the file before it still fires.
NextImage(image) ==
    LET p == BindImage(processor, image, FALSE)
        r == TransformedImage(p, image, window)
    IN  /\ original = NullImage => image = NullImage
        /\ original' = image
        /\ processor' = r.processor
        /\ shown' = r.shown
        /\ blind' = IF image = NullImage THEN blind ELSE 0
        /\ UNCHANGED <<window, fitAction>>

FlipHorizontallyTriggered ==
    /\ Repaint(FlipHorizontally(processor))
    /\ UNCHANGED <<original, window, fitAction>>

FlipVerticallyTriggered ==
    /\ Repaint(FlipVertically(processor))
    /\ UNCHANGED <<original, window, fitAction>>

RotateLeftTriggered ==
    /\ Repaint(RotateLeft(processor))
    /\ UNCHANGED <<original, window, fitAction>>

RotateRightTriggered ==
    /\ Repaint(RotateRight(processor))
    /\ UNCHANGED <<original, window, fitAction>>

\* The scroll commands: an offset grows or shrinks by pixels on one axis.
ScrolledX(pixels) ==
    /\ Repaint(AddImageOffsetX(processor, pixels))
    /\ UNCHANGED <<original, window, fitAction>>

ScrolledY(pixels) ==
    /\ Repaint(AddImageOffsetY(processor, pixels))
    /\ UNCHANGED <<original, window, fitAction>>

ScrollLeft  == ScrolledX(OffsetStep)
ScrollRight == ScrolledX(-OffsetStep)
ScrollUp    == ScrolledY(OffsetStep)
ScrollDown  == ScrolledY(-OffsetStep)

\* scrollTo, from a drag of the mouse or a turn of the wheel: each axis is
\* moved against the drag and repainted on its own.
ScrollTo(drag) ==
    LET x == AfterRepaint(AddImageOffsetX(processor, -drag[1]))
    IN  /\ Repaint(AddImageOffsetY(x, -drag[2]))
        /\ UNCHANGED <<original, window, fitAction>>

\* Ctrl+wheel is a zoom-in command whatever the direction.
WheelZoom(factor) ==
    /\ processor.zoom.scale + factor >= -ScaleBound
    /\ Repaint(ZoomedIn(processor, factor))
    /\ UNCHANGED <<original, window, fitAction>>

\* gestureZoom, which leaves the menu's fit as it is.
GestureZoom(value) ==
    /\ Repaint(IF value >= 0 THEN ZoomedIn(processor, value)
                             ELSE ZoomedOut(processor, -value))
    /\ UNCHANGED <<original, window, fitAction>>

FitToWindowToggled ==
    /\ fitAction' = ~fitAction
    /\ Repaint(FitSet(processor, ~fitAction))
    /\ UNCHANGED <<original, window>>

ZoomInTriggered ==
    /\ fitAction' = FALSE
    /\ Repaint(ZoomedIn(FitUnchecked(processor), ZoomStep))
    /\ UNCHANGED <<original, window>>

ZoomOutTriggered ==
    /\ fitAction' = FALSE
    /\ Repaint(ZoomedOut(FitUnchecked(processor), ZoomStep))
    /\ UNCHANGED <<original, window>>

\* onZoomResetTriggered repaints at 1.0 without the fit, and sets the fit back
\* after that.
OriginalSizeTriggered ==
    LET p == FitUnchecked(processor)
        r == TransformedImage(FitSet(p, FALSE), original, window)
    IN  /\ fitAction' = FALSE
        /\ processor' = SetFitToArea(r.processor, p.zoom.fit)
        /\ shown' = r.shown
        /\ CountBlind
        /\ UNCHANGED <<original, window>>

ResizeEvent(area) ==
    LET r == TransformedImage(processor, original, area)
    IN  /\ window' = area
        /\ processor' = r.processor
        /\ shown' = r.shown
        /\ CountBlind
        /\ UNCHANGED <<original, fitAction>>

\* The settings dialog was accepted: propagateBackgroundSettings and
\* propagateBorderSettings, then repaintWithTransformations.
SettingsAccepted(style) ==
    /\ Repaint(SetStyle(processor, style))
    /\ UNCHANGED <<original, window, fitAction>>

Next ==
    \/ \E image \in Images : ShowImage(image)
    \/ ShowUndecodable
    \/ \E image \in Images \cup {NullImage} : NextImage(image)
    \/ FlipHorizontallyTriggered
    \/ FlipVerticallyTriggered
    \/ RotateLeftTriggered
    \/ RotateRightTriggered
    \/ ScrollLeft
    \/ ScrollRight
    \/ ScrollUp
    \/ ScrollDown
    \/ \E drag \in Drags : ScrollTo(drag)
    \/ \E factor \in WheelSteps : WheelZoom(factor)
    \/ \E value \in Pinches : GestureZoom(value)
    \/ FitToWindowToggled
    \/ ZoomInTriggered
    \/ ZoomOutTriggered
    \/ OriginalSizeTriggered
    \/ \E area \in Areas : ResizeEvent(area)
    \/ \E style \in Styles : SettingsAccepted(style)

Spec == Init /\ [][Next]_vars

-----------------------------------------------------------------------------
(* Properties *)

\* Whatever sequence of commands was given, the dirty flags tell the truth:
\* no stage is taken for clean while a setting it depends on has changed.
CachesCoherent == Coherent(processor)

\* What is on screen is the picture on view under the settings of this moment
\* (orientation, scale, scroll offsets, style, window), as if the pipeline had
\* been run from scratch.
ShownIsCurrent ==
    original # NullImage =>
        shown = [image |-> original, by |-> ZoomResult(processor), area |-> window,
                 x |-> processor.border.x, y |-> processor.border.y,
                 style |-> processor.border.style]

\* A half turn about both axes at once is never left standing: flip turns it
\* into a rotation, which is what lets rotateLeft and rotateRight decide their
\* direction by asking whether any flip is set.
NeverBothFlips == ~(processor.flip.h /\ processor.flip.v)

ShownSize == TransformedSize(shown.image, shown.by)

\* The picture cannot be scrolled out of the window: an offset never goes
\* below 0 nor past the point where the picture's far edge meets the window's.
ScrollInBounds ==
    original # NullImage =>
        LET canvas == ExpandedTo(ShownSize, shown.area)
        IN  /\ shown.x \in 0..(canvas.w - shown.area.w)
            /\ shown.y \in 0..(canvas.h - shown.area.h)

\* The picture s is in the window as a whole, and one unit of the scale factor
\* more would take it over an edge.
Fits(s) ==
    LET size == TransformedSize(s.image, s.by)
        full == Turned(Extent[s.image], s.by.q)
    IN  /\ size.w <= s.area.w /\ size.h <= s.area.h
        /\ \/ s.area.w * OneScale < full.w * (s.by.s + 1)
           \/ s.area.h * OneScale < full.h * (s.by.s + 1)

\* "Fit to window" as the README promises it: the whole picture is in the
\* window and fills it in one direction, after any rotation, flip or resize.
FitToWindow ==
    original # NullImage /\ fitAction => Fits(shown)

\* The same for what the pipeline's test of the transformation type covers: a
\* picture that is not flipped, or is flipped and not turned on its side.
FitToWindowUnlessFlippedOnSide ==
    original # NullImage /\ fitAction
        /\ (IsFlipped(processor) => processor.rotation.index % 2 = 0)
        => Fits(shown)

\* The menu's check mark and the pipeline agree on whether the picture is
\* fitted, through every command that unchecks one and resets the other.
FitActionAgrees == processor.zoom.fit = fitAction

\* No command, and no sequence of fitting and zooming, leaves a picture that is
\* not fitted with a scale factor over the upper limit of zoom, although the fit
\* itself may scale a small picture far beyond it.
UpperZoomLimit == ~fitAction => processor.zoom.scale <= MaxScale

AboveLowerLimit == fitAction \/ processor.zoom.scale >= MinScale

\* No command but Ctrl+wheel takes a picture that is not fitted from above the
\* lower limit of zoom to below it, nor does the end of a fit that had made it small.
OnlyWheelPassesLowerLimit ==
    [][AboveLowerLimit => \/ AboveLowerLimit'
                          \/ \E factor \in WheelSteps : WheelZoom(factor)]_vars

\* The limits that zoom declares hold for every zoom command.
ZoomLimits ==
    ~fitAction => processor.zoom.scale \in MinScale..MaxScale

-----------------------------------------------------------------------------
(* The commands do to the screen what Orientation promises, whatever the    *)
(* pipeline's order of stages.                                              *)

\* The quarter turns that are seen: scaling by a negative factor turns the
\* picture by two more.
QuartersSeen(t) == IF t.s < 0 THEN (t.q + 2) % 4 ELSE t.q

\* The corner of the picture that transformation t brings to corner c.
CornerAt(t, c) ==
    LET beforeV == IF t.v THEN (5 - c) % 4 ELSE c
        beforeH == IF t.h THEN 3 - beforeV ELSE beforeV
    IN  (beforeH + 4 - QuartersSeen(t)) % 4

ShownOrientation == [c \in 0..3 |-> CornerAt(shown.by, c)]

Screen == INSTANCE Orientation
    WITH view <- ShownOrientation, over <- shown.by.s < 0

Wheels == \E factor \in WheelSteps : WheelZoom(factor)

\* The other commands that scale the picture.
Zooms ==
    \/ \E value \in Pinches : GestureZoom(value)
    \/ FitToWindowToggled
    \/ ZoomInTriggered \/ ZoomOutTriggered
    \/ OriginalSizeTriggered

\* What neither turns nor scales it.
Settles ==
    \/ ShowUndecodable
    \/ \E image \in Images \cup {NullImage} : NextImage(image)
    \/ ScrollLeft \/ ScrollRight \/ ScrollUp \/ ScrollDown
    \/ \E drag \in Drags : ScrollTo(drag)
    \/ \E area \in Areas : ResizeEvent(area)
    \/ \E style \in Styles : SettingsAccepted(style)

\* Every step does to the screen what its namesake of Orientation does, or
\* nothing: the rotate commands turn the way they say under a flip as well, and
\* two flips that are normalised into a rotation look like the second of them.
\* Without a picture only showing one changes the screen.
CommandsOrient ==
    /\ \A image \in Images : ShowImage(image) => Screen!Open
    /\ original # NullImage =>
           /\ RotateLeftTriggered       => Screen!TurnLeft
           /\ RotateRightTriggered      => Screen!TurnRight
           /\ FlipHorizontallyTriggered => Screen!FlipHorizontally
           /\ FlipVerticallyTriggered   => Screen!FlipVertically
           /\ Wheels                    => Screen!Wheel
           /\ Zooms                     => Screen!Zoom
    /\ Settles => UNCHANGED Screen!vars
    /\ original = NullImage =>
           \/ \E image \in Images : ShowImage(image)
           \/ UNCHANGED Screen!vars

\* The view implements Orientation, command by command.  Zooming leaves what is
\* seen as it is turned, except that Ctrl+wheel goes on below a scale of 0, where
\* the picture is seen turned over until any scaling or another picture brings it
\* back (ImageProcessor.cpp:67-101, ImageAreaWidget.cpp:341).
ImplementsOrientation == Screen!Spec /\ [][CommandsOrient]_vars

=============================================================================
