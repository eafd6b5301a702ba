------------------------------ MODULE ImageShow ------------------------------
(***************************************************************************)
(* Showing one file after another in ui/ImageAreaWidget: the loader, the   *)
(* coroutine showImage, which ends only when the metadata of its file has  *)
(* been read on a worker thread, and the timers that play an animation.    *)
(* Handlers and the resumed coroutines run on the GUI thread, one step     *)
(* each; between them the user may show another file.                      *)
(***************************************************************************)
EXTENDS RotatingIndex, Sequences, SequencesExt

CONSTANTS Files,      \* paths
          NoFile,     \* the empty path, and an empty label
          NoFrame,    \* a null QImage
          Readable,   \* the files whose format QImageReader recognises
          Decodable,  \* those of them that have a first frame
          Frames,     \* imageCount of a readable file
          Delayed,    \* their frames with a nextImageDelay over 0: all of most
                      \* animations, none of an icon's or of a file of pages
          ShowBound   \* bound on the pictures that are shown

ASSUME ShowAssumption ==
    /\ NoFile \notin Files
    /\ Decodable \subseteq Readable /\ Readable \subseteq Files
    /\ Frames \in [Readable -> Nat \ {0}]
    /\ Delayed \subseteq [file: Readable, n: Nat]
    /\ NoFrame \notin [file: Files, n: Nat]
    /\ ShowBound \in Nat

VARIABLES loader,       \* m_imageLoader
          original,     \* m_originalImage of the widget
          screen,       \* the frame m_finalImage was made from
          dimensions,   \* the file whose size the status bar has
          information,  \* the file whose metadata the information panel has
          extractions,  \* the files whose coroutines of showImage wait for the metadata
          timers,       \* single shot timers that will call onNextImage
          shows         \* pictures shown, counted only to bound them

vars == <<loader, original, screen, dimensions, information, extractions,
          timers, shows>>

AllFrames == [file: Files, n: Nat]

Loaders == [file: Files \cup {NoFile}, animation: RotatingIndices,
            lost: BOOLEAN, image: AllFrames \cup {NoFrame}]

TypeOK ==
    /\ loader \in Loaders
    /\ {original, screen} \subseteq AllFrames \cup {NoFrame}
    /\ {dimensions, information} \subseteq Files \cup {NoFile}
    /\ extractions \in Seq(Files)
    /\ timers \in Nat
    /\ shows \in 0..ShowBound

-----------------------------------------------------------------------------
(* ImageLoader; lost tells that the last frame asked for could not be read *)
(* as the file could not be opened.                                        *)

Animated == {f \in Decodable : Frames[f] > 1}

\* Loading a file that counts the frames before the reader has changed to it.
LoadImageCountedBefore(l, f) ==
    [file |-> f, lost |-> FALSE, image |-> NoFrame,
     animation |-> IF l.file \in Readable THEN SetIndex(l.animation, 0, Frames[l.file])
                                          ELSE l.animation]

\* loadImage.  A still picture has an imageCount of 1 and gets a ring as well.
LoadImage(l, f) ==
    [file |-> f, lost |-> FALSE, image |-> NoFrame,
     animation |-> IF f \in Readable THEN SetIndex(l.animation, 0, Frames[f])
                                     ELSE l.animation]

\* getImage, the first time after loadImage.
ReadImage(l) ==
    IF l.file \in Decodable THEN [l EXCEPT !.image = [file |-> l.file, n |-> 0]]
                            ELSE l

\* The next frame opens the file again when it is the first of the ring, and
\* when the file could not be opened the last time.
Reopens(l) ==
    l.file \in Readable /\ (l.lost \/ Increment(l.animation).index = 0)

\* getNextImage, with the file there or gone.  A file that cannot be read has
\* the imageCount -1, which isAnimated takes for an animation; a read that
\* fails leaves the frame before.
NextFrame(l, found) ==
    LET animation == Increment(l.animation)
    IN  [l EXCEPT !.animation = animation,
                  !.lost = ~found,
                  !.image = IF found /\ l.file \in Decodable
                            THEN [file |-> l.file, n |-> animation.index]
                            ELSE @]

\* The frame whose delay the reader reports, if it has its file.
FrameAt(l) == [file |-> l.file, n |-> l.animation.index]

\* A timer after a frame without a delay, and an animation played once.
NewTimersAlways(l) == IF ~l.lost /\ l.file \in Readable THEN 1 ELSE 0
NewTimersUntilLast(l) ==
    IF ~l.lost /\ FrameAt(l) \in Delayed /\ l.animation.index + 1 < l.animation.max
    THEN 1 ELSE 0

\* The timers that onNextImage starts.  The delay is 0 for a frame that has
\* none, and -1 for a file that is no picture or could not be opened.
NewTimers(l) == IF ~l.lost /\ FrameAt(l) \in Delayed THEN 1 ELSE 0

\* Those that the end of showImage may start, which asks the file the loader
\* has now, by then perhaps another one: a file that was gone may be back.
StartedTimers(l) ==
    IF l.file \notin Readable THEN {0}
    ELSE IF Frames[l.file] = 1 THEN {0}
    ELSE IF l.lost THEN {0, 1}
    ELSE {NewTimers(l)}

-----------------------------------------------------------------------------
Init ==
    /\ loader = [file |-> NoFile, animation |-> Rotating(0, 1),
                 lost |-> FALSE, image |-> NoFrame]
    /\ original = NoFrame /\ screen = NoFrame
    /\ dimensions = NoFile /\ information = NoFile
    /\ extractions = <<>>
    /\ timers = 0
    /\ shows = 0

\* The label when a file is shown: handleImagePath clears it first, the next
\* and previous commands do not.
Label(clears) == IF clears THEN NoFile ELSE dimensions

\* showImage of a file, or of no file, that the loader does not recognise.
ShowUnreadable(f, clears) ==
    /\ f \notin Readable
    /\ loader' = LoadImage(loader, f)
    /\ dimensions' = Label(clears)
    /\ UNCHANGED <<original, screen, information, extractions, timers, shows>>

\* The dimensions announced before the picture is known to be one.
ShowUndecodableAnnounced(f, clears) ==
    /\ f \in Readable \ Decodable
    /\ loader' = LoadImage(loader, f)
    /\ original' = NoFrame
    /\ dimensions' = f
    /\ UNCHANGED <<screen, information, extractions, timers, shows>>

\* showImage of a file that is recognised and cannot be decoded.
ShowUndecodable(f, clears) ==
    /\ f \in Readable \ Decodable
    /\ loader' = LoadImage(loader, f)
    /\ original' = NoFrame
    /\ dimensions' = Label(clears)
    /\ UNCHANGED <<screen, information, extractions, timers, shows>>

\* A picture that starts a timer before its metadata has been read as well.
ShowImageStartingTimer(f) ==
    /\ f \in Decodable
    /\ shows < ShowBound
    /\ loader' = ReadImage(LoadImage(loader, f))
    /\ original' = loader'.image
    /\ screen' = loader'.image
    /\ dimensions' = f
    /\ extractions' = Append(extractions, f)
    /\ timers' = timers + NewTimers(loader')
    /\ shows' = shows + 1
    /\ UNCHANGED information

\* showImage up to its co_await: the picture is on the screen, its dimensions
\* are in the status bar, and a worker reads its metadata.
ShowImage(f) ==
    /\ f \in Decodable
    /\ shows < ShowBound
    /\ loader' = ReadImage(LoadImage(loader, f))
    /\ original' = loader'.image
    /\ screen' = loader'.image
    /\ dimensions' = f
    /\ extractions' = Append(extractions, f)
    /\ shows' = shows + 1
    /\ UNCHANGED <<information, timers>>

\* handleImagePath with a path that does not exist or is not readable.
HandleMissingPath ==
    /\ dimensions' = NoFile
    /\ UNCHANGED <<loader, original, screen, information, extractions, timers,
                   shows>>

\* The metadata of f has been read, sooner or later than that of other files:
\* it is shown, and the coroutine goes on to its end.
ExtractionFinished(f) ==
    /\ \E i \in DOMAIN extractions :
           extractions[i] = f /\ extractions' = RemoveAt(extractions, i)
    /\ information' = f
    /\ \E started \in StartedTimers(loader) : timers' = timers + started
    /\ UNCHANGED <<loader, original, screen, dimensions, shows>>

\* A frame that becomes the picture to work on and is not painted.
OnNextImageUnpainted ==
    /\ timers > 0
    /\ loader' = NextFrame(loader, TRUE)
    /\ original' = loader'.image
    /\ timers' = timers - 1 + NewTimers(loader')
    /\ UNCHANGED <<screen, dimensions, information, extractions, shows>>

\* onNextImage.  The screen keeps what it has when there is no frame.
OnNextImage ==
    /\ timers > 0
    /\ \E found \in BOOLEAN :
           /\ ~found => Reopens(loader)
           /\ loader' = NextFrame(loader, found)
    /\ original' = loader'.image
    /\ screen' = IF loader'.image = NoFrame THEN screen ELSE loader'.image
    /\ timers' = timers - 1 + NewTimers(loader')
    /\ UNCHANGED <<dimensions, information, extractions, shows>>

Next ==
    \/ \E f \in Files \cup {NoFile}, clears \in BOOLEAN :
           ShowUnreadable(f, clears) \/ ShowUndecodable(f, clears)
    \/ \E f \in Files : ShowImage(f)
    \/ HandleMissingPath
    \/ \E f \in Files : ExtractionFinished(f)
    \/ OnNextImage

Spec == Init /\ [][Next]_vars

\* The event loop delivers every timer that has expired, and a worker gets to
\* the end of its file.  Nothing makes a file go: a timer whose frame is found
\* may fire for ever.
FairSpec ==
    /\ Spec
    /\ WF_vars(OnNextImage /\ ~loader'.lost)
    /\ \A f \in Files : WF_vars(ExtractionFinished(f))

-----------------------------------------------------------------------------
(* Properties *)

\* A frame that is shown is a frame of its file, whichever animations were
\* loaded before and whichever of their timers still fire.
FrameExists == screen # NoFrame => screen.n < Frames[screen.file]

\* The dimensions in the status bar, if there are any, are those of the picture
\* on the screen, through failed loads and the timers of earlier files.
DimensionsMatchScreen ==
    dimensions # NoFile => screen # NoFrame /\ screen.file = dimensions

\* The picture that commands work on is the one that is seen.
OriginalOnScreen == original # NoFrame => screen = original

Waiting == {extractions[i] : i \in DOMAIN extractions}

\* An animation on view whose frame has a delay is never left without what will
\* show its next frame: a timer, or a coroutine that has still to start one.  It
\* ends only at a frame without a delay, or when its file has gone as the ring
\* comes round (ImageAreaWidget.cpp:66, 125).
ChainAlive ==
    loader.file \in Animated /\ ~loader.lost /\ FrameAt(loader) \in Delayed =>
        timers > 0 \/ loader.file \in Waiting

\* A picture shown starts at most one timer, whose successors replace it, however
\* often other files are loaded between its frames.
TimersAreOfShows == timers + Len(extractions) <= shows

\* Once all metadata has been read, the information panel tells of the picture
\* on the screen.
InformationMatchesScreen ==
    Waiting = {} /\ screen # NoFrame => information = screen.file

\* An animation is played by one timer, so that each of its frames stays for
\* the delay the file gives it.
OneTimer == timers <= 1

\* An animation that stays on view and on the disk plays for ever, frame after
\* frame, if each of its frames has a delay.
AnimationPlays ==
    \A f \in Animated :
        LET frames == [file: {f}, n: 0..(Frames[f] - 1)]
        IN  frames \subseteq Delayed /\ (<>[](loader.file = f /\ ~loader.lost)) =>
                \A frame \in frames : []<>(screen = frame)

\* With a file on view that has no delays the timers of earlier animations run
\* out.  (A file of one frame and a delay keeps them going.)
StillPictureSettles ==
    <>[](\A frame \in Delayed : frame.file # loader.file) => <>[](timers = 0)

=============================================================================
