-------------------------- MODULE ImageShowProofs --------------------------
(***************************************************************************)
(* Theorems about ImageShow: the safety properties of the loader, the      *)
(* screen and the status bar, for any files and any number of pictures     *)
(* shown.                                                                  *)
(***************************************************************************)
EXTENDS ImageShow, SequenceTheorems, TLAPS

\* The frames there are.
Real(frame) == frame.file \in Decodable /\ frame.n < Frames[frame.file]

\* What the loader has of a file that can be decoded: a ring of its length, a
\* frame of it and no other file's dimensions in the status bar.
LoaderAgrees ==
    /\ loader.image # NoFrame => loader.image.file = loader.file /\ Real(loader.image)
    /\ loader.file \in Decodable => /\ loader.animation.max = Frames[loader.file]
                                    /\ dimensions \in {NoFile, loader.file}

IndInv ==
    /\ TypeOK
    /\ LoaderAgrees
    /\ screen # NoFrame => Real(screen)
    /\ DimensionsMatchScreen
    /\ OriginalOnScreen

LEMMA IncrementType ==
    ASSUME NEW r \in RotatingIndices
    PROVE  /\ Increment(r) \in RotatingIndices
           /\ Increment(r).max = r.max
<1>1. r.index + 1 \in Nat /\ r.max \in Nat \ {0}
  BY DEF RotatingIndices
<1>2. (r.index + 1) % r.max \in 0..(r.max - 1)
  BY <1>1
<1> QED
  BY <1>1, <1>2 DEF Increment, Advance, RotatingIndices

\* One coroutine less.
LEMMA RemoveAtType ==
    ASSUME NEW S, NEW s \in Seq(S), NEW i \in DOMAIN s
    PROVE  RemoveAt(s, i) \in Seq(S) /\ Len(RemoveAt(s, i)) = Len(s) - 1
<1> DEFINE before == SubSeq(s, 1, i - 1)
           behind == SubSeq(s, i + 1, Len(s))
<1>1. i \in 1..Len(s) /\ Len(s) \in Nat
  OBVIOUS
<1>2. before \in Seq(S) /\ Len(before) = i - 1
  BY <1>1
<1>3. behind \in Seq(S) /\ Len(behind) = Len(s) - i
  BY <1>1
<1>4. RemoveAt(s, i) = before \o behind
  BY DEF RemoveAt
<1> HIDE DEF before, behind
<1> QED
  BY <1>1, <1>2, <1>3, <1>4, ConcatProperties

LEMMA FramesType ==
    /\ Decodable \subseteq Readable /\ Readable \subseteq Files
    /\ \A f \in Readable : Frames[f] \in Nat /\ Frames[f] > 0
    /\ \A f \in Files, n \in Nat : [file |-> f, n |-> n] # NoFrame
BY ShowAssumption

LEMMA LoadImageType ==
    ASSUME TypeOK, NEW f \in Files \cup {NoFile}
    PROVE  /\ LoadImage(loader, f) \in Loaders
           /\ LoadImage(loader, f).file = f
           /\ LoadImage(loader, f).image = NoFrame
           /\ f \in Readable => /\ LoadImage(loader, f).animation.max = Frames[f]
                                /\ LoadImage(loader, f).animation.index = 0
<1>1. loader.animation \in RotatingIndices
  BY DEF TypeOK, Loaders
<1>2. f \in Readable =>
          /\ SetIndex(loader.animation, 0, Frames[f]) \in RotatingIndices
          /\ SetIndex(loader.animation, 0, Frames[f]).max = Frames[f]
          /\ SetIndex(loader.animation, 0, Frames[f]).index = 0
  BY FramesType DEF SetIndex, Rotating, RotatingIndices
<1> QED
  BY <1>1, <1>2 DEF LoadImage, Loaders

LEMMA NextFrameType ==
    ASSUME IndInv, NEW found \in BOOLEAN
    PROVE  /\ NextFrame(loader, found) \in Loaders
           /\ NextFrame(loader, found).file = loader.file
           /\ NextFrame(loader, found).animation.max = loader.animation.max
           /\ NextFrame(loader, found).image # NoFrame =>
                /\ NextFrame(loader, found).image.file = loader.file
                /\ Real(NextFrame(loader, found).image)
<1> DEFINE a == Increment(loader.animation)
           image == IF found /\ loader.file \in Decodable
                    THEN [file |-> loader.file, n |-> a.index]
                    ELSE loader.image
<1>1. loader \in Loaders /\ loader.animation \in RotatingIndices
  BY DEF IndInv, TypeOK, Loaders
<1>2. a \in RotatingIndices /\ a.max = loader.animation.max
  BY <1>1, IncrementType
<1>3. NextFrame(loader, found)
          = [loader EXCEPT !.animation = a, !.lost = ~found, !.image = image]
  BY <1>1 DEF NextFrame, Loaders
<1> HIDE DEF a
<1>4. a.index \in Nat /\ a.index < a.max
  BY <1>2 DEF RotatingIndices
<1>5. loader.file \in Decodable => loader.animation.max = Frames[loader.file]
  BY DEF IndInv, LoaderAgrees
<1>6. image \in AllFrames \cup {NoFrame}
  BY <1>1, <1>4, FramesType DEF Loaders, AllFrames
<1>7. image # NoFrame => image.file = loader.file /\ Real(image)
  <2>1. CASE found /\ loader.file \in Decodable
    BY <1>2, <1>4, <1>5, <2>1 DEF Real
  <2>2. CASE ~(found /\ loader.file \in Decodable)
    BY <2>2 DEF IndInv, LoaderAgrees
  <2> QED
    BY <2>1, <2>2
<1> HIDE DEF image
<1> QED
  BY <1>1, <1>2, <1>3, <1>6, <1>7 DEF Loaders

\* The end of a coroutine starts at most one timer, and the one that the frame
\* of an animation asks for.
LEMMA StartedTimersBound ==
    ASSUME NEW l, NEW started \in StartedTimers(l)
    PROVE  /\ started \in 0..1
           /\ l.file \in Animated /\ ~l.lost /\ FrameAt(l) \in Delayed => started = 1
BY FramesType DEF StartedTimers, NewTimers, Animated

-----------------------------------------------------------------------------
(* The invariant *)

LEMMA InitEstablishesInv ==
    ASSUME Init PROVE IndInv
<1>1. Rotating(0, 1) \in RotatingIndices
  BY DEF Rotating, RotatingIndices
<1>2. loader \in Loaders /\ loader.image = NoFrame /\ loader.file = NoFile
  BY <1>1 DEF Init, Loaders
<1>3. extractions \in Seq(Files) /\ timers \in Nat /\ shows \in 0..ShowBound
  BY ShowAssumption DEF Init
<1>4. TypeOK
  BY <1>2, <1>3 DEF Init, TypeOK
<1>5. NoFile \notin Decodable
  BY ShowAssumption
<1> QED
  BY <1>2, <1>4, <1>5
     DEF Init, IndInv, LoaderAgrees, DimensionsMatchScreen, OriginalOnScreen

\* A load that fails leaves the screen, and at most clears the label.
LEMMA FailedLoadKeepsInv ==
    ASSUME IndInv, NEW f \in Files \cup {NoFile}, f \notin Decodable,
           NEW clears \in BOOLEAN, dimensions' = Label(clears),
           loader' = LoadImage(loader, f), original' \in {original, NoFrame},
           UNCHANGED <<screen, information, extractions, timers, shows>>
    PROVE  IndInv'
<1>1. /\ loader' \in Loaders /\ loader'.file = f /\ loader'.image = NoFrame
  BY LoadImageType DEF IndInv
<1>2. dimensions' \in {NoFile, dimensions}
  BY DEF Label
<1>3. TypeOK'
  BY <1>1, <1>2 DEF IndInv, TypeOK
<1>4. LoaderAgrees'
  BY <1>1 DEF LoaderAgrees
<1> QED
  BY <1>2, <1>3, <1>4
     DEF IndInv, DimensionsMatchScreen, OriginalOnScreen, Real

LEMMA ShowImageKeepsInv ==
    ASSUME IndInv, NEW f \in Files, ShowImage(f) PROVE IndInv'
<1> DEFINE l == LoadImage(loader, f)
           frame == [file |-> f, n |-> 0]
<1>1. f \in Decodable /\ f \in Readable /\ 0 < Frames[f] /\ TypeOK
  BY FramesType DEF ShowImage, IndInv
<1>2. /\ l \in Loaders /\ l.file = f
      /\ l.animation.max = Frames[f] /\ l.animation.index = 0
  BY <1>1, LoadImageType
<1>3. frame \in AllFrames /\ frame # NoFrame /\ Real(frame) /\ frame.file = f
  BY <1>1, FramesType DEF AllFrames, Real
<1>4. loader' = [l EXCEPT !.image = frame]
  BY <1>1, <1>2 DEF ShowImage, ReadImage
<1> HIDE DEF l, frame
<1>5. /\ loader' \in Loaders /\ loader'.file = f /\ loader'.image = frame
      /\ loader'.animation.max = Frames[f]
  BY <1>2, <1>3, <1>4 DEF Loaders
<1>6. /\ original' = frame /\ screen' = frame /\ dimensions' = f
      /\ information' = information /\ timers' = timers
  BY <1>5 DEF ShowImage
<1>7. extractions' \in Seq(Files)
  BY <1>1 DEF ShowImage, TypeOK
<1>8. shows' \in 0..ShowBound
  BY <1>1, ShowAssumption DEF ShowImage, TypeOK
<1>9. TypeOK'
  BY <1>1, <1>3, <1>5, <1>6, <1>7, <1>8 DEF TypeOK
<1> QED
  BY <1>3, <1>5, <1>6, <1>9
     DEF IndInv, LoaderAgrees, DimensionsMatchScreen, OriginalOnScreen

LEMMA ExtractionKeepsInv ==
    ASSUME IndInv, NEW f \in Files, ExtractionFinished(f) PROVE IndInv'
<1>1. TypeOK
  BY DEF IndInv
<1>2. extractions' \in Seq(Files)
  BY <1>1, RemoveAtType DEF ExtractionFinished, TypeOK
<1>3. timers' \in Nat
  BY <1>1, StartedTimersBound DEF ExtractionFinished, TypeOK
<1>4. information' \in Files /\ UNCHANGED <<loader, original, screen, dimensions, shows>>
  BY DEF ExtractionFinished
<1>5. TypeOK'
  BY <1>1, <1>2, <1>3, <1>4 DEF TypeOK
<1> QED
  BY <1>4, <1>5
     DEF IndInv, LoaderAgrees, DimensionsMatchScreen, OriginalOnScreen, Real

LEMMA NextImageKeepsInv ==
    ASSUME IndInv, OnNextImage PROVE IndInv'
<1>0. PICK found \in BOOLEAN : loader' = NextFrame(loader, found)
  BY DEF OnNextImage
<1> DEFINE l == NextFrame(loader, found)
<1>1. /\ l \in Loaders /\ l.file = loader.file
      /\ l.animation.max = loader.animation.max
      /\ l.image # NoFrame => l.image.file = loader.file /\ Real(l.image)
  BY NextFrameType
<1>2. /\ loader' = l /\ original' = l.image
      /\ screen' = IF l.image = NoFrame THEN screen ELSE l.image
      /\ UNCHANGED <<dimensions, information, extractions, shows>>
  BY <1>0 DEF OnNextImage
<1> HIDE DEF l
<1>3. TypeOK /\ LoaderAgrees /\ DimensionsMatchScreen
  BY DEF IndInv
<1>4. timers' \in Nat
  BY <1>3 DEF OnNextImage, TypeOK, NewTimers
<1>5. l.image \in AllFrames \cup {NoFrame}
  BY <1>1 DEF Loaders
<1>6. TypeOK'
  BY <1>1, <1>2, <1>3, <1>4, <1>5 DEF TypeOK
<1>7. LoaderAgrees'
  BY <1>1, <1>2, <1>3 DEF LoaderAgrees, Real
<1>8. DimensionsMatchScreen'
  BY <1>1, <1>2, <1>3 DEF LoaderAgrees, DimensionsMatchScreen, Real
<1>9. (screen # NoFrame => Real(screen))' /\ OriginalOnScreen'
  BY <1>1, <1>2 DEF IndInv, OriginalOnScreen, Real
<1> QED
  BY <1>6, <1>7, <1>8, <1>9 DEF IndInv

LEMMA NextKeepsInv ==
    ASSUME IndInv, [Next]_vars PROVE IndInv'
<1>1. ASSUME NEW f \in Files \cup {NoFile}, NEW clears \in BOOLEAN,
             ShowUnreadable(f, clears)
      PROVE  IndInv'
  BY <1>1, FailedLoadKeepsInv, FramesType DEF ShowUnreadable
<1>2. ASSUME NEW f \in Files \cup {NoFile}, NEW clears \in BOOLEAN,
             ShowUndecodable(f, clears)
      PROVE  IndInv'
  BY <1>2, FailedLoadKeepsInv DEF ShowUndecodable
<1>3. ASSUME NEW f \in Files, ShowImage(f) PROVE IndInv'
  BY <1>3, ShowImageKeepsInv
<1>4. CASE HandleMissingPath
  BY <1>4 DEF HandleMissingPath, IndInv, TypeOK, LoaderAgrees,
              DimensionsMatchScreen, OriginalOnScreen, Real
<1>5. ASSUME NEW f \in Files, ExtractionFinished(f) PROVE IndInv'
  BY <1>5, ExtractionKeepsInv
<1>6. CASE OnNextImage
  BY <1>6, NextImageKeepsInv
<1>7. CASE UNCHANGED vars
  BY <1>7 DEF vars, IndInv, TypeOK, LoaderAgrees, DimensionsMatchScreen,
              OriginalOnScreen, Real
<1> QED
  BY <1>1, <1>2, <1>3, <1>4, <1>5, <1>6, <1>7 DEF Next

\* The timers and the coroutines together keep an animation playing, unless its
\* frame has no delay or its file has gone.
LEMMA NextKeepsChain ==
    ASSUME TypeOK, ChainAlive, [Next]_vars PROVE ChainAlive'
<1>1. /\ loader.file \in Files \cup {NoFile} /\ timers \in Nat
      /\ extractions \in Seq(Files) /\ Animated \subseteq Decodable
  BY DEF TypeOK, Loaders, Animated
<1>2. ASSUME NEW f \in Files \cup {NoFile}, f \notin Decodable,
             loader' = LoadImage(loader, f)
      PROVE  ChainAlive'
  BY <1>2, LoadImageType DEF ChainAlive, Animated
<1>3. ASSUME NEW f \in Files, ShowImage(f) PROVE ChainAlive'
  <2>1. f \in Decodable /\ LoadImage(loader, f).file = f /\ LoadImage(loader, f) \in Loaders
    BY <1>3, LoadImageType DEF ShowImage
  <2>2. loader'.file = f
    BY <1>3, <2>1 DEF ShowImage, ReadImage, Loaders
  <2>3. f \in Waiting'
    BY <1>1, <1>3 DEF ShowImage, Waiting
  <2> QED
    BY <2>2, <2>3 DEF ChainAlive
<1>4. ASSUME NEW f \in Files, ExtractionFinished(f) PROVE ChainAlive'
  <2>1. PICK started \in StartedTimers(loader) : timers' = timers + started
    BY <1>4 DEF ExtractionFinished
  <2>2. /\ started \in 0..1
        /\ loader.file \in Animated /\ ~loader.lost /\ FrameAt(loader) \in Delayed
               => started = 1
    BY <2>1, StartedTimersBound
  <2>3. loader' = loader
    BY <1>4 DEF ExtractionFinished
  <2> QED
    BY <1>1, <2>1, <2>2, <2>3 DEF ChainAlive, Animated, FrameAt
<1>5. CASE OnNextImage
  <2>1. ~loader'.lost /\ FrameAt(loader') \in Delayed => timers' = timers /\ timers > 0
    BY <1>1, <1>5 DEF OnNextImage, NewTimers
  <2> QED
    BY <1>1, <2>1 DEF ChainAlive, FrameAt
<1>6. ASSUME UNCHANGED <<loader, extractions, timers>> PROVE ChainAlive'
  BY <1>6 DEF ChainAlive, Animated, FrameAt, Waiting
<1> QED
  BY <1>2, <1>3, <1>4, <1>5, <1>6, FramesType
     DEF Next, vars, ShowUnreadable, ShowUndecodable, HandleMissingPath

\* Each coroutine stands for one timer to come and each timer for itself.
LEMMA NextBoundsTimers ==
    ASSUME TypeOK, TimersAreOfShows, [Next]_vars PROVE TimersAreOfShows'
<1>1. /\ timers \in Nat /\ shows \in Nat
      /\ extractions \in Seq(Files) /\ Len(extractions) \in Nat
  BY ShowAssumption DEF TypeOK
<1>2. \A l : NewTimers(l) \in 0..1
  BY DEF NewTimers
<1>3. ASSUME NEW f \in Files, ShowImage(f) PROVE TimersAreOfShows'
  BY <1>1, <1>3 DEF ShowImage, TimersAreOfShows
<1>4. ASSUME NEW f \in Files, ExtractionFinished(f) PROVE TimersAreOfShows'
  <2>1. Len(extractions') = Len(extractions) - 1
    BY <1>1, <1>4, RemoveAtType DEF ExtractionFinished
  <2>2. /\ shows' = shows
        /\ \E started \in 0..1 : timers' = timers + started
    BY <1>4, StartedTimersBound DEF ExtractionFinished
  <2> QED
    BY <1>1, <2>1, <2>2 DEF TimersAreOfShows
<1>5. CASE OnNextImage
  <2>1. /\ UNCHANGED <<extractions, shows>>
        /\ timers' = timers - 1 + NewTimers(loader')
    BY <1>5 DEF OnNextImage
  <2> QED
    BY <1>1, <1>2, <2>1 DEF TimersAreOfShows
<1>6. ASSUME UNCHANGED <<extractions, timers, shows>> PROVE TimersAreOfShows'
  BY <1>6 DEF TimersAreOfShows
<1> QED
  BY <1>3, <1>4, <1>5, <1>6
     DEF Next, vars, ShowUnreadable, ShowUndecodable, HandleMissingPath

-----------------------------------------------------------------------------
(* The theorems *)

\* Every state of every run satisfies the inductive invariant.
THEOREM ShowInvariant == Spec => []IndInv
<1>1. Init => IndInv
  BY InitEstablishesInv
<1>2. IndInv /\ [Next]_vars => IndInv'
  BY NextKeepsInv
<1> QED
  BY <1>1, <1>2, PTL DEF Spec

\* The types of the widget's and the loader's state.
THEOREM TypeCorrect == Spec => []TypeOK
<1>1. IndInv => TypeOK
  BY DEF IndInv
<1> QED
  BY <1>1, ShowInvariant, PTL

\* No frame is ever shown that its file does not have: the ring of frames
\* always belongs to the file that the loader reads next.
THEOREM ShownFrameExists == Spec => []FrameExists
<1>1. IndInv => FrameExists
  BY DEF IndInv, FrameExists, Real
<1> QED
  BY <1>1, ShowInvariant, PTL

\* The status bar never has the dimensions of a picture that is not on the
\* screen, whichever loads fail and whichever old timers fire.
THEOREM DimensionsStayTrue == Spec => []DimensionsMatchScreen
<1>1. IndInv => DimensionsMatchScreen
  BY DEF IndInv
<1> QED
  BY <1>1, ShowInvariant, PTL

\* An animation that is on view, with a frame that has a delay and a file that
\* could be read, has a timer running or a coroutine that is about to start one,
\* however its loads and the reading of its metadata interleave with those of
\* other files, and whichever files go and come back.
THEOREM ChainStaysAlive == Spec => []ChainAlive
<1>1. Init => ChainAlive
  BY ShowAssumption DEF Init, ChainAlive, Animated
<1>2. TypeOK /\ ChainAlive /\ [Next]_vars => ChainAlive'
  BY NextKeepsChain
<1> QED
  BY <1>1, <1>2, TypeCorrect, PTL DEF Spec

\* There are never more timers and coroutines than pictures were shown: none of
\* them multiplies, whichever files the loader has when they go on.
THEOREM TimersStayBounded == Spec => []TimersAreOfShows
<1>1. Init => TimersAreOfShows
  BY DEF Init, TimersAreOfShows
<1>2. TypeOK /\ TimersAreOfShows /\ [Next]_vars => TimersAreOfShows'
  BY NextBoundsTimers
<1> QED
  BY <1>1, <1>2, TypeCorrect, PTL DEF Spec

\* The commands work on the picture that is seen, when they work on any.
THEOREM OriginalStaysOnScreen == Spec => []OriginalOnScreen
<1>1. IndInv => OriginalOnScreen
  BY DEF IndInv
<1> QED
  BY <1>1, ShowInvariant, PTL

=============================================================================
