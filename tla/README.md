# Verification of VookiImageViewer

TLA+ models of VookiImageViewer, a Qt image viewer, with the TLC runs that
check them on small instances and TLAPS proofs of their main safety properties.
Paths below are relative to the root of the repository, whose program is in
`src/`; a method is named with its class the first time.

## 1. The system and its parts

The program is a single `MainWindow` around one `ImageAreaWidget`. Everything
runs in handlers on the GUI thread's event loop, one after the other; the
exceptions are the coroutine `ImageAreaWidget::showImage`, which is suspended at a
`co_await`, the worker threads that read metadata for it, and the timers that
play animations. Other programs change files while the viewer runs.

| component | state | operations | what makes it correct |
|---|---|---|---|
| Pipeline: `ImageProcessor` and its stages `ImageFlip`, `ImageRotation`, `ImageZoom`, `ImageBorder` | per stage: settings, bound object, cached result, dirty flag | bind, flip, rotate, scale, fit, scroll, style, process | no stale cache; flips normalised; offsets inside the picture; fit fits |
| View: `ImageAreaWidget` | picture on view, painted picture, window size | the slots of every menu command, wheel, drag, gesture, resize | screen shows the present picture under the present settings; limits hold |
| Show: `ImageAreaWidget::showImage`, `extractMetadata`, `onNextImage`, `ImageLoader` | reader's file, animation index, suspended coroutines, pending timers | show, frame timer, metadata arrives | screen, labels and panel speak of the same file; animations play and end |
| Catalog: `ImageCatalog`, `RotatingIndex` | directory, list of names, index in a ring | open directory or file, next, previous | index in range; opened file shown; order kept |
| `MainWindow`: commands | message of the status bar, menu actions | slots that combine calls of the others | what is reached is what is seen, and panels name it |
| `MainWindow`: modes | mode of the window, check mark, bars shown, bars saved | full screen, toggle of a bar, start | leaving full screen gives back the bars of the window |
| Recent files: `MainWindow`, `RecentFileAction` | the menu, five keys of the settings | register, clear, write at the end, restore | newest first, at most five, same order after a restart |
| Status bar, information panel | three labels, a message, a table | set, clear | agree with the picture; sizes never too small |
| Metadata extractor | EXIF values | extract | result belongs to its file |
| Settings store and dialog | default and user settings, shortcuts | accept, reject, restore | nothing is kept of a rejected dialog |
| Navigation tree, proxy model | current index, expanded nodes | set current, sort | directories first, tree follows the picture |
| `ByteSize`, `misc`, translators, dialogs, platform code, RAW plug-in | none or little | pure functions, I/O | — |

How they interact: `MainWindow::handleImagePath` (command line, tree, recent file,
drag from the system) makes the catalog read a directory and then calls
`ImageAreaWidget::showImage` with the catalog's current file; next and previous go
through the catalog likewise. `showImage` loads the file, starts the metadata
extraction, binds the picture to the pipeline, repaints, and waits for the
extraction. Commands change a setting of the pipeline and repaint. The widget
reports dimensions, size, zoom and metadata to the main window by signals.

What is hard here:

- the pipeline's caches: four dirty flags decide what is recomputed, and a
  command changes several stages (flip, rotate under a flip, original size);
- interleaving: files shown while metadata of others is being read and timers
  of others are pending;
- partial failure: a load that fails after half of its assignments; a command that
  moves the catalog to a file that cannot be shown;
- two records of one thing: check mark and mode of the window, menu and pipeline,
  catalog, message, tree and screen;
- rings that keep the length of the list before;
- numeric edges: fit of turned and flipped pictures, zoom limits, scroll bounds, the
  border between two units of a file's size.

`PROJECT.json` lists every hazard with its line and the properties that watch it.

## 2. Modules

| module | stands for |
|---|---|
| `ImageProcessor` | the four stages and `ImageProcessor`: one record per stage, one operator per method |
| `ImageView` | `ImageAreaWidget` and the view commands of `MainWindow` as a state machine on the pipeline |
| `Orientation` | abstract specification: what rotate and flip commands do to what is seen |
| `RotatingIndex` | `util/RotatingIndex.h`, shared by the catalog and the loader |
| `ImageCatalog` | `ImageCatalog` and the opening and browsing commands, with a changing disk |
| `NameOrder` | the order of the names of a directory and around its ends |
| `Browsing` | abstract specification: next and previous go to the neighbour by name, around the ends |
| `ImageShow` | `ImageLoader`, `showImage`, metadata extraction, animation timers |
| `RecentFiles` | the menu of recent files and the settings that keep it, with ends, crashes and restarts |
| `History` | abstract specification: a bounded history, newest first, and the part that survives a crash |
| `SettingsDialog` | the settings dialog on user and default settings, with the shortcuts in effect |
| `WindowMode` | full screen, the four bars and their actions, start, and a window system that acts by itself |
| `TwoModes` | abstract specification: the bars of the window survive what is done in full screen |
| `ByteSize` | `ByteSize::humanReadableSize` as an operator on sizes |
| `TreeOrder` | `FileSystemSortFilterProxyModel::lessThan` and the order sorting makes of it |
| `Viewer` | composition: `ImageCatalog`, `ImageShow` and `ByteSize` under the handlers of `MainWindow`, with message and tree |
| `Viewing` | abstract specification, end to end: a command goes to a file and that file is seen |
| `MCImageView`, `MCImageCatalog`, `MCImageShow`, `MCRecentFiles`, `MCSettingsDialog`, `MCWindowMode`, `MCViewer` | values of the constants for TLC |
| `ImageViewProofs` (with the pipeline), `ImageCatalogProofs`, `ImageShowProofs`, `RecentFilesProofs`, `SettingsDialogProofs`, `WindowModeProofs`, `HelperProofs`, `ViewerProofs` | lemmas and theorems |

Operators that are defined just before another one and described as "without",
"that forgets" and the like are faulty variants of it. They are used by no
specification; `PROJECT.json` names them as the mutations under which each
property must fail.

### Pipeline and view

`Transforms` abstracts a `QTransform` to the two half turns, the quarter turns and
the scale; that `rotate(180, Qt::XAxis)` makes the type `TxProject`, and that
`isRotating` is true from `TxRotate` on, is Qt's behaviour, as `ImageZoom` uses it.
A stage is a record of its settings, `orig` (the bound object), `cached` and
`dirty`. `Process` follows `ImageProcessor::process` stage by stage. Its last line, for
a pipeline in which nothing is dirty, is there too but no state takes it: the first line
(`setOriginalImageSize`) makes the zoom dirty on every call. A scale factor is an integer in units of
1/`OneScale`, rounded down, and the size of a transformed picture is rounded
likewise: the rounding differs from floating point by less than a unit. `Fits` therefore
says of a fitted picture that it is in the window as a whole and that one unit of scale
more would take it over an edge.

In `ImageView`, `original` is `m_originalImage`, `processor` the pipeline, `shown`
what `m_finalImage` was painted from and how, `window` the widget's size and
`fitAction` the check mark of the menu action. Each action is a whole slot:
`RotateLeftTriggered` is `onRotateLeftTriggered` with its `transformImage`, and
`OriginalSizeTriggered` is `MainWindow::onOriginalSizeTriggered`, which may first
uncheck the action and so run its slot, and then `onZoomResetTriggered`, which sets
the fit back after it painted. The commands of the mouse and of gestures are
reduced to the distances and factors they result in (`Drags`, `WheelSteps`,
`Pinches`). `blind` counts commands without a picture and exists only to bound
them.

`Orientation` has two variables, the corner of the picture seen at each corner of the
screen (`view`) and whether it is turned over (`over`). They are mapped to
`ShownOrientation`, the flips and turns the screen was painted with together with the
half turn that a scale below 0 amounts to, and to the sign of that scale.
`CommandsOrient` ties every action of the view to one of `Orientation`: the four commands
that turn to their namesakes, showing a picture to `Open`, Ctrl+wheel to `Wheel`, the
other scalings to `Zoom`, and the rest to no change at all.

### Catalog

`disk` is what `entryList` and `sort` return for each directory; `FilesChange`
replaces it at any time. Names are numbers in the catalog's order, and a file in
another directory is another file. `InitializeFile` counts how far the loop in
`ImageCatalog::initialize(const QFile &)` advances the index; for a file that the
filter does not list that is once around, to the first file. `CatalogItem` is the
empty path for a file that is gone, as `canonicalFilePath` is. `shown` is the path
that was handed to `showImage`.

### Show

`ShowImage` is the coroutine up to its `co_await`; `ExtractionFinished` is the rest
of it, from the signal with the metadata to the timer; `extractions` has the files of the
coroutines that wait, any number of them, and they continue in any order. A file is unreadable, readable
and not decodable, or a picture of one or more frames; a still picture has an
`imageCount` of 1, an unreadable file of -1, and both count as animated for
`ImageLoader::isAnimated`. `screen` is the frame that was painted last, `original`
is `m_originalImage`, which a failed load or a late timer can make null while the
screen keeps its picture. `clears` tells whether the command cleared the labels
first: `handleImagePath` does, next and previous do not. The size label is set
together with the dimensions.

`Delayed` are the frames for which the reader reports a delay over 0, whatever its length.
Icons of several sizes and files of several pages have frames without one, and a single
frame may have one; `showImage` starts no timer for a file of one frame
(`StartedTimers`), `onNextImage` starts one after any frame with a delay (`NewTimers`).
`getNextImage` sets the file name again when the frames come round (`Reopens`), which
opens the file again: `OnNextImage` chooses whether it is found. If it has gone, `lost` is
set, the frame before stays, the reader reports a delay of -1 and this timer has no
successor; a later timer, or a coroutine that ends, asks again, when the file may be
back. Setting the index and `jumpToImage` are taken as the position of the frame that is read.

### Recent files

`menu` holds the files of `menuRecentFiles` behind its two fixed actions, `saved` the
settings `viv/recent/file/1` to `5`. `Registered` is the insertion and removal in
`registerProcessedImage`, `AboutToQuit` writes every key through `getRecentFile`, with
its two ways of counting, and `Start` reads the keys from the last to the first:
`Restored` is the loop, a recursive function of the number of keys read.
While the program does not run the menu is empty; `MenuOrNext` is what the next start
will show, and that is what the abstract `history` stands for. A file may be
registered any number of times in a row, as in the code. Choosing a recent file
registers nothing and is no step.

### Settings dialog

`user` are the user settings, where a key may be unset; reading it then gives the
default, as `QSettings` falls back from the application's to the organisation's
settings, which is where `Settings::defaultSettings` writes. `shortcuts` are those of the
menus' actions, `look` the colours and border the view was last given, and `fields`
what the dialog has for each key. The options are in two groups, those handed to
the view on accepting (`Looks`) and those read where they are needed (`Others`); the
shortcuts are in neither. `Escape` is `QDialog::reject` without `onRejected`, which only
the button Cancel calls. `Restart` is the end of the program, orderly or not, and the next
start: settings are written when the dialog is accepted and at no other time.

### Full screen and bars

`full` is `isFullScreen()`, `checked` the check mark of `actionFullScreen`, `shown` the
bars to be seen, `prior` is `m_widgetVisibilityPriorFullscreen` and `settings` what the
constructor and the handler read. Every handler that shows or hides a bar sets the
check mark of its action too, so one set stands for both. `FullScreenToggled` is the
whole of `MainWindow::onFullScreenToggled`, which asks the window for its mode and not
the action. `SystemSwitchesMode` is a window system that enters or leaves full screen by
itself: no handler runs and the check mark stays behind. When the program's own action
then leaves a full screen that the system entered, the bars saved some time earlier, or
none, are shown. Neither the code nor a document says what should be seen then, and
`TwoModes` promises nothing of it: it promises that the bars are restored as long as the
system keeps out.

### Window

A step of `Viewer` is a whole handler: `HandleImagePath` moves the catalog, clears what
`handleImagePath` clears, sets message and tree as `registerProcessedImage` does, and
ends in one of the three outcomes of `showImage`; next and previous are the same
without the clearing. The steps of the catalog and of the view are those of
`ImageCatalog` and `ImageShow`, taken by `INSTANCE` on the same variables; the rest of the
coroutine and the timers (`ViewGoesOn`) run between any two handlers, and files come and
go at any time. `message` is the file that the message of the status bar names, and
`tree` the file whose node the program set the navigation tree to, until the user moves
in it. A path to be opened comes from the command line, the system, a recent file or a
node of the tree; all of them end in `handleImagePath`, so one action stands for them,
with any path. `SizeLabel` is the text of the size label, which is set and cleared with
the dimensions.

`ByteSize` computes in integers what the code computes in floating point, with the
units at multiples of `Base`: the unit is chosen by the whole part of the mantissa and
the tenths are rounded up. `FileSize` is taken from `Sizes`, which ends where the
code's table of five units does. `TreeOrder` has the comparison and what Qt makes of it in
both directions; names are numbers in their order.

## 3. Runs

| run | bounds | shows |
|---|---|---|
| `ImageView` | a wide and a small tall picture, two windows, two styles, scale steps of 0.5 within 0.5 to 2.0, wheel down to -2.0 (`ScaleBound`), one command in a row without a picture (`BlindBound`); 49,600 states | the safety of the view, and that it implements `Orientation` command by command, at scales of either sign |
| `ViewFitToWindow` | the same | **violated**: finding 1 |
| `ViewZoomLimits` | the same | **violated**: finding 2 |
| `ImageCatalog` | two directories, three names, one unlisted file; 3,904 states, no bound on the length of a behaviour | the catalog's safety, and that it implements `Browsing` |
| `ImageShow` | still pictures without and with a delay, an animation of two frames, a file of three frames whose second has no delay, a corrupt file, a text file; files that are gone and back whenever they are opened again; three pictures shown (`ShowBound`), any number of failed loads; 18,021 states | safety and liveness of showing |
| `ShowInformation` | the same | **violated**: finding 3 |
| `ShowTimers` | the two files of several frames | **violated**: finding 4 |
| `RecentFiles` | two paths; the program's own limits, seven actions with two fixed ones and five keys; 8,064 states, no bound on the length of a behaviour | that the menu implements `History` through ends, crashes and restarts |
| `SettingsDialog` | two actions, an option of the view and another one, two values, every initial content of the settings; 3,564 states, no bound on the length of a behaviour | that shown, effective and stored settings agree |
| `SettingsEscape` | the same | **violated**: finding 5 |
| `WindowMode` | three bars, which are interchangeable (symmetry), every settings; 6,528 states, no bound on the length of a behaviour | that leaving full screen restores the bars, and that the action goes by the mode of the window |
| `Viewer` | two directories with the same three names, listings full or empty, an animation of two frames, a damaged file, text files, a file without a listed name, units of four; two pictures shown (`ShowBound`), any number of other steps; 61,660 states | that what is reached is what is seen, that message, tree and labels speak of it, and that all parts together implement `Viewing`; the order of the tree by itself |

Why the bounds are enough. A flip toggles and a rotation has four places, so the
view's orientations are all reached; the scale has a value below, at and above
each limit; the two windows make each picture narrower and wider than the area,
and the small one is fitted above the zoom limit, the wide one below it; offsets
reach both ends of a picture. A second command without a picture is of no new
kind, since the first one already leaves every flag in its dirty state. Three
names give the catalog a first, a middle and a last file and two neighbours, with
every subset of them. Three pictures shown are what a late extraction or timer
needs to meet a file shown after the next one; ring lengths 1, 2 and 3 tell a
kept index from a fresh one, and the file of three frames stops in the middle of its ring
while the others stop, if their file goes, at its end. Two paths tell every order of the five places apart
that a wrong key or direction would change, repeated files included; two values and
two actions tell an edited shortcut from a stored, a default and an untouched one.
Three bars have one that is toggled, one that is hidden in full screen and one that is
neither. In `Viewer` the two pictures shown may be the animation and then another one,
so that a timer and an extraction of the first meet the second; the directories go from
full to empty and back, so that every file vanishes before, between and after the
commands that reach it, and the parts by themselves are checked with every listing. The
sizes of its pictures lie just below a border of units and between two; larger instances
are covered by the theorems.

`ImageShow` is the only specification with fairness. `WF_vars(OnNextImage /\ ~loader'.lost)`
says that the event loop delivers an expired timer, and finds the frame of it, if that is
never again impossible; it does not make a file go that could stay for ever.
`WF_vars(ExtractionFinished(f))` says that a worker reaches the end of its file and its
coroutine is resumed; the code has no cancellation of either. Nothing is assumed of the
user or of the disk.

### Properties

- `CachesCoherent`, `ShownIsCurrent`: the dirty flags are truthful and the screen
  is the present picture under the present settings, as if painted from scratch.
- `NeverBothFlips`, `ImplementsOrientation`: flips are normalised, and rotate and
  flip do to the screen what they say, whatever the order of stages inside, also while
  the wheel has turned the picture over; nothing but a scaling or another picture turns it
  back, and nothing but the wheel turns it over.
- `ScrollInBounds`, `UpperZoomLimit`, `OnlyWheelPassesLowerLimit`,
  `FitToWindowUnlessFlippedOnSide`, `FitActionAgrees`: bounds of scrolling, zooming and
  fitting; the lower limit of zoom holds against every command but the wheel, and against
  the end of a fit; menu and pipeline agree on the fit.
- `IndexInRange`, `OpenedFileIsShown`, `ImplementsBrowsing`: the catalog.
- `FrameExists`, `DimensionsMatchScreen`, `OriginalOnScreen`: what is shown exists,
  and labels and commands refer to it.
- `ChainAlive`, `TimersAreOfShows`: an animation at a frame with a delay has what will
  show its next frame, so that it ends only at a frame without a delay or when its file is
  gone; and there are never more timers and coroutines than pictures were shown; that they
  are as many as that is finding 4.
- `AnimationPlays`, `StillPictureSettles` (liveness): an animation that stays on view and on
  the disk, with a delay for every frame, plays every frame again and again; with a file
  that has no delays the timers die out.
- `ImplementsTwoModes`: the bars of the window are those it had when full screen was
  entered, whatever was toggled and set meanwhile, and a check mark that is wrong does not
  make the action enter for leave.
- `PictureAtHand`, `ImplementsViewing`: once a file that can be decoded is reached, it is
  the one seen and worked on, and neither timers nor late metadata nor the disk change
  that; a file that cannot be shown is passed over by the next command.
- `PanelsAtPicture`, `SizeOfPicture`: a message or node that names a picture names the one
  seen, and the size told is the one of that picture, rounded up.
- `ImplementsHistory`: every step does to the history what its name says, and a start
  changes nothing; five keys and seven actions, written in one order and read in the
  other, come out the same.
- `DialogShowsShortcuts`, `LookIsStored`, `ButtonsSettleShortcuts`: an open dialog shows
  the shortcuts in effect; the view is painted with what is stored and not with what
  was tried; after either button the next start changes no shortcut.

### Findings

1. *Fit of flipped pictures.* `ImageZoom.h:30` does not exchange width and height
   of a flipped picture on its side, so it is not fitted to the window.
2. *Zoom limit of the wheel.* Ctrl+wheel is a zoom-in command in both directions
   (`ImageAreaWidget.cpp:341`), so the lower limit of `zoom` is not applied and the
   scale factor becomes zero and negative.
3. *Late metadata.* The metadata of an earlier file replaces that of the picture
   on view when it is read later (`ImageAreaWidget.cpp:366`).
4. *Timers add up.* Each `showImage` whose coroutine ends while an animation is on view
   starts a timer, whether or not one is pending (`ImageAreaWidget.cpp:64-67`), and each
   timer has its own successor (`:125`). After two animations, or the same one twice, one
   animation has its frames turned by two timers and runs at twice its pace.
5. *Esc keeps edited shortcuts.* Only Cancel takes edited shortcuts back
   (`SettingsDialog.cpp:137`); after Esc or closing the window they stay in effect and
   are stored nowhere.

## 4. Proofs

All proofs hold for every value of the constants that satisfies the assumptions
of the modules: pictures have positive sizes, `OneScale` is positive, steps and
limits are natural numbers, a scale of 1.0 lies within the limits of the zoom, listings
are sorted without duplicates, an animation has at least one frame, the keys of options
and shortcuts are different ones, and the menu of recent files has two fixed actions and
room for as many files as there are keys.

*View.* `ViewInvariant` proves `IndInv`: the type; `Sound(processor)`, that is,
truthful dirty flags and never both flips; the pipeline bound to the frame on
view; and, when there is one, the screen current and the offsets in bounds.
`ShownIsCurrent` alone is not inductive: a repaint is only right because the flags
of stages it does not recompute told the truth before. `ImageViewProofs` has
one lemma per method (`Sound...`) that it leaves the pipeline sound, and
`ProcessedPipeline` that processing a sound pipeline gives each stage the result of
its settings. From it follow `TypeCorrect`, `CachesStayCoherent`, `ScreenIsCurrent`,
`FlipsStayNormal`, `ScrollStaysInBounds` and `FitActionStaysTrue`.

`UpperLimitHolds` and `LimitPassedByWheelOnly` rest on `NextRescales`, which lists what one
step can make of the scale of a picture that is not fitted: the same, 1.0, a sum cut off at
the upper limit, a difference cut off at the lower one, or what the wheel makes of it. It
holds because processing changes the scale only where it fits, and because every way of
ending a fit puts the scale back to 1.0. The lower limit is an action property and not an
invariant: once the wheel has passed it (finding 2) the other commands start from there.

`FitHoldsUnlessFlippedOnSide` is about every picture and window. The scale that fits is the
smaller of two rounded quotients; `SideFits` shows for one side, from the bounds that a
quotient and its remainder give (`DivBounds`, `ProductOrder`), that the scaled side is within
the window's and that one unit more is too much for it, and `FitScaleFits` puts the two sides
together. The invariant `FitShown` carries this through the steps: every repaint of a fitted
picture computes the scale anew from the transformation it paints with, so only a step that
repaints has to establish it, and the others change neither the screen nor the fit.

`ViewImplementsOrientation` is the refinement of `Orientation`. What the picture faces is a
function of the two flips and the quarter turns (`Facing`, `Faced`); lemmas
`RotationsFace` and `FlipsFace` say what the methods do to these, `SeenTurned` and
`SeenFlipped` what that looks like, and there it matters that both flips are never set.
No other step but showing a picture changes it (`OthersKeepFaced`). `ScreenOfSign` shows
that a scale below 0 looks like a half turn of that, and `HalfTurnCommutes` that the half
turn commutes with the four commands, which are therefore right at either sign. That only
the wheel makes the scale negative is `SignKept`: a picture that is fitted has a scale of at least 0
(`FitShown`), the steps that do not scale keep it (`PlainKeepsScale`), and the other
scalings are sums, and differences cut off at a limit that is not negative
(`ZoomsRescale`).

*Catalog.* `Located` strengthens `IndexInRange` by the list coming from a real
directory. On it rest `TypeCorrect`, `IndexStaysInRange`, `OpeningShowsFile` and
`CatalogImplementsBrowsing`, the refinement: the names next to each other in a
sorted list are neighbours in the set of names (`SuccessorInListing`,
`PredecessorInListing`).

*Show.* `IndInv` adds to the safety properties that the loader's picture belongs to
its file, and that a decodable file's ring has as many places as the file has frames
(`LoaderAgrees`). From it follow `TypeCorrect`, `ShownFrameExists`, `DimensionsStayTrue`
and `OriginalStaysOnScreen`. `ChainStaysAlive` and `TimersStayBounded` are inductive with the
type: a coroutine that ends and a timer that fires each leave at most one timer, and exactly
one if the loader then has an animation at a frame with a delay, in a file it could open.

*Recent files.* Writing and reading go through the keys in opposite directions, and reading
skips empty keys. `RestoredIsKept` shows that reading gives the files in the order of the keys
if no empty key is before a file (`SavedInOrder`), which `RecentInvariant` proves of every
state. The loop is a recursive function, and its values are found by induction over the
number of keys read: `NumbersFromZero` derives the induction from the least number of a set
that is not empty, and `OneMoreKey` is its step. With `RegisteredIsNewest`, that the insertion
and the removal behind the limit keep the newest files, and `FileOfKey`, what the two ways of
counting yield, each step maps to one of `History` (`RecentFilesImplementHistory`), for any
number of keys; `TypeCorrect` is that the menu never has more files than there are keys.

*Settings dialog.* `IndInv` is the type with `DialogShowsShortcuts` and `LookIsStored`, each
of which is inductive given the type; `TypeCorrect`, `DialogStaysTrue` and
`LookStaysStored` follow. `ButtonsSettleAll` is an action property: accepting stores
what the dialog shows, which by the invariant is what is in effect.

*Window modes.* The type is inductive and enough: while the window fills the screen,
`prior` is what the abstract window has, and only entering and a start change it, so each step
maps to one of `TwoModes` (`WindowModeImplementsTwoModes`, with the command it belongs to by
`CommandsRefine`), for any set of bars.

*Order and sizes.* `HelperProofs` has the order of names for lists of any length:
`SuccessorIsNextPlace` and `PredecessorIsPlaceBefore`, and `TreeOrderIsStrict`, that both
directions of the tree are strict total orders, which a sort needs. `SizesAreRoundedUp`
shows of every size that has a unit that it is told in the largest unit it reaches, at
least 1.0 and at most a full next unit, and rounded up by less than a tenth.

*Window.* `ViewerInvariant` joins the catalog's invariant, the types of the view, and
`LoaderOnScreen`: if the loader's file can be decoded, it is the one on the screen and the
one commands work on, and if not, the loader has no frame. This is why a timer of an
earlier animation cannot harm: it asks the loader, which has either the present file or
nothing. That the loader's file is the one the commands reached gives `PictureIsAtHand`,
and with the panels `PanelsStayAtPicture` and `SizeIsOfPicture`. `ViewerUsesItsParts` proves
that every behaviour of the window is one of `ImageCatalog` and one of `ImageShow`, so the
theorems about these hold in the composition; `ViewerImplementsViewing` is the refinement,
in which the loop of `ImageCatalog::initialize` and the turning ring become the order of
names.

Only model-checked: the liveness properties `AnimationPlays` and `StillPictureSettles`, which
TLAPS cannot prove, as it has no rule for fairness, and the findings, which are
counterexamples. Every other property of a passing run is stated by a theorem.

## 5. Not modelled

- Pixels, colours and the drawing of the border; the length of a delay.
- What should be seen after the window system has entered full screen by itself and the
  program leaves it (`ui/MainWindow.cpp:343`): the steps are modelled, no property speaks of them.
- Floating point: scales are multiples of a step. `ByteSize` leaves the rounding mode of
  the thread at downwards (`util/ByteSize.cpp:22`), which from then on touches the last
  digit of the zoom and of its label; the zoom label itself is left out.
- Sizes of 1024 TB and more, for which `ByteSize` reads behind its table
  (`util/ByteSize.cpp:29`).
- What `MetadataExtractor` reads out of EXIF data: text made of external data by an
  external library. When it starts and ends is modelled.
- What part of the tree is expanded and visible, the queued expansion included: it
  changes nothing but what can be seen of the tree.
- The walk over the menus in `misc`, which gives the fixed set of actions that
  `SettingsDialog` has as a constant; translators and the language.
- Setters that only tests call (`restoreDefaultSettings`, absolute offsets and flips).
- Informational dialogs, platform code, the RAW plug-in, the build.

## 6. Plan

Done, in this order: pipeline, view and `Orientation`; catalog and `Browsing`; show;
`RecentFiles` and `History`; `SettingsDialog`; `WindowMode` and `TwoModes`; `ByteSize`,
`TreeOrder`; `Viewer` and `Viewing`; the proofs of the view's orientation, of its limits and
of the fit; the proofs about the timers and about `RecentFiles`.

Left:

1. The choice between the values of EXIF data that `MetadataExtractor` makes (which tag
   stands in for a missing one), as an operator on the set of tags present.
2. An abstract specification of the settings dialog, with the stored settings as its state,
   and the proof that the dialog implements it but for finding 5.
3. The order that sorting by `TreeOrder` results in, for directories of any size.
