--------------------------- MODULE ClassroomSearch ---------------------------
(***************************************************************************)
(* The search of classrooms (SchoolSearchViewController, SchoolSearchVM),  *)
(* the classroom it opens (LabDetailViewController, its carrousels of      *)
(* images and documents) and the downloads that these start                *)
(* (NetworkActionsController).  The HUD, the directory of the downloaded   *)
(* files and the root controller, which presents one preview at a time,    *)
(* are shared by all of them.  A callback on the main thread is one        *)
(* action; a file is moved into the directory by the session's queue       *)
(* before its callback.                                                    *)
(***************************************************************************)
EXTENDS Integers, Sequences, FiniteSets, SequencesExt

CONSTANTS
  Salones,      \* the classrooms
  Numero,       \* per classroom: its number
  Imagenes,     \* per classroom: the sequence of its images
  Imagen360,    \* the classrooms that have a panorama
  Documentos,   \* per classroom: the sequence of its documents
  Nombre,       \* per image or document: the last component of its path
  Textos,       \* what can be typed
  Named,        \* per text: the classrooms whose name contains it
  Collections,  \* what the collection "salon" can hold, as sequences
  MaxVisits,    \* bound on the appearances of the search
  MaxTaps       \* bound on the downloads

ASSUME VisitsAssumption == MaxVisits \in Nat \ {0}
ASSUME TapsAssumption == MaxTaps \in Nat
ASSUME FilesAssumption ==
  \A s \in Salones : /\ Imagenes[s] \in Seq(DOMAIN Nombre)
                     /\ Documentos[s] \in Seq(DOMAIN Nombre)
ASSUME CollectionsAssumption == Collections \subseteq Seq(Salones)

VARIABLES
  alive,       \* the program has not ended in a fatalError
  detail,      \* the classroom on the screen, or None: then it is the search
  visits,      \* appearances of the search
  asked,       \* the calls of getClassroomData that are not answered
  salones, salonests, pisos, selectedFloor,
  searchActive, filteredSalones,
  rows,        \* what the table has drawn
  downloads,   \* the downloads so far, in the order of the taps, each with the
               \* ones that were done when it was tapped
  disk,        \* per name: the file under it, or None, or Lost
  slsfile,     \* per cell: the name of the file that is to be previewed
  presented,   \* what the root controller presents
  hud,
  abandoned    \* a panorama has failed under the HUD, and nothing has taken it down since

search == <<visits, asked, salones, salonests, pisos, selectedFloor,
            searchActive, filteredSalones, rows>>
files == <<downloads, disk, slsfile>>
vars == <<alive, detail, search, files, presented, hud, abandoned>>

None == "none"
Nothing == [kind |-> None]
\* What a move that failed may leave under its name: nothing, or the file of an
\* earlier run
Lost == "lost"
Urls == UNION {Range(Imagenes[s]) \cup Range(Documentos[s]) : s \in Salones}
\* One carrousel of images and one of documents each time a classroom is shown
Cells == (1 .. MaxVisits) \X {"images", "documents"}

GetFloorNumber(salon) == Numero[salon] \div 100

GetFloors(list) ==
  LET upTo[i \in 0 .. Len(list)] ==
        IF i = 0 THEN <<>>
        ELSE IF GetFloorNumber(list[i]) \in Range(upTo[i - 1])
             THEN upTo[i - 1]
             ELSE Append(upTo[i - 1], GetFloorNumber(list[i]))
  IN  upTo[Len(list)]

\* Swift's filter: the classrooms of list that are in S, in their order
Filtered(list, S) ==
  LET upTo[i \in 0 .. Len(list)] ==
        IF i = 0 THEN <<>> ELSE IF list[i] \in S THEN Append(upTo[i - 1], list[i]) ELSE upTo[i - 1]
  IN  upTo[Len(list)]

OnFloor(list, floor) == Filtered(list, {s \in Salones : GetFloorNumber(s) = floor})

\* What numberOfRows, cellForRow and prepare read
Listed == IF searchActive THEN filteredSalones ELSE salonests

Init ==
  /\ alive = TRUE
  /\ detail = None
  /\ visits = 1 /\ asked = {1}
  /\ salones = <<>> /\ salonests = <<>> /\ pisos = <<1>> /\ selectedFloor = 1
  /\ searchActive = FALSE /\ filteredSalones = <<>>
  /\ rows = <<>>
  /\ downloads = <<>>
  /\ disk = [n \in Range(Nombre) |-> None]
  /\ slsfile = [c \in Cells |-> None]
  /\ presented = Nothing
  /\ hud = TRUE
  /\ abandoned = FALSE

\* SVProgressHUD.dismiss, whoever has put the HUD up
Dismiss == hud' = FALSE /\ abandoned' = FALSE

(***************************************************************************)
(* The search                                                              *)
(***************************************************************************)
OnSearch == alive /\ detail = None /\ presented = Nothing

\* Back from the classroom: viewWillAppear asks for the classrooms again.  Its
\* new search bar is empty, but what was searched before stays as it was.
Reappear ==
  /\ alive /\ detail # None /\ presented = Nothing
  /\ visits < MaxVisits
  /\ detail' = None
  /\ visits' = visits + 1
  /\ asked' = asked \cup {visits'}
  /\ hud' = TRUE
  /\ UNCHANGED <<alive, salones, salonests, pisos, selectedFloor, searchActive,
                 filteredSalones, rows, files, presented, abandoned>>

\* Mistaken form of FilterClassrooms, for a mutation run: no reload at its end.
FilterClassroomsSilently(list, floor) ==
  /\ salonests' = OnFloor(list, floor)
  /\ rows' = rows

\* filterClassrooms, for the classrooms and the floor that are to hold
FilterClassrooms(list, floor) ==
  /\ salonests' = OnFloor(list, floor)
  /\ rows' = IF searchActive THEN filteredSalones ELSE salonests'

\* The completion of getClassroomData, with what the collection held
ClassroomsCome(n, collection) ==
  /\ alive /\ n \in asked
  /\ asked' = asked \ {n}
  /\ IF collection = <<>>
       THEN /\ alive' = FALSE      \* no document: salones is nil
            /\ UNCHANGED <<salones, salonests, pisos, rows, hud, abandoned>>
       ELSE /\ salones' = collection
            /\ FilterClassrooms(collection, selectedFloor)
            /\ pisos' = GetFloors(collection)
            /\ Dismiss
            /\ UNCHANGED alive
  /\ UNCHANGED <<detail, visits, selectedFloor, searchActive, filteredSalones,
                 files, presented>>

\* fatalError
ClassroomsFail(n) ==
  /\ alive /\ n \in asked
  /\ asked' = asked \ {n}
  /\ alive' = FALSE
  /\ UNCHANGED <<detail, visits, salones, salonests, pisos, selectedFloor,
                 searchActive, filteredSalones, rows, files, presented, hud, abandoned>>

UpdateSearchResults(text) ==
  /\ OnSearch
  /\ filteredSalones' = IF text = "" THEN <<>>
                        ELSE Filtered(salones, Named[text])
  /\ searchActive' = (text # "")
  /\ rows' = IF text = "" THEN salonests ELSE filteredSalones'
  /\ UNCHANGED <<alive, detail, visits, asked, salones, salonests, pisos,
                 selectedFloor, files, presented, hud, abandoned>>

SelectFloor(i) ==
  /\ OnSearch /\ i \in 1 .. Len(pisos)
  /\ selectedFloor' = pisos[i]
  /\ FilterClassrooms(salones, pisos[i])
  /\ UNCHANGED <<alive, detail, visits, asked, salones, pisos, searchActive,
                 filteredSalones, files, presented, hud, abandoned>>

\* The row the user sees is tapped; prepare takes the classroom by its number
SelectRow(i, salon) ==
  /\ OnSearch /\ i \in 1 .. Len(rows)
  /\ Listed[i] = salon
  /\ detail' = salon
  /\ UNCHANGED <<alive, search, files, presented, hud, abandoned>>

(***************************************************************************)
(* The classroom and the downloads                                         *)
(***************************************************************************)
OnDetail == alive /\ detail # None /\ presented = Nothing

StartDownload(kind, url) ==
  /\ Len(downloads) < MaxTaps
  /\ downloads' = Append(downloads, [kind |-> kind, url |-> url,
                                     visit |-> visits, stage |-> "running",
                                     after |-> {d \in 1 .. Len(downloads) :
                                                  downloads[d].stage = "done"}])
  /\ hud' = TRUE
  /\ UNCHANGED <<alive, detail, search, disk, slsfile, presented, abandoned>>

\* A carrousel has as many items as images; the first is the panorama, if any
SelectImage(i) ==
  /\ OnDetail /\ i \in 1 .. Len(Imagenes[detail])
  /\ IF i = 1 /\ detail \in Imagen360
       THEN StartDownload("panorama", None)
       ELSE StartDownload("images", Imagenes[detail][i])

SelectDocument(i) ==
  /\ OnDetail /\ i \in 1 .. Len(Documentos[detail])
  /\ StartDownload("documents", Documentos[detail][i])

Running(d) == d \in 1 .. Len(downloads) /\ downloads[d].stage = "running"
CellOf(d) == <<downloads[d].visit, downloads[d].kind>>
Became(d, stage) == downloads' = [downloads EXCEPT ![d].stage = stage]

\* On the session's queue: the file of the same name is removed first
FileMoves(d) ==
  /\ alive /\ Running(d) /\ downloads[d].kind # "panorama"
  /\ disk' = [disk EXCEPT ![Nombre[downloads[d].url]] = downloads[d].url]
  /\ Became(d, "moved")
  /\ UNCHANGED <<alive, detail, search, slsfile, presented, hud, abandoned>>

\* The file of the same name cannot be removed, or it is and the new one cannot be
\* moved: Alamofire notes the error, but gives the destination all the same
FileMoveFails(d) ==
  /\ alive /\ Running(d) /\ downloads[d].kind # "panorama"
  /\ LET name == Nombre[downloads[d].url]
     IN  \E left \in {disk[name], Lost} \ {None} : disk' = [disk EXCEPT ![name] = left]
  /\ Became(d, "moved")
  /\ UNCHANGED <<alive, detail, search, slsfile, presented, hud, abandoned>>

\* The root controller presents nothing while it presents something
Present(what) == presented' = IF presented = Nothing THEN what ELSE presented

\* Mistaken form of DownloadCompletes, for a mutation run: the HUD is left up.
DownloadCompletesQuietly(d) ==
  /\ alive /\ d \in 1 .. Len(downloads) /\ downloads[d].stage = "moved"
  /\ Became(d, "done")
  /\ slsfile' = [slsfile EXCEPT ![CellOf(d)] = Nombre[downloads[d].url]]
  /\ Present([kind |-> "asking", cell |-> CellOf(d)])
  /\ UNCHANGED <<alive, detail, search, disk, hud, abandoned>>

\* Mistaken form of DownloadCompletes, for a mutation run: the carrousel keeps
\* the first file it was given.
DownloadCompletesOnce(d) ==
  /\ alive /\ d \in 1 .. Len(downloads) /\ downloads[d].stage = "moved"
  /\ Dismiss
  /\ Became(d, "done")
  /\ slsfile' = IF slsfile[CellOf(d)] # None THEN slsfile
                ELSE [slsfile EXCEPT ![CellOf(d)] = Nombre[downloads[d].url]]
  /\ Present([kind |-> "asking", cell |-> CellOf(d)])
  /\ UNCHANGED <<alive, detail, search, disk>>

\* The cell is kept by the closure, though its classroom may have been left
DownloadCompletes(d) ==
  /\ alive /\ d \in 1 .. Len(downloads) /\ downloads[d].stage = "moved"
  /\ Dismiss
  /\ Became(d, "done")
  /\ slsfile' = [slsfile EXCEPT ![CellOf(d)] = Nombre[downloads[d].url]]
  /\ Present([kind |-> "asking", cell |-> CellOf(d)])
  /\ UNCHANGED <<alive, detail, search, disk>>

\* No destination: fatalError
DownloadFails(d) ==
  /\ alive /\ Running(d) /\ downloads[d].kind # "panorama"
  /\ Became(d, "done")
  /\ Dismiss
  /\ alive' = FALSE
  /\ UNCHANGED <<detail, search, disk, slsfile, presented>>

PanoramaCompletes(d) ==
  /\ alive /\ Running(d) /\ downloads[d].kind = "panorama"
  /\ Became(d, "done")
  /\ Dismiss
  /\ Present([kind |-> "panorama"])
  /\ UNCHANGED <<alive, detail, search, disk, slsfile>>

PanoramaFails(d) ==
  /\ alive /\ Running(d) /\ downloads[d].kind = "panorama"
  /\ Became(d, "done")
  /\ abandoned' = hud
  /\ UNCHANGED <<alive, detail, search, disk, slsfile, presented, hud>>

\* The preview asks its cell for the item and reads the file
PreviewItem ==
  /\ alive /\ presented.kind = "asking"
  /\ presented' = [kind |-> "preview", cell |-> presented.cell,
                   shown |-> disk[slsfile[presented.cell]]]
  /\ UNCHANGED <<alive, detail, search, files, hud, abandoned>>

ClosePresented ==
  /\ alive /\ presented.kind \in {"preview", "panorama"}
  /\ presented' = Nothing
  /\ UNCHANGED <<alive, detail, search, files, hud, abandoned>>

Answers ==
  \/ \E n \in 1 .. MaxVisits :
       \/ \E collection \in Collections : ClassroomsCome(n, collection)
       \/ ClassroomsFail(n)
  \/ \E d \in 1 .. MaxTaps :
       \/ FileMoves(d) \/ FileMoveFails(d) \/ DownloadCompletes(d) \/ DownloadFails(d)
       \/ PanoramaCompletes(d) \/ PanoramaFails(d)

Next ==
  \/ Answers
  \/ Reappear
  \/ \E text \in Textos \cup {""} : UpdateSearchResults(text)
  \/ \E i \in 1 .. Cardinality(Salones) :
       SelectFloor(i) \/ \E salon \in Salones : SelectRow(i, salon)
  \/ \E i \in 1 .. Cardinality(Urls) : SelectImage(i) \/ SelectDocument(i)
  \/ PreviewItem
  \/ ClosePresented

Spec == Init /\ [][Next]_vars

(***************************************************************************)
(* What the search and the downloads promise                               *)
(***************************************************************************)
\* The table has drawn what a tap opens, whichever of the floor, the text and
\* the answers changed last; and without a search it is the chosen floor of the
\* last answer, all of whose classrooms can be reached by a floor on the screen.
TableTruthful ==
  alive =>
    /\ rows = Listed
    /\ ~searchActive => rows = OnFloor(salones, selectedFloor)
    /\ \A s \in Range(salones) : GetFloorNumber(s) \in Range(pisos)

Outstanding ==
  asked # {} \/ \E d \in 1 .. Len(downloads) : downloads[d].stage # "done"

\* The HUD, which every call puts up and every answer takes down, is up only
\* while something is awaited, unless a panorama has failed: then it stays, but
\* only until the next answer.
HudSpeaksTruth == alive /\ hud => Outstanding \/ abandoned

\* Of the same name, and tapped as well; or what a move that failed has left
StandsFor(shown, url) ==
  \/ shown = Lost
  \/ /\ \E e \in 1 .. Len(downloads) : downloads[e].url = shown
     /\ Nombre[shown] = Nombre[url]

\* A preview shows a file that was tapped in the very carrousel that shows it,
\* and not one from before the last tap that was answered there, even if several
\* downloads of several classrooms end while it is coming up; only a namesake
\* may have taken its place in the directory, or nothing if a move has failed.
PreviewsTheTapped ==
  presented.kind = "preview" =>
    \E d \in 1 .. Len(downloads) :
      /\ downloads[d].stage = "done" /\ downloads[d].kind # "panorama"
      /\ CellOf(d) = presented.cell
      /\ StandsFor(presented.shown, downloads[d].url)
      /\ \A e \in 1 .. Len(downloads) :
           CellOf(e) = CellOf(d) /\ downloads[e].stage = "done"
             => d \notin downloads[e].after
=============================================================================
