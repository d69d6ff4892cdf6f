----------------------- MODULE ClassroomSearchProofs -----------------------
(***************************************************************************)
(* Proofs about ClassroomSearch: that the HUD speaks the truth and that a  *)
(* preview shows what was tapped in its carrousel, for every set of        *)
(* classrooms and files and every number of appearances and downloads.     *)
(***************************************************************************)
EXTENDS ClassroomSearch, SequenceTheorems, WellFoundedInduction, TLAPS

Taps == 1 .. Len(downloads)

Download ==
  [kind : {"images", "documents", "panorama"}, url : DOMAIN Nombre \cup {None},
   visit : 1 .. MaxVisits, stage : {"running", "moved", "done"}, after : SUBSET Nat]

FilesInv ==
  /\ detail \in Salones \cup {None}
  /\ visits \in 1 .. MaxVisits
  /\ downloads \in Seq(Download)
  /\ \A d \in Taps : downloads[d].kind # "panorama" => downloads[d].url \in DOMAIN Nombre
  /\ \A d \in Taps : downloads[d].stage = "moved" => downloads[d].kind # "panorama"
  /\ disk \in [Range(Nombre) -> DOMAIN Nombre \cup {None, Lost}]
  /\ slsfile \in [Cells -> Range(Nombre) \cup {None}]

\* What is noted at a tap are downloads, and they were done.
AfterInv ==
  \A e \in Taps : \A d \in downloads[e].after :
    d \in Taps /\ downloads[d].stage = "done"

\* Whatever file is in the directory was tapped, and is under its own name.
NamesInv ==
  \A n \in Range(Nombre) :
    \/ disk[n] \in {None, Lost}
    \/ Nombre[disk[n]] = n /\ \E e \in Taps : downloads[e].url = disk[n]

\* Under the name of a file that was moved is that file or a namesake, or what a
\* move that failed has left.
DiskInv ==
  alive => \A d \in Taps : downloads[d].kind # "panorama" /\ downloads[d].stage # "running"
                             => StandsFor(disk[Nombre[downloads[d].url]], downloads[d].url)

\* d was answered in the carrousel c, and nothing was tapped since then.
LastAnswered(d, c) ==
  /\ d \in Taps
  /\ downloads[d].stage = "done" /\ downloads[d].kind # "panorama"
  /\ CellOf(d) = c
  /\ \A e \in Taps : d \notin downloads[e].after

\* A preview that comes up will ask for such a file; one that is up shows one.
PresentedInv ==
  /\ presented.kind = "asking" =>
       \E d \in Taps : /\ LastAnswered(d, presented.cell)
                       /\ slsfile[presented.cell] = Nombre[downloads[d].url]
  /\ presented.kind = "preview" =>
       \E d \in Taps : /\ LastAnswered(d, presented.cell)
                       /\ StandsFor(presented.shown, downloads[d].url)

\* Inductive strengthening of PreviewsTheTapped.
PreviewInv == FilesInv /\ AfterInv /\ NamesInv /\ DiskInv /\ PresentedInv

\* A tap adds a download, which notes those that were done, and changes nothing
\* of the others.
LEMMA TapAppends ==
  ASSUME FilesInv, NEW kind \in {"images", "documents", "panorama"},
         NEW url \in DOMAIN Nombre \cup {None}, StartDownload(kind, url)
  PROVE  /\ downloads' \in Seq(Download)
         /\ Len(downloads') = Len(downloads) + 1
         /\ \A d \in Taps : downloads'[d] = downloads[d]
         /\ downloads'[Len(downloads) + 1].kind = kind
         /\ downloads'[Len(downloads) + 1].url = url
         /\ downloads'[Len(downloads) + 1].stage = "running"
         /\ downloads'[Len(downloads) + 1].after
              = {d \in Taps : downloads[d].stage = "done"}
  <1> DEFINE new == [kind |-> kind, url |-> url, visit |-> visits, stage |-> "running",
                     after |-> {d \in Taps : downloads[d].stage = "done"}]
  <1>1. downloads' = Append(downloads, new)
    BY DEF StartDownload, Taps
  <1>2. downloads \in Seq(Download) /\ visits \in 1 .. MaxVisits
    BY DEF FilesInv
  <1>3. Taps \subseteq Nat
    BY <1>2 DEF Taps
  <1>4. new \in Download
    BY <1>2, <1>3 DEF Download
  <1> HIDE DEF new
  <1>5. /\ downloads' \in Seq(Download)
        /\ Len(downloads') = Len(downloads) + 1
        /\ \A d \in Taps : downloads'[d] = downloads[d]
        /\ downloads'[Len(downloads) + 1] = new
    BY <1>1, <1>2, <1>4, AppendProperties DEF Taps
  <1> QED BY <1>5 DEF new

\* An answer changes the stage of its download only.
LEMMA AnswerSetsStage ==
  ASSUME FilesInv, NEW d \in Taps, NEW stage \in {"running", "moved", "done"},
         Became(d, stage)
  PROVE  /\ downloads' \in Seq(Download)
         /\ Taps' = Taps
         /\ downloads'[d].stage = stage
         /\ \A e \in Taps : /\ e # d => downloads'[e] = downloads[e]
                            /\ downloads'[e].kind = downloads[e].kind
                            /\ downloads'[e].url = downloads[e].url
                            /\ downloads'[e].visit = downloads[e].visit
                            /\ downloads'[e].after = downloads[e].after
  <1>1. downloads \in Seq(Download)
    BY DEF FilesInv
  <1>2. downloads[d] \in Download
    BY <1>1, ElementOfSeq DEF Taps
  <1> DEFINE new == [downloads[d] EXCEPT !.stage = stage]
  <1>3. new \in Download
    BY <1>2 DEF Download
  <1>4. /\ new.stage = stage /\ new.kind = downloads[d].kind /\ new.url = downloads[d].url
        /\ new.visit = downloads[d].visit /\ new.after = downloads[d].after
    BY <1>2 DEF Download
  <1>5. downloads' = [downloads EXCEPT ![d] = new]
    BY DEF Became
  <1> HIDE DEF new
  <1>6. /\ downloads' \in Seq(Download) /\ Len(downloads') = Len(downloads)
        /\ \A e \in Taps : downloads'[e] = IF e = d THEN new ELSE downloads[e]
    BY <1>1, <1>3, <1>5, ExceptSeq DEF Taps
  <1>7. Taps' = Taps
    BY <1>6 DEF Taps
  <1> QED BY <1>4, <1>6, <1>7

\* The invariant holds in the initial states.
LEMMA PreviewInit == Init => PreviewInv
  <1> SUFFICES ASSUME Init PROVE PreviewInv
    OBVIOUS
  <1>1. Taps = {}
    BY DEF Init, Taps
  <1>2. FilesInv
    <2>1. downloads \in Seq(Download)
      BY EmptySeq DEF Init
    <2>2. visits \in 1 .. MaxVisits
      BY VisitsAssumption DEF Init
    <2> QED BY <1>1, <2>1, <2>2 DEF Init, FilesInv
  <1>3. NamesInv
    BY DEF Init, NamesInv
  <1> QED BY <1>1, <1>2, <1>3 DEF Init, PreviewInv, AfterInv, DiskInv, PresentedInv, Nothing, None

\* Nothing is taken back of what was tapped.
LEMMA NamesKept ==
  ASSUME NamesInv, disk' = disk, Taps \subseteq Taps',
         \A e \in Taps : downloads'[e].url = downloads[e].url
  PROVE  NamesInv'
  BY DEF NamesInv

\* A step that leaves the files alone keeps it, if it presents nothing new.
LEMMA PreviewFrame ==
  ASSUME PreviewInv, UNCHANGED <<files, presented>>, alive' => alive,
         detail' \in Salones \cup {None}, visits' \in 1 .. MaxVisits
  PROVE  PreviewInv'
  <1>1. UNCHANGED <<downloads, disk, slsfile>>
    BY DEF files
  <1>2. FilesInv' /\ AfterInv' /\ NamesInv'
    BY <1>1 DEF PreviewInv, FilesInv, AfterInv, NamesInv, Taps
  <1>3. DiskInv'
    BY <1>1 DEF PreviewInv, DiskInv, StandsFor, Taps
  <1>4. \A d, c : LastAnswered(d, c)' = LastAnswered(d, c)
    BY <1>1 DEF LastAnswered, CellOf, Taps
  <1>5. PresentedInv'
    BY <1>1, <1>4 DEF PreviewInv, PresentedInv, StandsFor, Taps
  <1> QED BY <1>2, <1>3, <1>5 DEF PreviewInv

\* What was tapped last is not in front of a preview: nothing is presented.
LEMMA PreviewTap ==
  ASSUME PreviewInv, presented = Nothing, NEW kind \in {"images", "documents", "panorama"},
         NEW url \in DOMAIN Nombre \cup {None}, kind # "panorama" => url \in DOMAIN Nombre,
         StartDownload(kind, url)
  PROVE  PreviewInv'
  <1> DEFINE n == Len(downloads) + 1
  <1>1. /\ downloads' \in Seq(Download)
        /\ Len(downloads') = n
        /\ \A d \in Taps : downloads'[d] = downloads[d]
        /\ downloads'[n].kind = kind
        /\ downloads'[n].url = url
        /\ downloads'[n].stage = "running"
        /\ downloads'[n].after = {d \in Taps : downloads[d].stage = "done"}
    BY TapAppends DEF PreviewInv
  <1>2. UNCHANGED <<alive, detail, visits, disk, slsfile, presented>>
    BY DEF StartDownload, search
  <1>3. Taps' = Taps \cup {n}
    <2>1. Len(downloads) \in Nat
      BY DEF PreviewInv, FilesInv
    <2>2. Taps' = 1 .. n
      BY <1>1 DEF Taps
    <2>3. Taps = 1 .. Len(downloads)
      BY DEF Taps
    <2> HIDE DEF Taps
    <2> QED BY <2>1, <2>2, <2>3
  <1> HIDE DEF n
  <1>4. FilesInv'
    BY <1>1, <1>2, <1>3 DEF PreviewInv, FilesInv
  <1>5. AfterInv'
    BY <1>1, <1>3 DEF PreviewInv, AfterInv
  <1>6. DiskInv'
    <2>1. \A shown, u : StandsFor(shown, u) => StandsFor(shown, u)'
      BY <1>1, <1>3 DEF StandsFor, Taps
    <2> SUFFICES ASSUME alive', NEW d \in Taps', (downloads[d].kind # "panorama")',
                        (downloads[d].stage # "running")'
                 PROVE  StandsFor(disk[Nombre[downloads[d].url]], downloads[d].url)'
      BY DEF DiskInv
    <2>2. d \in Taps /\ downloads'[d] = downloads[d]
      BY <1>1, <1>3
    <2>3. StandsFor(disk[Nombre[downloads[d].url]], downloads[d].url)
      BY <1>2, <2>2 DEF PreviewInv, DiskInv
    <2> QED BY <1>2, <2>1, <2>2, <2>3 DEF StandsFor
  <1>7. NamesInv'
    BY <1>1, <1>2, <1>3, NamesKept DEF PreviewInv
  <1>8. PresentedInv'
    BY <1>2 DEF PresentedInv, Nothing, None
  <1> QED BY <1>4, <1>5, <1>6, <1>7, <1>8 DEF PreviewInv

\* Names stay namesakes and carrousels carrousels when a stage changes.
LEMMA AnswerKeepsNames ==
  ASSUME FilesInv, NEW d \in Taps, NEW stage \in {"running", "moved", "done"},
         Became(d, stage)
  PROVE  /\ \A shown, url : StandsFor(shown, url) => StandsFor(shown, url)'
         /\ \A e \in Taps : CellOf(e)' = CellOf(e)
  BY AnswerSetsStage DEF StandsFor, CellOf, Taps

\* Nothing done is taken back: what was answered last stays so.
LEMMA AnswerKeepsLast ==
  ASSUME FilesInv, NEW d \in Taps, downloads[d].stage # "done",
         NEW stage \in {"moved", "done"}, Became(d, stage), NEW e \in Taps, NEW c,
         LastAnswered(e, c)
  PROVE  LastAnswered(e, c)'
  <1>1. /\ Taps' = Taps /\ downloads'[e] = downloads[e]
        /\ \A f \in Taps : downloads'[f].after = downloads[f].after
    BY AnswerSetsStage DEF LastAnswered
  <1>2. CellOf(e)' = CellOf(e)
    BY <1>1 DEF CellOf
  <1> QED BY <1>1, <1>2 DEF LastAnswered

\* What an answer does to the download's own part of the invariant.
LEMMA AnswerKeepsAfter ==
  ASSUME PreviewInv, NEW d \in Taps, downloads[d].stage # "done",
         NEW stage \in {"moved", "done"}, Became(d, stage)
  PROVE  AfterInv'
  BY AnswerSetsStage DEF PreviewInv, AfterInv

\* An answer leaves the data of the downloads of their shape.
LEMMA AnswerKeepsFiles ==
  ASSUME PreviewInv, NEW d \in Taps, NEW stage \in {"moved", "done"}, Became(d, stage),
         stage = "moved" => downloads[d].kind # "panorama", UNCHANGED <<detail, visits>>,
         disk' \in [Range(Nombre) -> DOMAIN Nombre \cup {None, Lost}],
         slsfile' \in [Cells -> Range(Nombre) \cup {None}]
  PROVE  FilesInv'
  BY AnswerSetsStage DEF PreviewInv, FilesInv

\* A file takes its place in the directory, or that of a namesake; a move that
\* fails leaves a namesake, or nothing that was tapped.
LEMMA PreviewMoves ==
  ASSUME PreviewInv, NEW d \in Taps, FileMoves(d) \/ FileMoveFails(d)
  PROVE  PreviewInv'
  <1> DEFINE moved == Nombre[downloads[d].url]
  <1>1. /\ downloads[d].stage = "running" /\ downloads[d].kind # "panorama" /\ Became(d, "moved")
        /\ UNCHANGED <<alive, detail, visits, slsfile, presented>>
    BY DEF FileMoves, FileMoveFails, Running, search
  <1>2. PICK left \in {downloads[d].url, Lost} \cup ({disk[moved]} \ {None}) :
               disk' = [disk EXCEPT ![moved] = left]
    BY DEF FileMoves, FileMoveFails
  <1>3. /\ Taps' = Taps
        /\ \A e \in Taps : /\ e # d => downloads'[e] = downloads[e]
                           /\ downloads'[e].kind = downloads[e].kind
                           /\ downloads'[e].url = downloads[e].url
    BY <1>1, AnswerSetsStage DEF PreviewInv
  <1>4. downloads[d].url \in DOMAIN Nombre /\ moved \in Range(Nombre)
    BY <1>1 DEF PreviewInv, FilesInv, Range
  <1>5. /\ left \in DOMAIN Nombre \cup {None, Lost}
        /\ left = Lost \/ (Nombre[left] = moved /\ \E e \in Taps : downloads[e].url = left)
    BY <1>2, <1>4 DEF PreviewInv, FilesInv, NamesInv
  <1> HIDE DEF moved
  <1>6. \A n \in Range(Nombre) : disk'[n] = IF n = moved THEN left ELSE disk[n]
    BY <1>2, <1>4 DEF PreviewInv, FilesInv
  <1>7. FilesInv'
    <2>1. disk' \in [Range(Nombre) -> DOMAIN Nombre \cup {None, Lost}]
      BY <1>2, <1>4, <1>5 DEF PreviewInv, FilesInv
    <2> QED BY <1>1, <2>1, AnswerKeepsFiles DEF PreviewInv, FilesInv
  <1>8. AfterInv'
    BY <1>1, AnswerKeepsAfter
  <1>9. NamesInv'
    BY <1>3, <1>5, <1>6 DEF PreviewInv, NamesInv
  <1>10. \A shown, u : StandsFor(shown, u) => StandsFor(shown, u)'
    BY <1>1, AnswerKeepsNames DEF PreviewInv
  <1>11. DiskInv'
    <2> SUFFICES ASSUME alive', NEW e \in Taps, (downloads[e].kind # "panorama")',
                        (downloads[e].stage # "running")'
                 PROVE  StandsFor(disk[Nombre[downloads[e].url]], downloads[e].url)'
      BY <1>3 DEF DiskInv
    <2> DEFINE name == Nombre[downloads[e].url]
    <2>1. downloads[e].url \in DOMAIN Nombre /\ name \in Range(Nombre)
      BY <1>3 DEF PreviewInv, FilesInv, Range
    <2>2. CASE name = moved
      <3>1. disk'[name] = left
        BY <1>6, <2>1, <2>2
      <3>2. StandsFor(left, downloads[e].url)
        BY <1>5, <2>2 DEF StandsFor, Taps
      <3> QED BY <1>3, <1>10, <3>1, <3>2
    <2>3. CASE name # moved
      <3>1. disk'[name] = disk[name] /\ e # d
        BY <1>6, <2>1, <2>3 DEF moved
      <3>2. StandsFor(disk[name], downloads[e].url)
        BY <1>1, <1>3, <3>1 DEF PreviewInv, DiskInv
      <3> QED BY <1>3, <1>10, <3>1, <3>2
    <2> QED BY <2>2, <2>3
  <1>12. PresentedInv'
    <2>1. \A e \in Taps : \A c : LastAnswered(e, c) => LastAnswered(e, c)'
      BY <1>1, AnswerKeepsLast DEF PreviewInv
    <2>2. PresentedInv
      BY DEF PreviewInv
    <2> QED BY <1>1, <1>3, <1>10, <2>1, <2>2 DEF PresentedInv
  <1> QED BY <1>7, <1>8, <1>9, <1>11, <1>12 DEF PreviewInv

\* An answer that leaves the directory and the carrousels alone, and presents
\* at most a panorama.
LEMMA PreviewAnswers ==
  ASSUME PreviewInv, NEW d \in Taps, Became(d, "done"), downloads[d].stage = "running",
         downloads[d].kind = "panorama" \/ ~alive',
         UNCHANGED <<detail, visits, disk, slsfile>>, alive' => alive,
         presented' = presented \/ presented' = [kind |-> "panorama"]
  PROVE  PreviewInv'
  <1>1. /\ Taps' = Taps
        /\ \A e \in Taps : /\ e # d => downloads'[e] = downloads[e]
                           /\ downloads'[e].kind = downloads[e].kind
                           /\ downloads'[e].url = downloads[e].url
    BY AnswerSetsStage DEF PreviewInv
  <1>2. FilesInv' /\ AfterInv' /\ NamesInv'
    BY <1>1, AnswerKeepsFiles, AnswerKeepsAfter, NamesKept DEF PreviewInv, FilesInv
  <1>3. \A shown, u : StandsFor(shown, u) => StandsFor(shown, u)'
    BY AnswerKeepsNames DEF PreviewInv
  <1>4. DiskInv'
    <2> SUFFICES ASSUME alive', NEW e \in Taps, (downloads[e].kind # "panorama")',
                        (downloads[e].stage # "running")'
                 PROVE  StandsFor(disk[Nombre[downloads[e].url]], downloads[e].url)'
      BY <1>1 DEF DiskInv
    <2>1. e # d /\ downloads'[e] = downloads[e]
      BY <1>1
    <2>2. StandsFor(disk[Nombre[downloads[e].url]], downloads[e].url)
      BY <2>1 DEF PreviewInv, DiskInv
    <2> QED BY <1>3, <2>1, <2>2
  <1>5. PresentedInv'
    <2>1. \A e \in Taps : \A c : LastAnswered(e, c) => LastAnswered(e, c)'
      BY AnswerKeepsLast DEF PreviewInv
    <2>2. PresentedInv
      BY DEF PreviewInv
    <2> QED BY <1>1, <1>3, <2>1, <2>2 DEF PresentedInv
  <1> QED BY <1>2, <1>4, <1>5 DEF PreviewInv

\* The carrousel of the answered download has its file, and a preview that comes
\* up now asks that carrousel: nothing was tapped after the answer.
LEMMA PreviewCompletes ==
  ASSUME PreviewInv, NEW d \in Taps, DownloadCompletes(d)
  PROVE  PreviewInv'
  <1> DEFINE c == CellOf(d)
             name == Nombre[downloads[d].url]
  <1>1. /\ downloads[d].stage = "moved" /\ Became(d, "done")
        /\ slsfile' = [slsfile EXCEPT ![c] = name]
        /\ presented' = IF presented = Nothing THEN [kind |-> "asking", cell |-> c] ELSE presented
        /\ UNCHANGED <<alive, detail, visits, disk>>
    BY DEF DownloadCompletes, Present, search
  <1>2. /\ Taps' = Taps
        /\ downloads'[d].stage = "done"
        /\ \A e \in Taps : /\ e # d => downloads'[e] = downloads[e]
                           /\ downloads'[e].kind = downloads[e].kind
                           /\ downloads'[e].url = downloads[e].url
                           /\ downloads'[e].after = downloads[e].after
    BY <1>1, AnswerSetsStage DEF PreviewInv
  <1>3. /\ \A shown, u : StandsFor(shown, u) => StandsFor(shown, u)'
        /\ \A e \in Taps : CellOf(e)' = CellOf(e)
    BY <1>1, AnswerKeepsNames DEF PreviewInv
  <1>4. /\ downloads[d].kind # "panorama"
        /\ downloads[d].url \in DOMAIN Nombre
        /\ name \in Range(Nombre)
    BY <1>1 DEF PreviewInv, FilesInv, Range
  <1>5. c \in Cells
    <2>1. downloads[d] \in Download
      BY ElementOfSeq DEF PreviewInv, FilesInv, Taps
    <2> QED BY <1>4, <2>1 DEF Download, Cells, CellOf
  <1>6. FilesInv'
    <2>1. slsfile' \in [Cells -> Range(Nombre) \cup {None}]
      BY <1>1, <1>4 DEF PreviewInv, FilesInv
    <2> QED BY <1>1, <2>1, AnswerKeepsFiles DEF PreviewInv, FilesInv
  <1>7. AfterInv' /\ NamesInv'
    BY <1>1, <1>2, AnswerKeepsAfter, NamesKept DEF PreviewInv
  <1>8. DiskInv'
    <2> SUFFICES ASSUME alive', NEW e \in Taps, (downloads[e].kind # "panorama")',
                        (downloads[e].stage # "running")'
                 PROVE  StandsFor(disk[Nombre[downloads[e].url]], downloads[e].url)'
      BY <1>2 DEF DiskInv
    <2>1. downloads[e].kind # "panorama" /\ downloads[e].stage # "running"
      BY <1>1, <1>2
    <2>2. StandsFor(disk[Nombre[downloads[e].url]], downloads[e].url)
      BY <1>1, <2>1 DEF PreviewInv, DiskInv
    <2> QED BY <1>1, <1>2, <1>3, <2>2
  <1>9. PresentedInv'
    <2>1. LastAnswered(d, c)'
      <3>1. \A e \in Taps : d \notin downloads[e].after
        BY <1>1 DEF PreviewInv, AfterInv
      <3> QED BY <1>2, <1>3, <1>4, <3>1 DEF LastAnswered
    <2>2. (slsfile[c] = Nombre[downloads[d].url])'
      BY <1>1, <1>2, <1>3, <1>5 DEF PreviewInv, FilesInv
    <2>3. \A e \in Taps : \A b : LastAnswered(e, b) => LastAnswered(e, b)'
      BY <1>1, AnswerKeepsLast DEF PreviewInv
    <2>4. PresentedInv /\ slsfile \in [Cells -> Range(Nombre) \cup {None}]
      BY DEF PreviewInv, FilesInv
    <2>5. CASE presented = Nothing
      BY <1>1, <1>2, <1>3, <2>1, <2>2, <2>5 DEF PresentedInv
    <2>6. CASE presented # Nothing /\ presented.kind = "asking"
      <3>1. presented' = presented
        BY <1>1, <2>6
      <3>2. CASE presented.cell = c
        BY <1>2, <1>3, <2>1, <2>2, <2>6, <3>1, <3>2 DEF PresentedInv
      <3>3. CASE presented.cell # c
        <4>1. slsfile'[presented.cell] = slsfile[presented.cell]
          BY <1>1, <2>4, <3>3
        <4> QED BY <1>2, <2>3, <2>4, <2>6, <3>1, <4>1 DEF PresentedInv
      <3> QED BY <3>2, <3>3
    <2>7. CASE presented # Nothing /\ presented.kind # "asking"
      BY <1>1, <1>2, <1>3, <2>3, <2>4, <2>7 DEF PresentedInv
    <2> QED BY <2>5, <2>6, <2>7
  <1> QED BY <1>6, <1>7, <1>8, <1>9 DEF PreviewInv

\* The preview reads the file of its carrousel, or its namesake.
LEMMA PreviewShows ==
  ASSUME PreviewInv, PreviewItem
  PROVE  PreviewInv'
  <1>1. /\ alive /\ presented.kind = "asking"
        /\ presented' = [kind |-> "preview", cell |-> presented.cell,
                         shown |-> disk[slsfile[presented.cell]]]
        /\ UNCHANGED <<alive, detail, visits, downloads, disk, slsfile>>
    BY DEF PreviewItem, search, files
  <1>2. PICK d \in Taps : /\ LastAnswered(d, presented.cell)
                          /\ slsfile[presented.cell] = Nombre[downloads[d].url]
    BY <1>1 DEF PreviewInv, PresentedInv
  <1>3. StandsFor(disk[slsfile[presented.cell]], downloads[d].url)
    BY <1>1, <1>2 DEF PreviewInv, DiskInv, LastAnswered
  <1>4. PresentedInv'
    BY <1>1, <1>2, <1>3 DEF PresentedInv, LastAnswered, CellOf, StandsFor, Taps
  <1>5. (FilesInv /\ AfterInv /\ NamesInv /\ DiskInv)'
    BY <1>1 DEF PreviewInv, FilesInv, AfterInv, NamesInv, DiskInv, StandsFor, Taps
  <1> QED BY <1>4, <1>5 DEF PreviewInv

\* A closed preview leaves nothing to show.
LEMMA PreviewCloses ==
  ASSUME PreviewInv, ClosePresented
  PROVE  PreviewInv'
  <1>1. presented' = Nothing
    BY DEF ClosePresented
  <1>2. PresentedInv'
    BY <1>1 DEF PresentedInv, Nothing, None
  <1>3. UNCHANGED <<alive, detail, visits, downloads, disk, slsfile>>
    BY DEF ClosePresented, search, files
  <1>4. (FilesInv /\ AfterInv /\ NamesInv /\ DiskInv)'
    BY <1>3 DEF PreviewInv, FilesInv, AfterInv, NamesInv, DiskInv, StandsFor, Taps
  <1> QED BY <1>2, <1>4 DEF PreviewInv

\* Every step of the program keeps it.
LEMMA PreviewStep == PreviewInv /\ [Next]_vars => PreviewInv'
  <1> SUFFICES ASSUME PreviewInv, [Next]_vars PROVE PreviewInv'
    OBVIOUS
  <1>1. detail \in Salones \cup {None} /\ visits \in 1 .. MaxVisits
    BY DEF PreviewInv, FilesInv
  <1>2. CASE \E n \in 1 .. MaxVisits : \/ \E list \in Collections : ClassroomsCome(n, list)
                                      \/ ClassroomsFail(n)
    <2>1. UNCHANGED <<files, presented, detail, visits>> /\ alive
      BY <1>2 DEF ClassroomsCome, ClassroomsFail
    <2> QED BY <1>1, <2>1, PreviewFrame
  <1>3. ASSUME NEW d \in 1 .. MaxTaps,
               \/ FileMoves(d) \/ FileMoveFails(d) \/ DownloadCompletes(d) \/ DownloadFails(d)
               \/ PanoramaCompletes(d) \/ PanoramaFails(d)
        PROVE  PreviewInv'
    <2>1. d \in Taps
      BY <1>3 DEF FileMoves, FileMoveFails, DownloadCompletes, DownloadFails, PanoramaCompletes,
                  PanoramaFails, Running, Taps
    <2>2. CASE FileMoves(d) \/ FileMoveFails(d)
      BY <2>1, <2>2, PreviewMoves
    <2>3. CASE DownloadCompletes(d)
      BY <2>1, <2>3, PreviewCompletes
    <2>4. CASE DownloadFails(d)
      BY <2>1, <2>4, PreviewAnswers DEF DownloadFails, Running, search
    <2>5. CASE PanoramaCompletes(d)
      BY <2>1, <2>5, PreviewAnswers DEF PanoramaCompletes, Running, Present, search
    <2>6. CASE PanoramaFails(d)
      BY <2>1, <2>6, PreviewAnswers DEF PanoramaFails, Running, search
    <2> QED BY <1>3, <2>2, <2>3, <2>4, <2>5, <2>6
  <1>4. CASE Reappear
    <2>1. UNCHANGED <<files, presented>> /\ alive /\ detail' = None /\ visits' \in 1 .. MaxVisits
      BY <1>1, <1>4, VisitsAssumption DEF Reappear
    <2> QED BY <2>1, PreviewFrame
  <1>5. CASE \E text \in Textos \cup {""} : UpdateSearchResults(text)
    <2>1. UNCHANGED <<files, presented, detail, visits, alive>>
      BY <1>5 DEF UpdateSearchResults
    <2> QED BY <1>1, <2>1, PreviewFrame
  <1>6. CASE \E i \in 1 .. Cardinality(Salones) :
               SelectFloor(i) \/ \E salon \in Salones : SelectRow(i, salon)
    <2>1. UNCHANGED <<files, presented, visits, alive>> /\ detail' \in Salones \cup {None}
      BY <1>1, <1>6 DEF SelectFloor, SelectRow, search
    <2> QED BY <1>1, <2>1, PreviewFrame
  <1>7. ASSUME NEW i \in 1 .. Cardinality(Urls), SelectImage(i) \/ SelectDocument(i)
        PROVE  PreviewInv'
    <2>1. detail \in Salones /\ presented = Nothing
      BY <1>1, <1>7 DEF SelectImage, SelectDocument, OnDetail
    <2>2. CASE SelectImage(i) /\ i = 1 /\ detail \in Imagen360
      BY <2>1, <2>2, PreviewTap DEF SelectImage
    <2>3. CASE SelectImage(i) /\ ~(i = 1 /\ detail \in Imagen360)
      <3>1. Imagenes[detail][i] \in DOMAIN Nombre
        BY <2>1, <2>3, FilesAssumption, ElementOfSeq DEF SelectImage
      <3> QED BY <2>1, <2>3, <3>1, PreviewTap DEF SelectImage
    <2>4. CASE SelectDocument(i)
      <3>1. Documentos[detail][i] \in DOMAIN Nombre
        BY <2>1, <2>4, FilesAssumption, ElementOfSeq DEF SelectDocument
      <3> QED BY <2>1, <2>4, <3>1, PreviewTap DEF SelectDocument
    <2> QED BY <1>7, <2>2, <2>3, <2>4
  <1>8. CASE PreviewItem
    BY <1>8, PreviewShows
  <1>9. CASE ClosePresented
    BY <1>9, PreviewCloses
  <1>10. CASE UNCHANGED vars
    <2>1. UNCHANGED <<files, presented, detail, visits, alive>>
      BY <1>10 DEF vars, search
    <2> QED BY <1>1, <2>1, PreviewFrame
  <1> QED BY <1>2, <1>3, <1>4, <1>5, <1>6, <1>7, <1>8, <1>9, <1>10 DEF Next, Answers

\* The strengthened invariant holds of every behaviour of the search.
LEMMA PreviewInvHolds == Spec => []PreviewInv
  BY PreviewInit, PreviewStep, PTL DEF Spec

\* Whatever downloads of whatever classrooms overlap, a preview shows a file
\* that was tapped in its carrousel (or a namesake of it) and that no later tap
\* answered there replaces: SchoolSearchViewController's classroom and the
\* closures of NetworkActionsController.
THEOREM PreviewsTheTappedHolds == Spec => []PreviewsTheTapped
  <1>1. PreviewInv => PreviewsTheTapped
    BY DEF PreviewInv, PresentedInv, PreviewsTheTapped, LastAnswered, Taps
  <1> QED BY <1>1, PreviewInvHolds, PTL

\* A call puts the HUD up and is awaited; the answer takes the HUD down, unless
\* it is that of a panorama that failed, which leaves it to the next one.
LEMMA HudStep == PreviewInv /\ HudSpeaksTruth /\ [Next]_vars => HudSpeaksTruth'
  <1> SUFFICES ASSUME PreviewInv, HudSpeaksTruth, [Next]_vars PROVE HudSpeaksTruth'
    OBVIOUS
  <1>1. CASE \E n \in 1 .. MaxVisits : \/ \E list \in Collections : ClassroomsCome(n, list)
                                      \/ ClassroomsFail(n)
    BY <1>1 DEF ClassroomsCome, ClassroomsFail, Dismiss, HudSpeaksTruth, Outstanding
  <1>2. ASSUME NEW d \in 1 .. MaxTaps,
               \/ FileMoves(d) \/ FileMoveFails(d) \/ DownloadCompletes(d) \/ DownloadFails(d)
               \/ PanoramaCompletes(d) \/ PanoramaFails(d)
        PROVE  HudSpeaksTruth'
    <2>1. CASE FileMoves(d) \/ FileMoveFails(d)
      <3>1. d \in Taps /\ Became(d, "moved")
        BY <2>1 DEF FileMoves, FileMoveFails, Running, Taps
      <3>2. d \in Taps' /\ downloads'[d].stage = "moved"
        BY <3>1, AnswerSetsStage DEF PreviewInv
      <3> QED BY <3>2 DEF HudSpeaksTruth, Outstanding, Taps
    <2>2. CASE PanoramaFails(d)
      <3>1. hud' = hud /\ abandoned' = hud
        BY <2>2 DEF PanoramaFails
      <3>2. hud' => abandoned'
        BY <3>1, Zenon
      <3> QED BY <3>2 DEF HudSpeaksTruth
    <2>3. CASE DownloadCompletes(d) \/ DownloadFails(d) \/ PanoramaCompletes(d)
      BY <2>3 DEF DownloadCompletes, DownloadFails, PanoramaCompletes, Dismiss, HudSpeaksTruth
    <2> QED BY <1>2, <2>1, <2>2, <2>3
  <1>3. CASE Reappear
    BY <1>3 DEF Reappear, HudSpeaksTruth, Outstanding
  <1>4. CASE \/ \E text \in Textos \cup {""} : UpdateSearchResults(text)
             \/ \E i \in 1 .. Cardinality(Salones) :
                  SelectFloor(i) \/ \E salon \in Salones : SelectRow(i, salon)
             \/ PreviewItem \/ ClosePresented \/ UNCHANGED vars
    <2>1. UNCHANGED <<alive, hud, asked, downloads, abandoned>>
      BY <1>4 DEF UpdateSearchResults, SelectFloor, SelectRow, PreviewItem, ClosePresented, vars,
                  search, files
    <2> QED BY <2>1 DEF HudSpeaksTruth, Outstanding
  <1>5. ASSUME NEW i \in 1 .. Cardinality(Urls), SelectImage(i) \/ SelectDocument(i)
        PROVE  HudSpeaksTruth'
    <2>1. detail \in Salones
      BY <1>5 DEF SelectImage, SelectDocument, OnDetail, PreviewInv, FilesInv
    <2>2. PICK kind \in {"images", "documents", "panorama"}, url \in DOMAIN Nombre \cup {None} :
            StartDownload(kind, url)
      <3>1. SelectImage(i) => Imagenes[detail][i] \in DOMAIN Nombre
        BY <2>1, FilesAssumption, ElementOfSeq DEF SelectImage
      <3>2. SelectDocument(i) => Documentos[detail][i] \in DOMAIN Nombre
        BY <2>1, FilesAssumption, ElementOfSeq DEF SelectDocument
      <3> QED BY <1>5, <3>1, <3>2 DEF SelectImage, SelectDocument
    <2>3. /\ Len(downloads') = Len(downloads) + 1
          /\ downloads'[Len(downloads) + 1].stage = "running"
      BY <2>2, TapAppends DEF PreviewInv
    <2>4. Len(downloads) + 1 \in 1 .. Len(downloads')
      <3>1. Len(downloads) \in Nat
        BY DEF PreviewInv, FilesInv
      <3> QED BY <2>3, <3>1
    <2> QED BY <2>3, <2>4 DEF HudSpeaksTruth, Outstanding
  <1> QED BY <1>1, <1>2, <1>3, <1>4, <1>5 DEF Next, Answers

\* The HUD is up only while an answer is awaited, or between a panorama's failure
\* and the next answer, whatever calls of the search and of the classrooms overlap.
THEOREM HudSpeaksTruthHolds == Spec => []HudSpeaksTruth
  <1>1. Init => HudSpeaksTruth
    BY DEF Init, HudSpeaksTruth, Outstanding
  <1> QED BY <1>1, HudStep, PreviewInvHolds, PTL DEF Spec
-----------------------------------------------------------------------------
(* The table and the floors.                                                *)

\* A set of naturals that is not empty has a least element.
LEMMA LeastNat ==
  ASSUME NEW T, T \subseteq Nat, T # {}
  PROVE  \E x \in T : \A y \in T : x <= y
  <1>1. IsWellFoundedOn(OpToRel(<, Nat), Nat)
    BY NatLessThanWellFounded
  <1>2. PICK x \in T : \A y \in T : ~(<<y, x>> \in OpToRel(<, Nat))
    BY <1>1, WFMin
  <1>3. ASSUME NEW y \in T
        PROVE  x <= y
    <2>1. y < x => <<y, x>> \in OpToRel(<, Nat)
      BY DEF OpToRel
    <2>2. ~(y < x)
      BY <1>2, <2>1
    <2> QED BY <2>2
  <1> QED BY <1>3

\* One step of the loop of getFloors: the floors so far and the next classroom.
AddFloor(floors, s) ==
  IF GetFloorNumber(s) \in Range(floors) THEN floors ELSE Append(floors, GetFloorNumber(s))

\* f holds the floors of the first classrooms of list, up to n of them.
FloorsUpTo(f, list, n) ==
  f = [i \in 0 .. n |-> IF i = 0 THEN <<>> ELSE AddFloor(f[i - 1], list[i])]

\* The loop of getFloors has such an f.
LEMMA FloorsDefined ==
  ASSUME NEW list, Len(list) \in Nat
  PROVE  \E f : FloorsUpTo(f, list, Len(list))
  <1> DEFINE Bad == {n \in 0 .. Len(list) : ~ \E f : FloorsUpTo(f, list, n)}
  <1> SUFFICES ASSUME Bad # {} PROVE FALSE
    <2>1. Len(list) \in 0 .. Len(list)
      OBVIOUS
    <2> QED BY <2>1
  <1>1. Bad \subseteq Nat
    OBVIOUS
  <1> HIDE DEF Bad
  <1>2. PICK n \in Bad : \A m \in Bad : n <= m
    BY <1>1, LeastNat
  <1>3. n \in Nat /\ n \in 0 .. Len(list) /\ ~ \E f : FloorsUpTo(f, list, n)
    BY <1>2 DEF Bad
  <1>4. n # 0
    <2>1. FloorsUpTo([i \in 0 .. 0 |-> <<>>], list, 0)
      BY DEF FloorsUpTo
    <2> QED BY <2>1, <1>3
  <1>5. n - 1 \in 0 .. Len(list) /\ n - 1 \notin Bad
    BY <1>2, <1>3, <1>4
  <1>6. PICK f : FloorsUpTo(f, list, n - 1)
    BY <1>5 DEF Bad
  <1> DEFINE last == AddFloor(f[n - 1], list[n])
             g == [i \in 0 .. n |-> IF i < n THEN f[i] ELSE last]
  <1>7. ASSUME NEW i \in 0 .. n
        PROVE  g[i] = IF i = 0 THEN <<>> ELSE AddFloor(g[i - 1], list[i])
    <2>1. CASE i = 0
      <3>1. 0 \in 0 .. n - 1
        BY <1>3, <1>4
      <3>2. f[0] = <<>>
        BY <1>6, <3>1 DEF FloorsUpTo
      <3> QED BY <2>1, <3>2, <1>3, <1>4
    <2>2. CASE i # 0 /\ i < n
      <3>1. i - 1 \in 0 .. n /\ i - 1 < n /\ i \in 0 .. n - 1
        BY <2>2, <1>3
      <3>2. g[i] = f[i] /\ g[i - 1] = f[i - 1]
        BY <2>2, <3>1
      <3>3. f[i] = AddFloor(f[i - 1], list[i])
        BY <1>6, <2>2, <3>1 DEF FloorsUpTo
      <3> QED BY <2>2, <3>2, <3>3
    <2>3. CASE i = n
      <3>1. n - 1 \in 0 .. n /\ n - 1 < n
        BY <1>3, <1>4
      <3>2. g[n - 1] = f[n - 1] /\ g[n] = last
        BY <3>1, <1>3
      <3> QED BY <2>3, <3>2, <1>4
    <2> QED BY <2>1, <2>2, <2>3, <1>3
  <1>8. FloorsUpTo(g, list, n)
    BY <1>7 DEF FloorsUpTo
  <1> QED BY <1>8, <1>3

\* getFloors finds the floor of every classroom.
LEMMA FloorsFound ==
  ASSUME NEW list \in Seq(Salones)
  PROVE  \A s \in Range(list) : GetFloorNumber(s) \in Range(GetFloors(list))
  <1> DEFINE F == {GetFloorNumber(s) : s \in Salones}
  <1>1. Len(list) \in Nat /\ DOMAIN list = 1 .. Len(list)
        /\ \A i \in DOMAIN list : GetFloorNumber(list[i]) \in F
    OBVIOUS
  <1> DEFINE f == CHOOSE f : FloorsUpTo(f, list, Len(list))
  <1>2. FloorsUpTo(f, list, Len(list))
    BY <1>1, FloorsDefined
  <1>3. GetFloors(list) = f[Len(list)]
    BY DEF GetFloors, FloorsUpTo, AddFloor
  <1> HIDE DEF f, F
  <1> DEFINE Good(n) ==
               /\ f[n] \in Seq(F)
               /\ \A i \in 1 .. n : GetFloorNumber(list[i]) \in Range(f[n])
             Bad == {n \in 0 .. Len(list) : ~Good(n)}
  <1>4. Bad = {}
    <2> SUFFICES ASSUME Bad # {} PROVE FALSE
      OBVIOUS
    <2>1. Bad \subseteq Nat
      BY <1>1
    <2> HIDE DEF Bad
    <2>2. PICK n \in Bad : \A m \in Bad : n <= m
      BY <2>1, LeastNat
    <2>3. n \in 0 .. Len(list) /\ ~Good(n)
      BY <2>2 DEF Bad
    <2>4. n # 0
      <3>1. f[0] = <<>>
        BY <1>1, <1>2 DEF FloorsUpTo
      <3>2. Good(0)
        BY <3>1
      <3> QED BY <3>2, <2>3
    <2>5. n - 1 \in 0 .. Len(list) /\ n \in DOMAIN list /\ n \in Nat
      BY <2>3, <2>4, <1>1
    <2>6. Good(n - 1)
      BY <2>2, <2>5, <1>1 DEF Bad
    <2> DEFINE u == f[n - 1]  x == GetFloorNumber(list[n])
    <2>7. f[n] = IF x \in Range(u) THEN u ELSE Append(u, x)
      BY <1>2, <2>3, <2>4 DEF FloorsUpTo, AddFloor
    <2>8. x \in F /\ u \in Seq(F)
      BY <1>1, <2>5, <2>6
    <2>9. \A i \in 1 .. n - 1 : GetFloorNumber(list[i]) \in Range(u)
      BY <2>6
    <2>10. \A i \in 1 .. n : i \in 1 .. n - 1 \/ i = n
      BY <2>5
    <2> HIDE DEF u
    <2>11. CASE x \in Range(u)
      <3>1. \A i \in 1 .. n : GetFloorNumber(list[i]) \in Range(f[n])
        BY <2>7, <2>9, <2>10, <2>11
      <3> QED BY <2>3, <2>7, <2>8, <2>11, <3>1
    <2>12. CASE x \notin Range(u)
      <3> HIDE DEF x
      <3>1. f[n] = Append(u, x)
        BY <2>7, <2>12
      <3>2. /\ f[n] \in Seq(F) /\ DOMAIN u = 1 .. Len(u) /\ Len(u) \in Nat
            /\ DOMAIN f[n] = 1 .. Len(u) + 1 /\ f[n][Len(u) + 1] = x
            /\ \A k \in 1 .. Len(u) : f[n][k] = u[k]
        BY <2>8, <3>1, AppendProperties, LenProperties
      <3>3. Range(u) \subseteq Range(f[n]) /\ x \in Range(f[n])
        <4>1. \A k \in DOMAIN u : k \in DOMAIN f[n] /\ f[n][k] = u[k]
          BY <3>2
        <4>2. Len(u) + 1 \in DOMAIN f[n]
          BY <3>2
        <4> QED BY <3>2, <4>1, <4>2 DEF Range
      <3>4. \A i \in 1 .. n : GetFloorNumber(list[i]) \in Range(f[n])
        BY <2>9, <2>10, <3>3 DEF x
      <3> QED BY <2>3, <3>2, <3>4
    <2> QED BY <2>11, <2>12
  <1>5. Good(Len(list))
    <2>1. Len(list) \in 0 .. Len(list)
      BY <1>1
    <2> QED BY <1>4, <2>1
  <1>6. \A s \in Range(list) : \E i \in 1 .. Len(list) : s = list[i]
    BY <1>1 DEF Range
  <1> QED BY <1>3, <1>5, <1>6

\* Of no classroom nothing is left.
LEMMA FilteredNothing ==
  ASSUME NEW S
  PROVE  Filtered(<<>>, S) = <<>>
  <1> DEFINE Solves(f) == f = [i \in 0 .. Len(<<>>) |->
               IF i = 0 THEN <<>>
               ELSE IF <<>>[i] \in S THEN Append(f[i - 1], <<>>[i]) ELSE f[i - 1]]
  <1>1. Len(<<>>) = 0
    OBVIOUS
  <1>2. Solves([i \in 0 .. 0 |-> <<>>])
    BY <1>1
  <1>3. Solves(CHOOSE f : Solves(f))
    BY <1>2
  <1>4. (CHOOSE f : Solves(f))[0] = <<>>
    BY <1>1, <1>3
  <1> QED BY <1>1, <1>4 DEF Filtered

\* Inductive strengthening of TableTruthful: what is kept for the floor is the
\* chosen floor of the last answer, also while a search hides it.
TableInv ==
  /\ salones \in Seq(Salones)
  /\ alive => /\ rows = Listed
              /\ salonests = OnFloor(salones, selectedFloor)
              /\ \A s \in Range(salones) : GetFloorNumber(s) \in Range(pisos)

\* The initial states satisfy it.
LEMMA TableInit == Init => TableInv
  <1> SUFFICES ASSUME Init PROVE TableInv
    OBVIOUS
  <1>1. salones = <<>> /\ salonests = <<>> /\ rows = <<>> /\ searchActive = FALSE
    BY DEF Init
  <1>2. OnFloor(<<>>, selectedFloor) = <<>>
    BY FilteredNothing DEF OnFloor
  <1>3. Range(<<>>) = {}
    BY DEF Range
  <1> QED BY <1>1, <1>2, <1>3 DEF TableInv, Listed

\* Answers, floors and texts, in whatever order, keep it.
LEMMA TableStep == TableInv /\ [Next]_vars => TableInv'
  <1> SUFFICES ASSUME TableInv, [Next]_vars PROVE TableInv'
    OBVIOUS
  <1> USE DEF TableInv, Listed
  <1>1. ASSUME NEW n, NEW list \in Collections, ClassroomsCome(n, list)
        PROVE  TableInv'
    <2>1. CASE list = <<>>
      BY <1>1, <2>1 DEF ClassroomsCome
    <2>2. CASE list # <<>>
      <3>1. /\ salones' = list /\ salonests' = OnFloor(list, selectedFloor)
            /\ rows' = IF searchActive THEN filteredSalones ELSE salonests'
            /\ pisos' = GetFloors(list) /\ UNCHANGED <<selectedFloor, searchActive, filteredSalones>>
        BY <1>1, <2>2 DEF ClassroomsCome, FilterClassrooms
      <3>2. list \in Seq(Salones)
        BY CollectionsAssumption
      <3>3. \A s \in Range(list) : GetFloorNumber(s) \in Range(GetFloors(list))
        BY <3>2, FloorsFound
      <3> QED BY <3>1, <3>2, <3>3
    <2> QED BY <2>1, <2>2
  <1>2. ASSUME NEW n, ClassroomsFail(n)
        PROVE  TableInv'
    BY <1>2 DEF ClassroomsFail
  <1>3. ASSUME NEW text, UpdateSearchResults(text)
        PROVE  TableInv'
    BY <1>3 DEF UpdateSearchResults
  <1>4. ASSUME NEW i, SelectFloor(i)
        PROVE  TableInv'
    BY <1>4 DEF SelectFloor, FilterClassrooms, OnSearch
  <1>5. CASE UNCHANGED <<salones, salonests, pisos, selectedFloor, searchActive, filteredSalones, rows>>
             /\ (alive' => alive)
    BY <1>5
  <1>6. CASE Reappear
    BY <1>5, <1>6 DEF Reappear
  <1>7. ASSUME NEW i, NEW salon, SelectRow(i, salon)
        PROVE  TableInv'
    BY <1>5, <1>7 DEF SelectRow, search
  <1>8. ASSUME NEW i, SelectImage(i) \/ SelectDocument(i)
        PROVE  TableInv'
    BY <1>5, <1>8 DEF SelectImage, SelectDocument, StartDownload, search
  <1>9. ASSUME NEW d, \/ FileMoves(d) \/ FileMoveFails(d) \/ DownloadCompletes(d) \/ DownloadFails(d)
                      \/ PanoramaCompletes(d) \/ PanoramaFails(d)
        PROVE  TableInv'
    BY <1>5, <1>9 DEF FileMoves, FileMoveFails, DownloadCompletes, DownloadFails,
                      PanoramaCompletes, PanoramaFails, search
  <1>10. CASE PreviewItem \/ ClosePresented \/ UNCHANGED vars
    BY <1>5, <1>10 DEF PreviewItem, ClosePresented, vars, search
  <1> QED BY <1>1, <1>2, <1>3, <1>4, <1>6, <1>7, <1>8, <1>9, <1>10 DEF Next, Answers

\* Whatever of the floor, the text and the answers of getClassroomData changed
\* last, the table of SchoolSearchViewController has drawn what a tap opens, and
\* every classroom can be reached by a floor on the screen.
THEOREM TableAlwaysTruthful == Spec => []TableTruthful
  <1>1. TableInv => TableTruthful
    BY DEF TableInv, TableTruthful, Listed
  <1> QED BY <1>1, TableInit, TableStep, PTL DEF Spec
=============================================================================
