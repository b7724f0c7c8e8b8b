---------------------------- MODULE ExhibitsProofs ----------------------------
(***************************************************************************)
(* Proofs about Exhibits, for any number of images, looks, rows of the     *)
(* blocklist, administrators, galleries and requests of their owner.       *)
(***************************************************************************)
EXTENDS Exhibits, TLAPS

Image == [st : {"none", "live", "deleted", "gone"} \cup Scanning,
          status : {"ok", "review", "quarantined", "approved"},
          phash : BOOLEAN, due : BOOLEAN]
Desk == [pc : {"idle", "allow", "flag", "hash", "add", "reject"},
         image : Images \cup {None}, hash : {"none", "known", "voided"}]
Gallery == [row : {"none", "live", "deleted"}, items : SUBSET Images,
            asked : SUBSET Images, loose : BOOLEAN]
Writer == [pc : {"idle", "fill", "items", "edit"}, gallery : Galleries \cup {None},
           list : SUBSET Images, todo : SUBSET Images]

BlockTypes ==
  /\ block \in [Rows -> Looks \cup {None}] /\ standing \subseteq Looks
  /\ image \in [Images -> Image] /\ admin \in [Admins -> Desk]
GalleryTypes == gallery \in [Galleries -> Gallery] /\ writer \in [Writers -> Writer]

\* What an answered request has put on the list has a row; and so has what is about
\* to be answered, whose image is one that was read.
ListInv ==
  /\ standing \subseteq Listed
  /\ \A a \in Admins :
       /\ ~AtDesk(a, "idle") => admin[a].image \in Images
       /\ AtDesk(a, "reject") /\ admin[a].hash = "known" => LookOf[admin[a].image] \in Listed

\* A look that has stood on the list all through a scan will be found by it, and was.
DueInv ==
  \A x \in Images :
    /\ image[x].st = "list" /\ image[x].due => image[x].phash /\ LookOf[x] \in standing
    /\ image[x].st \in {"store", "live"} /\ image[x].due => image[x].status # "ok"

\* The image has been stored at some time.
Stored(x) == image[x].st \in {"live", "deleted", "gone"}
StoredInv ==
  /\ \A g \in Galleries : \A x \in gallery[g].items : There(x)
  /\ \A g \in Galleries : \A x \in gallery[g].asked : Stored(x)
  /\ \A w \in Writers : \A x \in writer[w].list : Stored(x)

\* Whoever is at work has a gallery; one at most creates it.
WriterInv ==
  /\ \A w \in Writers : ~AtWork(w, "idle") =>
       writer[w].gallery \in Galleries /\ gallery[writer[w].gallery].row # "none"
  /\ \A w \in Writers : AtWork(w, "items") => writer[w].todo \subseteq writer[w].list
  /\ \A w, v \in Writers : \A g \in Galleries : w \in Filling(g) /\ v \in Filling(g) => v = w
  /\ \A g \in Galleries : gallery[g].row = "none" => gallery[g] = NoGallery

\* What a gallery has that is not loose: what was asked for, as far as it is still
\* there, or what has been added of it up to now.
Shows(g) ==
  /\ Filling(g) = {} => gallery[g].items = {x \in gallery[g].asked : There(x)}
  /\ \A w \in Filling(g) :
       /\ AtWork(w, "fill") => gallery[g].items = {} /\ gallery[g].asked = {}
       /\ AtWork(w, "items") =>
            gallery[g].items = {x \in writer[w].list \ writer[w].todo : There(x)}
ShownInv == \A g \in Galleries : gallery[g].row = "live" /\ ~gallery[g].loose => Shows(g)

BlockInv == BlockTypes /\ ListInv /\ DueInv
GalleryInv == GalleryTypes /\ StoredInv /\ WriterInv /\ ShownInv
Inv == BlockInv /\ GalleryInv

\* What the invariant is for.
LEMMA InvShows == Inv => BlockedLookRefused /\ GalleryAsAsked
<1> SUFFICES ASSUME Inv PROVE BlockedLookRefused /\ GalleryAsAsked
  OBVIOUS
<1>1. TypeOK
  BY DEF Inv, BlockInv, GalleryInv, BlockTypes, GalleryTypes, StoredInv, TypeOK, There,
     Image, Desk, Gallery, Writer
<1>2. ASSUME NEW x \in Images, Viewable(x), image[x].due
      PROVE  image[x].status \in {"approved", "review"}
  BY <1>2 DEF Inv, BlockInv, DueInv, BlockTypes, Image, Viewable, Live
<1>3. ASSUME NEW g \in Galleries, gallery[g].row = "live", ~gallery[g].loose, Filling(g) = {}
      PROVE  Page(g) = {x \in gallery[g].asked : Viewable(x)}
  <2>1. gallery[g].items = {x \in gallery[g].asked : There(x)}
    BY <1>3 DEF Inv, GalleryInv, ShownInv, Shows
  <2>2. \A x \in gallery[g].asked : Viewable(x) => There(x)
    BY DEF Viewable, Live, There
  <2>3. Page(g) = {x \in gallery[g].items : Viewable(x)}
    BY <1>3 DEF Page
  <2>4. QED
    BY <2>1, <2>2, <2>3
<1>4. QED
  BY <1>1, <1>2, <1>3 DEF BlockedLookRefused, GalleryAsAsked

\* The constants.
LEMMA Constants ==
  /\ NoImage \in Image /\ Deleted \in Image /\ Free \in Desk
  /\ NoGallery \in Gallery /\ Rest \in Writer
  /\ NoImage.st = "none" /\ Deleted.st = "deleted" /\ ~NoImage.due
  /\ Free.pc = "idle" /\ Rest.pc = "idle" /\ Rest.list = {}
  /\ NoGallery.row = "none" /\ NoGallery.items = {} /\ NoGallery.asked = {} /\ ~NoGallery.loose
BY DEF NoImage, Image, Deleted, Free, Desk, NoGallery, Gallery, Rest, Writer, Scanning

LEMMA InitInv == Init => Inv
<1> SUFFICES ASSUME Init PROVE Inv
  OBVIOUS
<1>1. BlockTypes /\ GalleryTypes
  BY Constants DEF Init, BlockTypes, GalleryTypes
<1>2. /\ \A x \in Images : image[x].st = "none"
      /\ \A a \in Admins : admin[a].pc = "idle"
      /\ \A g \in Galleries : gallery[g] = NoGallery
      /\ \A w \in Writers : writer[w].pc = "idle" /\ writer[w].list = {}
      /\ standing = {}
  BY Constants DEF Init
<1>3. \A g \in Galleries : Filling(g) = {}
  BY <1>2 DEF Filling
<1>4. ListInv /\ DueInv
  BY <1>2 DEF ListInv, DueInv, AtDesk
<1>5. StoredInv /\ WriterInv /\ ShownInv
  BY <1>2, <1>3, Constants DEF StoredInv, WriterInv, ShownInv, AtWork
<1>6. QED
  BY <1>1, <1>4, <1>5 DEF Inv, BlockInv, GalleryInv
-------------------------------------------------------------------------------
(***************************************************************************)
(* What each kind of step changes.                                         *)
(***************************************************************************)
\* One image becomes m.
LEMMA ImageChanges ==
  ASSUME BlockTypes, NEW x \in Images, NEW m \in Image, image' = [image EXCEPT ![x] = m]
  PROVE  /\ image' \in [Images -> Image]
         /\ image'[x] = m /\ \A y \in Images \ {x} : image'[y] = image[y]
BY DEF BlockTypes

\* One administrator goes on to d.
LEMMA DeskChanges ==
  ASSUME BlockTypes, NEW a \in Admins, NEW d \in Desk, admin' = [admin EXCEPT ![a] = d]
  PROVE  /\ admin' \in [Admins -> Desk]
         /\ admin'[a] = d /\ \A b \in Admins \ {a} : admin'[b] = admin[b]
BY DEF BlockTypes

\* A request of the administrator ends.
LEMMA DeskDone ==
  ASSUME BlockTypes, NEW a \in Admins, Done(a)
  PROVE  /\ admin' \in [Admins -> Desk]
         /\ admin'[a] = Free /\ \A b \in Admins \ {a} : admin'[b] = admin[b]
BY DeskChanges, Constants DEF Done

\* A Blocklist goes on, with the hash it has now.
LEMMA DeskProceeds ==
  ASSUME BlockTypes, NEW a \in Admins, NEW hash \in {"none", "known", "voided"},
         AtDesk(a, "hash") \/ AtDesk(a, "add") \/ AtDesk(a, "reject"), Proceeds(a, hash)
  PROVE  /\ admin' \in [Admins -> Desk] /\ \A b \in Admins \ {a} : admin'[b] = admin[b]
         /\ \/ AtDesk(a, "reject") /\ admin'[a] = Free
            \/ /\ ~AtDesk(a, "reject")
               /\ admin'[a].pc = NextStep(admin[a].pc) /\ admin'[a].hash = hash
               /\ admin'[a].image = admin[a].image
<1>1. \/ AtDesk(a, "hash") /\ NextStep(admin[a].pc) = "add"
      \/ AtDesk(a, "add") /\ NextStep(admin[a].pc) = "reject"
      \/ AtDesk(a, "reject") /\ NextStep(admin[a].pc) = "idle"
  BY DEF AtDesk, NextStep
<1> DEFINE next == NextStep(admin[a].pc)
           d == [pc |-> next, image |-> admin[a].image, hash |-> hash]
<1>2. admin' = [admin EXCEPT ![a] = IF next = "idle" THEN Free ELSE d]
  BY DEF Proceeds
<1> HIDE DEF next
<1>3. next \in {"add", "reject"} =>
        d \in Desk /\ d.pc = next /\ d.hash = hash /\ d.image = admin[a].image
  BY DEF BlockTypes, Desk
<1> HIDE DEF d
<1>4. QED
  BY <1>1, <1>2, <1>3, DeskChanges, Constants DEF next, AtDesk

\* A gallery is what it was, or becomes to.
LEMMA GalleryWritten ==
  ASSUME GalleryTypes, NEW g \in Galleries, NEW to \in Gallery, Write(g, to)
  PROVE  /\ gallery' \in [Galleries -> Gallery]
         /\ gallery'[g] = IF gallery[g].row = "live" THEN to ELSE gallery[g]
         /\ \A h \in Galleries \ {g} : gallery'[h] = gallery[h]
BY DEF GalleryTypes, Write

\* One request of the owner goes on to v.
LEMMA WriterChanges ==
  ASSUME GalleryTypes, NEW w \in Writers, NEW v \in Writer, writer' = [writer EXCEPT ![w] = v]
  PROVE  /\ writer' \in [Writers -> Writer]
         /\ writer'[w] = v /\ \A u \in Writers \ {w} : writer'[u] = writer[u]
BY DEF GalleryTypes
-------------------------------------------------------------------------------
(***************************************************************************)
(* The parts of the invariant that a step leaves alone.                    *)
(***************************************************************************)
\* What is stored stays as it is.
Keeps(x) == Stored(x) => Stored(x)' /\ (There(x)' <=> There(x))

LEMMA GalleryQuiet ==
  ASSUME GalleryInv, UNCHANGED <<gallery, writer>>, \A x \in Images : Keeps(x)
  PROVE  GalleryInv'
<1>1. GalleryTypes' /\ WriterInv'
  BY DEF GalleryInv, GalleryTypes, WriterInv, AtWork, Filling
<1>2. StoredInv'
  <2>1. ASSUME NEW g \in Galleries, NEW x \in gallery[g].items PROVE There(x)'
    BY DEF GalleryInv, GalleryTypes, Gallery, StoredInv, Keeps, Stored, There
  <2>2. ASSUME NEW g \in Galleries, NEW x \in gallery[g].asked PROVE Stored(x)'
    BY DEF GalleryInv, GalleryTypes, Gallery, StoredInv, Keeps
  <2>3. ASSUME NEW w \in Writers, NEW x \in writer[w].list PROVE Stored(x)'
    BY DEF GalleryInv, GalleryTypes, Writer, StoredInv, Keeps
  <2>4. QED
    BY <2>1, <2>2, <2>3 DEF StoredInv
<1>3. ASSUME NEW g \in Galleries, Shows(g) PROVE Shows(g)'
  <2>1. {x \in gallery[g].asked : There(x)} = {x \in gallery[g].asked : There(x)'}
    BY DEF GalleryInv, GalleryTypes, Gallery, StoredInv, Keeps
  <2>2. \A w \in Writers : {x \in writer[w].list \ writer[w].todo : There(x)}
                          = {x \in writer[w].list \ writer[w].todo : There(x)'}
    BY DEF GalleryInv, GalleryTypes, Writer, StoredInv, Keeps
  <2>3. QED
    BY <1>3, <2>1, <2>2 DEF Shows, Filling, AtWork
<1>4. QED
  BY <1>1, <1>2, <1>3 DEF GalleryInv, ShownInv

LEMMA BlockQuiet ==
  ASSUME BlockInv, UNCHANGED <<block, image, admin, standing>>
  PROVE  BlockInv'
BY DEF BlockInv, BlockTypes, ListInv, DueInv, AtDesk, Listed

\* What a look on the list means for an image with the data m.
DueOf(x, m) ==
  /\ m.st = "list" /\ m.due => m.phash /\ LookOf[x] \in standing
  /\ m.st \in {"store", "live"} /\ m.due => m.status # "ok"

LEMMA DueKept ==
  ASSUME DueInv, NEW x \in Images, \A y \in Images \ {x} : image'[y] = image[y],
         DueOf(x, image'[x]), standing \subseteq standing'
  PROVE  DueInv'
BY DEF DueInv, DueOf

\* Where an image may go from where it is.
GoesOf(x, m) ==
  Stored(x) => m.st = image[x].st \/ (There(x) /\ m.st \in {"live", "deleted"})

\* What a desk may hold.
ListOf(d) ==
  /\ d.pc # "idle" => d.image \in Images
  /\ d.pc = "reject" /\ d.hash = "known" => LookOf[d.image] \in Listed

LEMMA ListKept ==
  ASSUME ListInv, block' = block, standing' = standing, NEW a \in Admins,
         \A b \in Admins \ {a} : admin'[b] = admin[b], ListOf(admin'[a])
  PROVE  ListInv'
BY DEF ListInv, ListOf, Listed, AtDesk

\* One image changes, and no desk.
LEMMA OneImage ==
  ASSUME Inv, OnlyImage, NEW x \in Images, NEW m \in Image, image' = [image EXCEPT ![x] = m],
         DueOf(x, m), GoesOf(x, m)
  PROVE  Inv'
<1>1. /\ image' \in [Images -> Image]
      /\ image'[x] = m /\ \A y \in Images \ {x} : image'[y] = image[y]
  BY ImageChanges DEF Inv, BlockInv
<1>2. BlockTypes' /\ ListInv'
  BY <1>1 DEF Inv, BlockInv, BlockTypes, ListInv, Listed, AtDesk, OnlyImage
<1>3. DueInv'
  BY <1>1, DueKept DEF Inv, BlockInv, OnlyImage
<1>4. \A y \in Images : Keeps(y)
  BY <1>1 DEF Keeps, Stored, There, GoesOf
<1>5. QED
  BY <1>2, <1>3, <1>4, GalleryQuiet DEF Inv, BlockInv, OnlyImage
-------------------------------------------------------------------------------
(***************************************************************************)
(* The scans, and the end of an image.                                     *)
(***************************************************************************)
LEMMA ScanVerdicts ==
  ASSUME Inv, NEW x \in Images, image[x].st = "list", NEW status \in Verdicts(x)
  PROVE  /\ status \in {"ok", "review", "quarantined"}
         /\ image[x].due => status # "ok"
<1>1. image[x].due => Matches(x)
  BY DEF Inv, BlockInv, DueInv, ListInv, Matches
<1>2. CASE Matches(x)
  BY <1>2 DEF Verdicts
<1>3. CASE ~Matches(x)
  BY <1>1, <1>3 DEF Verdicts, Judged
<1>4. QED
  BY <1>2, <1>3

LEMMA ScansInv ==
  ASSUME Inv, NEW x \in Images, Scans(x) \/ Delete(x)
  PROVE  Inv'
<1>0. BlockTypes /\ image[x] \in Image
  BY DEF Inv, BlockInv, BlockTypes
<1>1. CASE Hash(x)
  <2>1. PICK hashed \in BOOLEAN :
          image' = [image EXCEPT ![x] = [st |-> "list", status |-> "ok", phash |-> hashed,
                                         due |-> hashed /\ LookOf[x] \in standing]]
    BY <1>1 DEF Hash
  <2> DEFINE due == hashed /\ LookOf[x] \in standing
             m == [st |-> "list", status |-> "ok", phash |-> hashed, due |-> due]
  <2>2. due \in BOOLEAN
    OBVIOUS
  <2>3. due => hashed /\ LookOf[x] \in standing
    OBVIOUS
  <2>4. image' = [image EXCEPT ![x] = m]
    BY <2>1
  <2> HIDE DEF due
  <2>5. m \in Image /\ m.st = "list" /\ m.phash = hashed /\ m.due = due
    BY <2>2 DEF Image, Scanning
  <2> HIDE DEF m
  <2>6. DueOf(x, m)
    BY <2>3, <2>5 DEF DueOf
  <2>7. ~Stored(x) /\ OnlyImage
    BY <1>1 DEF Hash, AtScan, Stored
  <2>8. QED
    BY <2>4, <2>5, <2>6, <2>7, OneImage DEF GoesOf
<1>2. CASE Scan(x)
  <2>1. image[x].st = "list" /\ ~Stored(x) /\ OnlyImage
    BY <1>2 DEF Scan, AtScan, Stored
  <2>2. PICK status \in Verdicts(x) :
          image' = [image EXCEPT ![x].st = "store", ![x].status = status]
    BY <1>2 DEF Scan
  <2> DEFINE m == [image[x] EXCEPT !.st = "store", !.status = status]
  <2>3. status \in {"ok", "review", "quarantined"} /\ (image[x].due => status # "ok")
    BY <2>1, ScanVerdicts
  <2>4. m \in Image /\ m.st = "store" /\ m.status = status /\ m.due = image[x].due
    BY <1>0, <2>3 DEF Image, Scanning
  <2>5. image' = [image EXCEPT ![x] = m]
    BY <1>0, <2>2 DEF BlockTypes
  <2> HIDE DEF m
  <2>6. DueOf(x, m)
    BY <2>3, <2>4 DEF DueOf
  <2>7. QED
    BY <2>1, <2>4, <2>5, <2>6, OneImage DEF GoesOf
<1>3. CASE ScanFails(x)
  <2> DEFINE status == IF Nsfw /\ FailClosed THEN "review" ELSE "ok"
             m == [st |-> "store", phash |-> FALSE, due |-> FALSE, status |-> status]
  <2>1. m \in Image /\ m.st = "store" /\ ~m.due
    BY DEF Image, Scanning
  <2>2. image' = [image EXCEPT ![x] = m] /\ OnlyImage /\ ~Stored(x)
    BY <1>3 DEF ScanFails, AtScan, Stored
  <2> HIDE DEF m
  <2>3. QED
    BY <2>1, <2>2, OneImage DEF DueOf, GoesOf
<1>4. CASE Store(x)
  <2> DEFINE m == [image[x] EXCEPT !.st = "live"]
  <2>1. image[x].st = "store" /\ ~Stored(x) /\ OnlyImage
    BY <1>4 DEF Store, AtScan, Stored
  <2>2. /\ m \in Image /\ m.st = "live" /\ m.due = image[x].due /\ m.status = image[x].status
    BY <1>0 DEF Image
  <2>3. image' = [image EXCEPT ![x] = m]
    BY <1>0, <1>4 DEF BlockTypes, Store, Goes
  <2> HIDE DEF m
  <2>4. DueOf(x, m)
    BY <2>1, <2>2 DEF DueOf, Inv, BlockInv, DueInv
  <2>5. QED
    BY <2>1, <2>2, <2>3, <2>4, OneImage DEF GoesOf
<1>5. CASE StoreFails(x)
  <2>1. image' = [image EXCEPT ![x] = NoImage] /\ OnlyImage /\ ~Stored(x)
    BY <1>5 DEF StoreFails, AtScan, Stored
  <2>2. DueOf(x, NoImage)
    BY Constants DEF DueOf
  <2>3. QED
    BY <2>1, <2>2, Constants, OneImage DEF GoesOf
<1>6. CASE Delete(x)
  <2>1. image' = [image EXCEPT ![x] = Deleted] /\ OnlyImage /\ There(x)
    BY <1>6 DEF Delete, Live, There
  <2>2. DueOf(x, Deleted)
    BY Constants DEF DueOf
  <2>3. QED
    BY <2>1, <2>2, Constants, OneImage DEF GoesOf
<1>7. CASE Unscanned(x)
  <2> DEFINE m == [st |-> "store", status |-> "ok", phash |-> FALSE, due |-> FALSE]
  <2>1. m \in Image /\ m.st = "store" /\ ~m.due
    BY DEF Image, Scanning
  <2>2. image' = [image EXCEPT ![x] = m] /\ OnlyImage /\ ~Stored(x)
    BY <1>7 DEF Unscanned, AtScan, Stored
  <2> HIDE DEF m
  <2>3. QED
    BY <2>1, <2>2, OneImage DEF DueOf, GoesOf
<1>8. QED
  BY <1>1, <1>2, <1>3, <1>4, <1>5, <1>6, <1>7 DEF Scans
-------------------------------------------------------------------------------
(***************************************************************************)
(* The administrators.                                                     *)
(***************************************************************************)
\* A desk changes, and the data of one image, which stays where it is; the list and
\* what stands on it do not.
LEMMA DeskInv ==
  ASSUME Inv, UNCHANGED <<block, gallery, writer, standing>>, NEW a \in Admins,
         admin' \in [Admins -> Desk], \A b \in Admins \ {a} : admin'[b] = admin[b],
         ListOf(admin'[a]),
         \/ UNCHANGED image
         \/ \E x \in Images, m \in Image :
              /\ image' = [image EXCEPT ![x] = m] /\ DueOf(x, m) /\ GoesOf(x, m)
  PROVE  Inv'
<1>1. ListInv'
  BY ListKept DEF Inv, BlockInv
<1>2. CASE UNCHANGED image
  <2>1. BlockInv'
    BY <1>1, <1>2 DEF Inv, BlockInv, BlockTypes, DueInv
  <2>2. \A y \in Images : Keeps(y)
    BY <1>2 DEF Keeps, Stored, There
  <2>3. QED
    BY <2>1, <2>2, GalleryQuiet DEF Inv
<1>3. ASSUME NEW x \in Images, NEW m \in Image, image' = [image EXCEPT ![x] = m], DueOf(x, m),
             GoesOf(x, m)
      PROVE  Inv'
  <2>1. /\ image' \in [Images -> Image]
        /\ image'[x] = m /\ \A y \in Images \ {x} : image'[y] = image[y]
    BY <1>3, ImageChanges DEF Inv, BlockInv
  <2>2. BlockTypes' /\ DueInv'
    BY <1>3, <2>1, DueKept DEF Inv, BlockInv, BlockTypes
  <2>3. \A y \in Images : Keeps(y)
    BY <1>3, <2>1 DEF Keeps, Stored, There, GoesOf
  <2>4. QED
    BY <1>1, <2>2, <2>3, GalleryQuiet DEF Inv, BlockInv
<1>4. QED
  BY <1>2, <1>3

LEMMA ReviewInv ==
  ASSUME Inv, NEW a \in Admins, NEW x \in Images, Review(a, x)
  PROVE  Inv'
<1>1. PICK pc \in {"allow", "flag", "hash"} :
        admin' = [admin EXCEPT ![a] = [pc |-> pc, image |-> x,
          hash |-> IF pc = "hash" /\ image[x].phash THEN "known" ELSE "none"]]
  BY DEF Review
<1> DEFINE hash == IF pc = "hash" /\ image[x].phash THEN "known" ELSE "none"
           d == [pc |-> pc, image |-> x, hash |-> hash]
<1>2. d \in Desk /\ d.pc \in {"allow", "flag", "hash"} /\ d.image = x
  BY DEF Desk
<1>3. admin' = [admin EXCEPT ![a] = d]
  BY <1>1
<1> HIDE DEF d
<1>4. admin' \in [Admins -> Desk] /\ admin'[a] = d /\ \A b \in Admins \ {a} : admin'[b] = admin[b]
  BY <1>2, <1>3, DeskChanges DEF Inv, BlockInv
<1>5. ListOf(admin'[a])
  BY <1>2, <1>4 DEF ListOf
<1>6. QED
  BY <1>4, <1>5, DeskInv DEF Review

LEMMA MarkInv ==
  ASSUME Inv, NEW a \in Admins, Allow(a) \/ Flag(a)
  PROVE  Inv'
<1> DEFINE x == admin[a].image
<1>1. PICK status \in {"approved", "review"} :
        /\ image' = [image EXCEPT ![x].status = IF Live(x) THEN status ELSE @]
        /\ Done(a) /\ ~AtDesk(a, "idle") /\ UNCHANGED <<block, gallery, writer, standing>>
  BY DEF Allow, Flag, Mark, AtDesk
<1>2. x \in Images /\ image[x] \in Image
  BY <1>1 DEF Inv, BlockInv, ListInv, BlockTypes
<1> HIDE DEF x
<1>3. /\ admin' \in [Admins -> Desk] /\ admin'[a] = Free
      /\ \A b \in Admins \ {a} : admin'[b] = admin[b]
  BY <1>1, DeskDone DEF Inv, BlockInv
<1>4. ListOf(admin'[a])
  BY <1>3, Constants DEF ListOf
<1> DEFINE now == IF Live(x) THEN status ELSE image[x].status
           m == [image[x] EXCEPT !.status = now]
<1>5. image' = [image EXCEPT ![x] = m]
  BY <1>1, <1>2 DEF Inv, BlockInv, BlockTypes
<1>6. now \in {"ok", "review", "quarantined", "approved"}
  BY <1>2 DEF Image
<1>7. Live(x) => now # "ok"
  BY <1>1
<1>8. ~Live(x) => now = image[x].status
  OBVIOUS
<1> HIDE DEF now
<1>9. /\ m \in Image /\ m.st = image[x].st /\ m.due = image[x].due /\ m.status = now
      /\ m.phash = image[x].phash
  BY <1>2, <1>6 DEF Image
<1> HIDE DEF m
<1>10. DueOf(x, m)
  BY <1>2, <1>7, <1>8, <1>9 DEF DueOf, Live, Inv, BlockInv, DueInv
<1>11. GoesOf(x, m)
  BY <1>9 DEF GoesOf
<1>12. QED
  BY <1>1, <1>2, <1>3, <1>4, <1>5, <1>9, <1>10, <1>11, DeskInv

LEMMA EnsureInv ==
  ASSUME Inv, NEW a \in Admins, EnsurePhash(a)
  PROVE  Inv'
<1> DEFINE x == admin[a].image
<1>1. AtDesk(a, "hash") /\ UNCHANGED <<block, gallery, writer, standing>>
  BY DEF EnsurePhash
<1>2. x \in Images /\ image[x] \in Image
  BY <1>1 DEF Inv, BlockInv, ListInv, BlockTypes, AtDesk
<1>3. PICK hash \in {"none", "known", "voided"} : Proceeds(a, hash)
  BY DEF EnsurePhash
<1>4. /\ admin' \in [Admins -> Desk] /\ \A b \in Admins \ {a} : admin'[b] = admin[b]
      /\ admin'[a].pc = NextStep(admin[a].pc) /\ admin'[a].image = x
  BY <1>1, <1>3, DeskProceeds DEF Inv, BlockInv, AtDesk
<1>5. admin'[a].pc = "add"
  BY <1>1, <1>4 DEF AtDesk, NextStep
<1>6. UNCHANGED image \/ image' = [image EXCEPT ![x].phash = @ \/ Live(x)]
  BY DEF EnsurePhash
<1> HIDE DEF x
<1>7. ListOf(admin'[a])
  BY <1>2, <1>4, <1>5 DEF ListOf
<1>8. CASE image' = [image EXCEPT ![x].phash = @ \/ Live(x)]
  <2> DEFINE phash == image[x].phash \/ Live(x)
             m == [image[x] EXCEPT !.phash = phash]
  <2>1. image' = [image EXCEPT ![x] = m]
    BY <1>2, <1>8 DEF Inv, BlockInv, BlockTypes
  <2>2. phash \in BOOLEAN
    OBVIOUS
  <2>3. image[x].phash => phash
    OBVIOUS
  <2> HIDE DEF phash
  <2>4. /\ m \in Image /\ m.st = image[x].st /\ m.due = image[x].due
        /\ m.status = image[x].status /\ m.phash = phash
    BY <1>2, <2>2 DEF Image
  <2> HIDE DEF m
  <2>5. DueOf(x, m) /\ GoesOf(x, m)
    BY <1>2, <2>3, <2>4 DEF DueOf, GoesOf, Inv, BlockInv, DueInv
  <2>6. QED
    BY <1>1, <1>2, <1>4, <1>7, <2>1, <2>4, <2>5, DeskInv
<1>9. QED
  BY <1>1, <1>4, <1>6, <1>7, <1>8, DeskInv

LEMMA AdminFailsInv ==
  ASSUME Inv, NEW a \in Admins, AdminFails(a)
  PROVE  Inv'
<1>1. /\ admin' \in [Admins -> Desk] /\ admin'[a] = Free
      /\ \A b \in Admins \ {a} : admin'[b] = admin[b]
  BY DeskDone DEF Inv, BlockInv, AdminFails
<1>2. ListOf(admin'[a])
  BY <1>1, Constants DEF ListOf
<1>3. QED
  BY <1>1, <1>2, DeskInv DEF AdminFails

\* A row is added: what was listed stays listed.
LEMMA RowAdded ==
  ASSUME BlockTypes, NEW b \in Rows, block[b] = None, NEW look \in Looks,
         block' = [block EXCEPT ![b] = look]
  PROVE  block' \in [Rows -> Looks \cup {None}] /\ Listed' = Listed \cup {look}
<1>1. block' \in [Rows -> Looks \cup {None}] /\ None # look
  BY ExhibitsAssumption DEF BlockTypes
<1>2. /\ block'[b] = look /\ \A c \in Rows \ {b} : block'[c] = block[c]
  BY DEF BlockTypes
<1>3. ASSUME NEW l PROVE l \in Listed' <=> l \in Listed \cup {look}
  BY <1>1, <1>2 DEF Listed
<1>4. QED
  BY <1>1, <1>3

LEMMA AddBlockInv ==
  ASSUME Inv, NEW a \in Admins, AddBlock(a)
  PROVE  Inv'
<1>1. AtDesk(a, "add") /\ UNCHANGED <<image, gallery, writer, standing>> /\ BlockTypes
  BY DEF AddBlock, Inv, BlockInv
<1>2. admin[a].image \in Images /\ admin[a].hash \in {"none", "known", "voided"}
  BY <1>1 DEF Inv, BlockInv, ListInv, BlockTypes, AtDesk, Desk
<1>3. LookOf[admin[a].image] \in Looks
  BY <1>2, ExhibitsAssumption
<1>4. /\ admin' \in [Admins -> Desk] /\ \A b \in Admins \ {a} : admin'[b] = admin[b]
      /\ admin'[a].hash = admin[a].hash /\ admin'[a].image = admin[a].image
  BY <1>1, <1>2, DeskProceeds DEF AddBlock, AtDesk
<1>5. /\ block' \in [Rows -> Looks \cup {None}] /\ Listed \subseteq Listed'
      /\ admin[a].hash = "known" => LookOf[admin[a].image] \in Listed'
  <2>1. CASE admin[a].hash = "known"
    BY <1>1, <1>3, <2>1, RowAdded DEF AddBlock
  <2>2. CASE admin[a].hash # "known"
    BY <1>1, <2>2 DEF AddBlock, BlockTypes, Listed
  <2>3. QED
    BY <2>1, <2>2
<1>6. BlockTypes' /\ DueInv' /\ ListInv'
  <2>1. BlockTypes' /\ DueInv'
    BY <1>1, <1>4, <1>5 DEF BlockTypes, DueInv, Inv, BlockInv
  <2>2. ListInv'
    BY <1>1, <1>2, <1>4, <1>5 DEF ListInv, Inv, BlockInv, AtDesk
  <2>3. QED
    BY <2>1, <2>2
<1>7. \A y \in Images : Keeps(y)
  BY <1>1 DEF Keeps, Stored, There
<1>8. QED
  BY <1>1, <1>6, <1>7, GalleryQuiet DEF Inv, BlockInv

LEMMA AddLookInv ==
  ASSUME Inv, NEW look \in Looks, AddLook(look)
  PROVE  Inv'
<1>1. UNCHANGED <<image, admin, gallery, writer>> /\ standing' = standing \cup {look}
  BY DEF AddLook
<1>2. block' \in [Rows -> Looks \cup {None}] /\ Listed' = Listed \cup {look}
  BY RowAdded DEF AddLook, Inv, BlockInv
<1>3. BlockTypes' /\ DueInv' /\ ListInv'
  BY <1>1, <1>2 DEF BlockTypes, DueInv, ListInv, Inv, BlockInv, AtDesk
<1>4. \A y \in Images : Keeps(y)
  BY <1>1 DEF Keeps, Stored, There
<1>5. QED
  BY <1>1, <1>3, <1>4, GalleryQuiet DEF Inv, BlockInv

LEMMA RejectInv ==
  ASSUME Inv, NEW a \in Admins, Reject(a)
  PROVE  Inv'
<1> DEFINE x == admin[a].image
<1>1. AtDesk(a, "reject") /\ UNCHANGED <<block, gallery, writer>> /\ BlockTypes
  BY DEF Reject, Inv, BlockInv
<1>2. /\ x \in Images /\ image[x] \in Image /\ admin[a].hash \in {"none", "known", "voided"}
      /\ admin[a].hash = "known" => LookOf[x] \in Listed
  BY <1>1 DEF Inv, BlockInv, ListInv, BlockTypes, AtDesk, Desk
<1>3. LookOf[x] \in Looks
  BY <1>2, ExhibitsAssumption
<1>4. /\ standing \subseteq standing' /\ standing' \subseteq Looks /\ standing' \subseteq Listed
  BY <1>1, <1>2, <1>3 DEF Reject, BlockTypes, Inv, BlockInv, ListInv
<1>5. /\ admin' \in [Admins -> Desk] /\ \A b \in Admins \ {a} : admin'[b] = admin[b]
      /\ admin'[a] = Free
  BY <1>1, <1>2, DeskProceeds DEF Reject
<1>6. ListInv'
  BY <1>1, <1>4, <1>5, Constants DEF ListInv, Inv, BlockInv, AtDesk, Listed
<1> DEFINE m == IF There(x) THEN Deleted ELSE image[x]
<1>7. image' = [image EXCEPT ![x] = m]
  BY <1>1 DEF Reject
<1>8. m \in Image /\ DueOf(x, m) /\ GoesOf(x, m)
  BY <1>2, Constants DEF DueOf, GoesOf, Inv, BlockInv, DueInv
<1> HIDE DEF m, x
<1>9. /\ image' \in [Images -> Image]
      /\ image'[x] = m /\ \A y \in Images \ {x} : image'[y] = image[y]
  BY <1>1, <1>2, <1>7, <1>8, ImageChanges
<1>10. BlockTypes' /\ DueInv'
  BY <1>1, <1>2, <1>4, <1>5, <1>8, <1>9, DueKept DEF BlockTypes, Inv, BlockInv
<1>11. \A y \in Images : Keeps(y)
  BY <1>8, <1>9 DEF Keeps, Stored, There, GoesOf
<1>12. QED
  BY <1>1, <1>6, <1>10, <1>11, GalleryQuiet DEF Inv, BlockInv

\* A row goes: another row may stand for the look, or nobody may count on it.
LEMMA RemoveRowInv ==
  ASSUME Inv, NEW b \in Rows, RemoveRow(b)
  PROVE  Inv'
<1> DEFINE look == block[b]
           last == \A c \in Rows \ {b} : block[c] # look
<1>1. /\ look # None /\ block' = [block EXCEPT ![b] = None] /\ BlockTypes
      /\ UNCHANGED <<gallery, writer>>
      /\ standing' = IF last THEN standing \ {look} ELSE standing
      /\ image' = [x \in Images |->
           IF last /\ LookOf[x] = look /\ image[x].st = "list"
           THEN [image[x] EXCEPT !.due = FALSE] ELSE image[x]]
      /\ admin' = [a \in Admins |->
           IF last /\ AtDesk(a, "reject") /\ LookOf[admin[a].image] = look /\ admin[a].hash = "known"
           THEN [admin[a] EXCEPT !.hash = "voided"] ELSE admin[a]]
  BY DEF RemoveRow, Inv, BlockInv
<1>2. /\ block' \in [Rows -> Looks \cup {None}] /\ block'[b] = None
      /\ \A c \in Rows \ {b} : block'[c] = block[c]
  BY <1>1 DEF BlockTypes
<1>3. Listed \ {look} \subseteq Listed' /\ (~last => look \in Listed')
  BY <1>1, <1>2 DEF Listed
<1> HIDE DEF last
<1>4. ASSUME NEW x \in Images
      PROVE  /\ image'[x] \in Image /\ image'[x].st = image[x].st
             /\ image'[x].status = image[x].status /\ image'[x].phash = image[x].phash
             /\ image'[x].due => image[x].due
             /\ last /\ LookOf[x] = look /\ image[x].st = "list" => ~image'[x].due
  <2> DEFINE m == [image[x] EXCEPT !.due = FALSE]
  <2>1. image[x] \in Image
    BY <1>1 DEF BlockTypes
  <2>2. /\ m \in Image /\ m.st = image[x].st /\ m.status = image[x].status
        /\ m.phash = image[x].phash /\ ~m.due
    BY <2>1 DEF Image
  <2>3. image'[x] = IF last /\ LookOf[x] = look /\ image[x].st = "list" THEN m ELSE image[x]
    BY <1>1
  <2> HIDE DEF m, look
  <2>4. QED
    BY <2>1, <2>2, <2>3
<1>5. ASSUME NEW a \in Admins
      PROVE  /\ admin'[a] \in Desk /\ admin'[a].pc = admin[a].pc
             /\ admin'[a].image = admin[a].image
             /\ admin'[a].hash = "known" =>
                  /\ admin[a].hash = "known"
                  /\ ~(last /\ AtDesk(a, "reject") /\ LookOf[admin[a].image] = look)
  <2> DEFINE d == [admin[a] EXCEPT !.hash = "voided"]
  <2>1. admin[a] \in Desk
    BY <1>1 DEF BlockTypes
  <2>2. d \in Desk /\ d.pc = admin[a].pc /\ d.image = admin[a].image /\ d.hash = "voided"
    BY <2>1 DEF Desk
  <2>3. admin'[a] = IF /\ last /\ AtDesk(a, "reject") /\ LookOf[admin[a].image] = look
                       /\ admin[a].hash = "known" THEN d ELSE admin[a]
    BY <1>1
  <2> HIDE DEF d, look
  <2>4. QED
    BY <2>1, <2>2, <2>3
<1>6. image' \in [Images -> Image] /\ admin' \in [Admins -> Desk]
  <2>1. image' = [x \in Images |-> image'[x]] /\ admin' = [a \in Admins |-> admin'[a]]
    BY <1>1
  <2>2. QED
    BY <1>4, <1>5, <2>1
<1> HIDE DEF look
<1>7. BlockTypes'
  BY <1>1, <1>2, <1>6 DEF BlockTypes
<1>8. ListInv'
  <2>1. standing' \subseteq Listed'
    BY <1>1, <1>3 DEF Inv, BlockInv, ListInv
  <2>2. ASSUME NEW a \in Admins, ~AtDesk(a, "idle")'
        PROVE  admin'[a].image \in Images
    BY <1>5, <2>2 DEF AtDesk, Inv, BlockInv, ListInv
  <2>3. ASSUME NEW a \in Admins, AtDesk(a, "reject")', admin'[a].hash = "known"
        PROVE  LookOf[admin[a].image] \in Listed' /\ admin'[a].image = admin[a].image
    BY <1>3, <1>5, <2>3 DEF AtDesk, Inv, BlockInv, ListInv
  <2>4. QED
    BY <2>1, <2>2, <2>3 DEF ListInv
<1>9. DueInv'
  BY <1>1, <1>4 DEF DueInv, Inv, BlockInv
<1>10. \A y \in Images : Keeps(y)
  BY <1>4 DEF Keeps, Stored, There
<1>11. QED
  BY <1>1, <1>7, <1>8, <1>9, <1>10, GalleryQuiet DEF Inv, BlockInv
-------------------------------------------------------------------------------
(***************************************************************************)
(* The galleries.                                                          *)
(***************************************************************************)
LEMMA PurgeInv ==
  ASSUME Inv, NEW x \in Images, Purge(x)
  PROVE  Inv'
<1>0. BlockTypes /\ GalleryTypes /\ UNCHANGED <<block, admin, writer, standing>>
  BY DEF Inv, BlockInv, GalleryInv, Purge
<1> DEFINE m == [image[x] EXCEPT !.st = "gone"]
<1>1. image[x] \in Image /\ image[x].st = "deleted"
  BY <1>0 DEF Purge, AtScan, BlockTypes
<1>2. m \in Image /\ m.st = "gone"
  BY <1>1 DEF Image
<1>3. image' = [image EXCEPT ![x] = m]
  BY <1>0 DEF Purge, Goes, BlockTypes
<1> HIDE DEF m
<1>4. /\ image' \in [Images -> Image]
      /\ image'[x] = m /\ \A y \in Images \ {x} : image'[y] = image[y]
  BY <1>0, <1>2, <1>3, ImageChanges
<1>5. BlockInv'
  <2>1. DueOf(x, m)
    BY <1>2 DEF DueOf
  <2>2. DueInv'
    BY <1>0, <1>4, <2>1, DueKept DEF Inv, BlockInv
  <2>3. QED
    BY <1>0, <1>4, <2>2 DEF Inv, BlockInv, BlockTypes, ListInv, Listed, AtDesk
<1>6. /\ \A y \in Images : (Stored(y)' <=> Stored(y)) /\ (There(y)' <=> There(y) /\ y # x)
  BY <1>1, <1>2, <1>4 DEF Stored, There
<1>7. ASSUME NEW g \in Galleries
      PROVE  /\ gallery'[g] \in Gallery /\ gallery'[g].row = gallery[g].row
             /\ gallery'[g].asked = gallery[g].asked /\ gallery'[g].loose = gallery[g].loose
             /\ gallery'[g].items = gallery[g].items \ {x}
  <2>1. gallery[g] \in Gallery /\ gallery'[g] = [gallery[g] EXCEPT !.items = @ \ {x}]
    BY <1>0 DEF Purge, GalleryTypes
  <2>2. QED
    BY <2>1 DEF Gallery
<1>8. GalleryTypes'
  <2>1. gallery' = [g \in Galleries |-> gallery'[g]]
    BY DEF Purge
  <2>2. gallery' \in [Galleries -> Gallery]
    BY <1>7, <2>1
  <2>3. QED
    BY <1>0, <2>2 DEF GalleryTypes
<1>9. StoredInv'
  <2>1. ASSUME NEW g \in Galleries, NEW y \in gallery'[g].items PROVE There(y)'
    BY <1>0, <1>6, <1>7 DEF Inv, GalleryInv, GalleryTypes, Gallery, StoredInv
  <2>2. ASSUME NEW g \in Galleries, NEW y \in gallery'[g].asked PROVE Stored(y)'
    BY <1>0, <1>6, <1>7 DEF Inv, GalleryInv, GalleryTypes, Gallery, StoredInv
  <2>3. ASSUME NEW w \in Writers, NEW y \in writer'[w].list PROVE Stored(y)'
    BY <1>0, <1>6 DEF Inv, GalleryInv, GalleryTypes, Writer, StoredInv
  <2>4. QED
    BY <2>1, <2>2, <2>3 DEF StoredInv
<1>10. WriterInv'
  <2>1. ASSUME NEW g \in Galleries, gallery'[g].row = "none" PROVE gallery'[g] = NoGallery
    <3>1. gallery[g] = NoGallery
      BY <1>7, <2>1 DEF Inv, GalleryInv, WriterInv
    <3>2. gallery'[g] = [gallery[g] EXCEPT !.items = @ \ {x}]
      BY DEF Purge
    <3>3. QED
      BY <3>1, <3>2 DEF NoGallery
  <2>2. QED
    BY <1>0, <1>7, <2>1 DEF Inv, GalleryInv, WriterInv, AtWork, Filling
<1>11. ASSUME NEW g \in Galleries, Shows(g) PROVE Shows(g)'
  <2>1. {y \in gallery[g].asked : There(y)'} = {y \in gallery[g].asked : There(y)} \ {x}
    BY <1>0, <1>6 DEF GalleryTypes, Gallery
  <2>2. \A w \in Writers : {y \in writer[w].list \ writer[w].todo : There(y)'}
                          = {y \in writer[w].list \ writer[w].todo : There(y)} \ {x}
    BY <1>0, <1>6 DEF GalleryTypes, Writer
  <2>3. QED
    BY <1>0, <1>7, <1>11, <2>1, <2>2 DEF Shows, Filling, AtWork
<1>12. ShownInv'
  BY <1>7, <1>11 DEF Inv, GalleryInv, ShownInv
<1>13. QED
  BY <1>5, <1>8, <1>9, <1>10, <1>12 DEF Inv, GalleryInv

\* A gallery that the step does not touch, nor who fills it.
LEMMA ShowsKept ==
  ASSUME NEW g \in Galleries, image' = image, gallery'[g] = gallery[g],
         \A w \in Writers : w \in Filling(g) \/ w \in Filling(g)' => writer'[w] = writer[w],
         Shows(g)
  PROVE  Shows(g)'
<1>1. Filling(g)' = Filling(g)
  BY DEF Filling
<1>2. \A w \in Filling(g) : writer'[w] = writer[w]
  BY DEF Filling
<1>3. \A y : There(y)' <=> There(y)
  BY DEF There
<1>4. {x \in gallery[g].asked : There(x)'} = {x \in gallery[g].asked : There(x)}
  BY <1>3
<1>5. \A w \in Filling(g) : {x \in writer[w].list \ writer[w].todo : There(x)'}
                       = {x \in writer[w].list \ writer[w].todo : There(x)}
  BY <1>3
<1>6. QED
  BY <1>1, <1>2, <1>4, <1>5 DEF Shows, AtWork

\* A request at work on g goes on to v, and the gallery changes, or not.
LEMMA OneWriter ==
  ASSUME Inv, UNCHANGED <<block, image, admin, standing>>,
         NEW w \in Writers, NEW v \in Writer, writer' = [writer EXCEPT ![w] = v],
         NEW g \in Galleries, gallery' \in [Galleries -> Gallery],
         \A h \in Galleries \ {g} : gallery'[h] = gallery[h],
         AtWork(w, "idle") \/ writer[w].gallery = g,
         v.pc # "idle" => v.gallery = g /\ gallery'[g].row # "none",
         v.pc = "items" => v.todo \subseteq v.list,
         \A x \in v.list : Stored(x),
         v.pc \in {"items", "fill"} => w \in Filling(g) \/ Filling(g) = {},
         gallery'[g].row = "none" => gallery[g].row = "none" /\ gallery'[g] = NoGallery,
         \A x \in gallery'[g].items : There(x),
         \A x \in gallery'[g].asked : Stored(x),
         gallery'[g].row = "live" /\ ~gallery'[g].loose => Shows(g)'
  PROVE  Inv'
<1>0. BlockTypes /\ GalleryTypes /\ BlockInv'
  BY BlockQuiet DEF Inv, BlockInv, GalleryInv
<1>1. /\ writer' \in [Writers -> Writer]
      /\ writer'[w] = v /\ \A u \in Writers \ {w} : writer'[u] = writer[u]
  BY <1>0, WriterChanges
<1>2. /\ \A x : There(x)' <=> There(x)
      /\ \A x : Stored(x)' <=> Stored(x)
  BY DEF There, Stored
<1>3. GalleryTypes'
  BY <1>1 DEF GalleryTypes
<1>4. StoredInv'
  <2>1. ASSUME NEW h \in Galleries, NEW x \in gallery'[h].items PROVE There(x)'
    BY <1>2 DEF Inv, GalleryInv, StoredInv
  <2>2. ASSUME NEW h \in Galleries, NEW x \in gallery'[h].asked PROVE Stored(x)'
    BY <1>2 DEF Inv, GalleryInv, StoredInv
  <2>3. ASSUME NEW u \in Writers, NEW x \in writer'[u].list PROVE Stored(x)'
    BY <1>1, <1>2 DEF Inv, GalleryInv, StoredInv
  <2>4. QED
    BY <2>1, <2>2, <2>3 DEF StoredInv
<1>5. WriterInv'
  <2>1. ASSUME NEW u \in Writers, ~AtWork(u, "idle")'
        PROVE  writer'[u].gallery \in Galleries /\ gallery'[writer'[u].gallery].row # "none"
    <3>1. CASE u = w
      BY <1>1, <2>1, <3>1 DEF AtWork
    <3>2. CASE u # w
      <4>1. /\ writer'[u] = writer[u] /\ writer[u].gallery \in Galleries
            /\ gallery[writer[u].gallery].row # "none"
        BY <1>1, <2>1, <3>2 DEF AtWork, Inv, GalleryInv, WriterInv
      <4>2. QED
        BY <4>1
    <3>3. QED
      BY <3>1, <3>2
  <2>2. \A u \in Writers : AtWork(u, "items")' => writer'[u].todo \subseteq writer'[u].list
    BY <1>1 DEF AtWork, Inv, GalleryInv, WriterInv
  <2>3. ASSUME NEW t \in Writers, NEW u \in Writers, NEW h \in Galleries,
               t \in Filling(h)', u \in Filling(h)'
        PROVE  t = u
    <3>1. \A q \in Writers \ {w} : q \in Filling(h)' => q \in Filling(h)
      BY <1>1 DEF Filling
    <3>2. w \in Filling(h)' => h = g /\ v.pc \in {"items", "fill"}
      BY <1>1 DEF Filling
    <3>3. QED
      BY <2>3, <3>1, <3>2 DEF Inv, GalleryInv, WriterInv
  <2>4. \A h \in Galleries : gallery'[h].row = "none" => gallery'[h] = NoGallery
    BY DEF Inv, GalleryInv, WriterInv
  <2>5. QED
    BY <2>1, <2>2, <2>3, <2>4 DEF WriterInv
<1>6. ShownInv'
  <2> SUFFICES ASSUME NEW h \in Galleries, gallery'[h].row = "live", ~gallery'[h].loose
               PROVE  Shows(h)'
    BY DEF ShownInv
  <2>1. CASE h = g
    <3>1. Shows(g)'
      BY <2>1
    <3>2. \A k \in Galleries : k = g => (Shows(k)' <=> Shows(g)')
      OBVIOUS
    <3>3. QED
      BY <2>1, <3>1, <3>2
  <2>2. CASE h # g
    <3>1. Shows(h) /\ gallery'[h] = gallery[h]
      BY <2>2 DEF Inv, GalleryInv, ShownInv
    <3>2. w \notin Filling(h) /\ w \notin Filling(h)'
      BY <1>1, <2>2 DEF Filling, AtWork
    <3>3. \A u \in Writers : u \in Filling(h) \/ u \in Filling(h)' => writer'[u] = writer[u]
      BY <1>1, <3>2
    <3>4. QED
      BY <3>1, <3>3, ShowsKept
  <2>3. QED
    BY <2>1, <2>2
<1>7. QED
  BY <1>0, <1>3, <1>4, <1>5, <1>6 DEF Inv, GalleryInv

LEMMA CreateInv ==
  ASSUME Inv, NEW w \in Writers, NEW g \in Galleries, Create(w, g)
  PROVE  Inv'
<1>0. /\ GalleryTypes /\ BlockTypes /\ UNCHANGED <<block, image, admin, standing>>
      /\ AtWork(w, "idle") /\ gallery[g] = NoGallery
      /\ gallery' = [gallery EXCEPT ![g].row = "live"]
  BY DEF Inv, GalleryInv, BlockInv, WriterInv, Create
<1>1. PICK list \in SUBSET {x \in Images : Live(x)} :
        writer' \in {[writer EXCEPT ![w] = [pc |-> "items", gallery |-> g, list |-> list, todo |-> list]],
                     [writer EXCEPT ![w] = [pc |-> "fill", gallery |-> g, list |-> list, todo |-> {}]]}
  BY DEF Create
<1>2. PICK v \in Writer :
        /\ writer' = [writer EXCEPT ![w] = v] /\ v.pc \in {"items", "fill"} /\ v.gallery = g
        /\ v.list = list /\ (v.pc = "items" => v.todo = list)
  <2> DEFINE i == [pc |-> "items", gallery |-> g, list |-> list, todo |-> list]
             f == [pc |-> "fill", gallery |-> g, list |-> list, todo |-> {}]
  <2>1. i \in Writer /\ i.pc = "items" /\ i.gallery = g /\ i.list = list /\ i.todo = list
    BY DEF Writer
  <2>2. f \in Writer /\ f.pc = "fill" /\ f.gallery = g /\ f.list = list
    BY DEF Writer
  <2>3. writer' = [writer EXCEPT ![w] = i] \/ writer' = [writer EXCEPT ![w] = f]
    BY <1>1
  <2> HIDE DEF i, f
  <2>4. QED
    BY <2>1, <2>2, <2>3
<1> DEFINE row == [NoGallery EXCEPT !.row = "live"]
<1>3. row \in Gallery /\ row.row = "live" /\ row.items = {} /\ row.asked = {}
  BY DEF NoGallery, Gallery
<1>4. gallery' = [gallery EXCEPT ![g] = row]
  BY <1>0 DEF GalleryTypes
<1> HIDE DEF row
<1>5. /\ gallery' \in [Galleries -> Gallery] /\ gallery'[g] = row
      /\ \A h \in Galleries \ {g} : gallery'[h] = gallery[h]
  BY <1>0, <1>3, <1>4 DEF GalleryTypes
<1>6. /\ writer' \in [Writers -> Writer]
      /\ writer'[w] = v /\ \A u \in Writers \ {w} : writer'[u] = writer[u]
  BY <1>0, <1>2, WriterChanges
<1>7. Filling(g) = {}
  BY <1>0, Constants DEF Inv, GalleryInv, WriterInv, Filling, AtWork
<1>8. Filling(g)' = {w}
  BY <1>2, <1>6, <1>7 DEF Filling
<1>9. Shows(g)'
  <2>1. {x \in writer'[w].list \ writer'[w].todo : There(x)'} = {} \/ v.pc # "items"
    BY <1>2, <1>6
  <2>2. QED
    BY <1>2, <1>3, <1>5, <1>6, <1>8, <2>1 DEF Shows, AtWork
<1>10. \A x \in v.list : Stored(x)
  BY <1>2 DEF Stored, Live
<1>11. QED
  BY <1>0, <1>2, <1>3, <1>5, <1>7, <1>9, <1>10, OneWriter

LEMMA SelectInv ==
  ASSUME Inv, NEW w \in Writers, NEW g \in Galleries, SelectIn(w, g)
  PROVE  Inv'
<1>0. /\ GalleryTypes /\ UNCHANGED <<block, image, admin, standing, gallery>>
      /\ AtWork(w, "idle") /\ gallery[g].row = "live"
  BY DEF Inv, GalleryInv, SelectIn, OnlyWriter
<1>1. PICK list \in SUBSET {x \in Images : Live(x)} :
        writer' = [writer EXCEPT ![w] = [pc |-> "edit", gallery |-> g, list |-> list, todo |-> {}]]
  BY DEF SelectIn
<1> DEFINE v == [pc |-> "edit", gallery |-> g, list |-> list, todo |-> {}]
<1>2. v \in Writer /\ v.pc = "edit" /\ v.gallery = g /\ v.list = list
  BY DEF Writer
<1>3. writer' = [writer EXCEPT ![w] = v]
  BY <1>1
<1> HIDE DEF v
<1>4. writer'[w] = v /\ \A u \in Writers \ {w} : writer'[u] = writer[u]
  BY <1>0, <1>2, <1>3, WriterChanges
<1>5. gallery[g].loose \/ Shows(g)'
  <2>1. \A u \in Writers : u \in Filling(g) \/ u \in Filling(g)' => writer'[u] = writer[u]
    BY <1>0, <1>2, <1>4 DEF Filling, AtWork
  <2>2. gallery[g].loose \/ Shows(g)
    BY <1>0 DEF Inv, GalleryInv, ShownInv
  <2>3. QED
    BY <1>0, <2>1, <2>2, ShowsKept
<1>6. \A x \in v.list : Stored(x)
  BY <1>2 DEF Stored, Live
<1>7. gallery' \in [Galleries -> Gallery] /\ \A x \in gallery[g].items : There(x)
  BY <1>0 DEF GalleryTypes, Inv, GalleryInv, StoredInv
<1>8. \A x \in gallery[g].asked : Stored(x)
  BY DEF Inv, GalleryInv, StoredInv
<1>9. QED
  BY <1>0, <1>2, <1>3, <1>5, <1>6, <1>7, <1>8, OneWriter

\* A request ends: nobody fills its gallery any more, if it did.
LEMMA WriterEnds ==
  ASSUME Inv, NEW w \in Writers, ~AtWork(w, "idle"), Ends(w)
  PROVE  /\ writer' \in [Writers -> Writer]
         /\ writer'[w] = Rest /\ \A u \in Writers \ {w} : writer'[u] = writer[u]
         /\ writer[w].gallery \in Galleries /\ gallery[writer[w].gallery].row # "none"
         /\ \A g \in Galleries : Filling(g)' = Filling(g) \ {w}
<1>1. /\ writer' \in [Writers -> Writer]
      /\ writer'[w] = Rest /\ \A u \in Writers \ {w} : writer'[u] = writer[u]
  BY Constants, WriterChanges DEF Inv, GalleryInv, Ends
<1>2. QED
  BY <1>1, Constants DEF Inv, GalleryInv, WriterInv, Filling

\* Who fills a gallery does so alone.
LEMMA Alone ==
  ASSUME Inv, NEW w \in Writers, AtWork(w, "items") \/ AtWork(w, "fill")
  PROVE  writer[w].gallery \in Galleries /\ Filling(writer[w].gallery) = {w}
<1>1. writer[w].gallery \in Galleries
  BY DEF Inv, GalleryInv, WriterInv, AtWork
<1>2. w \in Filling(writer[w].gallery)
  BY DEF Filling, AtWork
<1>3. \A u \in Filling(writer[w].gallery) : u = w
  BY <1>1, <1>2 DEF Inv, GalleryInv, WriterInv, Filling
<1>4. QED
  BY <1>1, <1>2, <1>3

LEMMA AddItemInv ==
  ASSUME Inv, NEW w \in Writers, NEW x \in Images, AddItem(w, x)
  PROVE  Inv'
<1> DEFINE g == writer[w].gallery
           todo == writer[w].todo \ {x}
           list == writer[w].list
           asked == IF todo = {} THEN list ELSE gallery[g].asked
           items == gallery[g].items \cup {x}
           to == [gallery[g] EXCEPT !.items = items, !.asked = asked]
           v == [writer[w] EXCEPT !.todo = todo]
<1>0. /\ GalleryTypes /\ UNCHANGED <<block, image, admin, standing>>
      /\ AtWork(w, "items") /\ x \in writer[w].todo /\ There(x)
  BY DEF Inv, GalleryInv, AddItem
<1>1. /\ g \in Galleries /\ Filling(g) = {w} /\ gallery[g].row # "none"
      /\ writer[w].todo \subseteq list /\ \A y \in list : Stored(y)
      /\ \A y \in gallery[g].items : There(y)
      /\ \A y \in gallery[g].asked : Stored(y)
  BY <1>0, Alone DEF Inv, GalleryInv, WriterInv, StoredInv, AtWork
<1>2. /\ gallery[g] \in Gallery /\ writer[w] \in Writer
      /\ list \subseteq Images /\ todo \subseteq list
  BY <1>0, <1>1 DEF GalleryTypes, Writer
<1>3. /\ Write(g, to)
      /\ writer' = [writer EXCEPT ![w] = IF todo = {} THEN Rest ELSE v]
  BY DEF AddItem
<1>4. /\ todo = {} => asked = list
      /\ asked \in {list, gallery[g].asked}
  OBVIOUS
<1> HIDE DEF asked
<1>5. /\ to \in Gallery /\ to.row = gallery[g].row /\ to.loose = gallery[g].loose
      /\ to.items = items /\ to.asked = asked
  BY <1>2, <1>4 DEF Gallery
<1>6. /\ v \in Writer /\ v.pc = "items" /\ v.gallery = g /\ v.list = list /\ v.todo = todo
  BY <1>0, <1>2 DEF Writer, AtWork
<1> HIDE DEF to, v
<1>7. /\ gallery' \in [Galleries -> Gallery]
      /\ gallery'[g] = IF gallery[g].row = "live" THEN to ELSE gallery[g]
      /\ \A h \in Galleries \ {g} : gallery'[h] = gallery[h]
  BY <1>0, <1>1, <1>3, <1>5, GalleryWritten DEF g
<1>8. PICK now \in Writer : /\ writer' = [writer EXCEPT ![w] = now]
                           /\ now = IF todo = {} THEN Rest ELSE v
  BY <1>3, <1>6, Constants
<1>9. writer'[w] = now /\ \A u \in Writers \ {w} : writer'[u] = writer[u]
  BY <1>0, <1>8, WriterChanges
<1>10. ASSUME gallery[g].row = "live", ~gallery[g].loose
       PROVE  \A k \in Galleries : k = g => Shows(k)'
  <2> SUFFICES ASSUME NEW k \in Galleries, k = g PROVE Shows(k)'
    OBVIOUS
  <2>1. gallery[g].items = {y \in list \ writer[w].todo : There(y)}
    BY <1>0, <1>1, <1>10 DEF Inv, GalleryInv, ShownInv, Shows
  <2>2. items = {y \in list \ todo : There(y)}
    BY <1>0, <1>1, <2>1
  <2>3. gallery'[k].items = items /\ gallery'[k].asked = asked
    BY <1>5, <1>7, <1>10
  <2>4. \A y : There(y)' <=> There(y)
    BY <1>0 DEF There
  <2>5. CASE todo = {}
    <3>1. Filling(k)' = {}
      BY <1>1, <1>8, <1>9, <2>5, Constants DEF Filling
    <3>2. gallery'[k].items = {y \in gallery'[k].asked : There(y)'}
      BY <1>4, <2>2, <2>3, <2>4, <2>5
    <3>3. QED
      BY <3>1, <3>2 DEF Shows
  <2>6. CASE todo # {}
    <3>1. Filling(k)' \subseteq {w} /\ w \in Filling(k)' /\ writer'[w] = v
      BY <1>1, <1>6, <1>8, <1>9, <2>6 DEF Filling
    <3>2. gallery'[k].items = {y \in writer'[w].list \ writer'[w].todo : There(y)'}
      BY <1>6, <2>2, <2>3, <2>4, <3>1
    <3>3. \A u \in Filling(k)' : u = w /\ ~AtWork(u, "fill")'
      BY <1>6, <3>1 DEF AtWork
    <3>4. QED
      BY <3>1, <3>2, <3>3 DEF Shows
  <2>7. QED
    BY <2>5, <2>6
<1> DEFINE P(k) == gallery'[k].row = "live" /\ ~gallery'[k].loose => Shows(k)'
<1>11. \A k \in Galleries : k = g => P(k)
  BY <1>5, <1>7, <1>10
<1>12. /\ now.pc # "idle" => now.gallery = g /\ gallery'[g].row # "none"
       /\ now.pc = "items" => now.todo \subseteq now.list
       /\ \A y \in now.list : Stored(y)
       /\ now.pc \in {"items", "fill"} => w \in Filling(g)
       /\ gallery'[g].row # "none"
  BY <1>1, <1>2, <1>5, <1>6, <1>7, <1>8, Constants
<1>13. /\ \A y \in gallery'[g].items : There(y)
       /\ \A y \in gallery'[g].asked : Stored(y)
  BY <1>0, <1>1, <1>4, <1>5, <1>7
<1>14. \A k \in Galleries : k = g => Inv'
  <2> SUFFICES ASSUME NEW k \in Galleries, k = g PROVE Inv'
    OBVIOUS
  <2>1. P(k)
    BY <1>11
  <2> HIDE DEF g
  <2>2. QED
    BY <1>0, <1>7, <1>8, <1>12, <1>13, <2>1, OneWriter DEF g
<1>15. QED
  BY <1>1, <1>14

LEMMA BatchInv ==
  ASSUME Inv, NEW w \in Writers, NEW pc \in {"edit", "fill"}, Batch(w, pc)
  PROVE  Inv'
<1> DEFINE g == writer[w].gallery
           list == writer[w].list
           items == IF pc = "edit" THEN list ELSE gallery[g].items \cup list
           loose == Filling(g) \ {w} # {} \/ (pc = "fill" /\ gallery[g].loose)
           to == [gallery[g] EXCEPT !.items = items, !.asked = list, !.loose = loose]
<1>0. /\ GalleryTypes /\ UNCHANGED <<block, image, admin, standing>> /\ Ends(w)
      /\ AtWork(w, pc) /\ ~AtWork(w, "idle") /\ \A x \in list : There(x)
  BY DEF Inv, GalleryInv, Batch, AtWork
<1>1. /\ writer' \in [Writers -> Writer]
      /\ writer'[w] = Rest /\ \A u \in Writers \ {w} : writer'[u] = writer[u]
      /\ g \in Galleries /\ gallery[g].row # "none"
      /\ \A h \in Galleries : Filling(h)' = Filling(h) \ {w}
  BY <1>0, WriterEnds
<1>2. Write(g, to)
  BY DEF Batch
<1>3. /\ gallery[g] \in Gallery /\ list \subseteq Images
      /\ \A x \in gallery[g].items : There(x)
      /\ \A x \in gallery[g].asked : Stored(x)
  BY <1>0, <1>1 DEF GalleryTypes, Writer, Inv, GalleryInv, StoredInv
<1>4. /\ items \in SUBSET Images /\ \A x \in items : There(x)
  BY <1>0, <1>3 DEF Gallery
<1>5. gallery[g].row = "live" /\ ~loose => Filling(g) \subseteq {w} /\ items = list
  <2>1. CASE pc = "edit"
    BY <2>1
  <2>2. CASE pc = "fill" /\ gallery[g].row = "live" /\ ~gallery[g].loose
    <3>1. w \in Filling(g)
      BY <1>0, <2>2 DEF Filling, AtWork
    <3>2. gallery[g].items = {}
      BY <1>0, <1>1, <2>2, <3>1 DEF Inv, GalleryInv, ShownInv, Shows
    <3>3. QED
      BY <2>2, <3>2
  <2>3. QED
    BY <2>1, <2>2
<1>6. loose \in BOOLEAN
  OBVIOUS
<1> HIDE DEF items, loose
<1>7. /\ to \in Gallery /\ to.row = gallery[g].row /\ to.loose = loose
      /\ to.items = items /\ to.asked = list
  BY <1>3, <1>4, <1>6 DEF Gallery
<1> HIDE DEF to
<1>8. /\ gallery' \in [Galleries -> Gallery]
      /\ gallery'[g] = IF gallery[g].row = "live" THEN to ELSE gallery[g]
      /\ \A h \in Galleries \ {g} : gallery'[h] = gallery[h]
  BY <1>0, <1>1, <1>2, <1>7, GalleryWritten DEF g
<1> HIDE DEF g
<1>9. ASSUME NEW k \in Galleries, k = g, gallery'[k].row = "live", ~gallery'[k].loose
      PROVE  Shows(k)'
  <2>1. /\ gallery'[k].items = list /\ gallery'[k].asked = list /\ Filling(k)' = {}
    BY <1>1, <1>5, <1>7, <1>8, <1>9
  <2>2. \A x \in list : There(x)'
    BY <1>0 DEF There
  <2>3. gallery'[k].items = {x \in gallery'[k].asked : There(x)'}
    BY <2>1, <2>2
  <2>4. QED
    BY <2>1, <2>3 DEF Shows
<1>10. ASSUME NEW k \in Galleries, k = g PROVE Inv'
  <2>1. /\ gallery'[k].row # "none" /\ \A x \in gallery'[k].items : There(x)
        /\ \A x \in gallery'[k].asked : Stored(x)
    BY <1>0, <1>1, <1>3, <1>4, <1>7, <1>8, <1>10 DEF There, Stored
  <2>2. gallery'[k].row = "live" /\ ~gallery'[k].loose => Shows(k)'
    BY <1>9, <1>10
  <2>3. writer' = [writer EXCEPT ![w] = Rest] /\ writer[w].gallery = k
    BY <1>0, <1>10 DEF Ends, g
  <2>4. QED
    BY <1>0, <1>8, <1>10, <2>1, <2>2, <2>3, Constants, OneWriter
<1>11. QED
  BY <1>1, <1>10 DEF g

LEMMA WriterFailsInv ==
  ASSUME Inv, NEW w \in Writers, WriterFails(w)
  PROVE  Inv'
<1> DEFINE g == writer[w].gallery
           to == [gallery[g] EXCEPT !.loose = TRUE]
<1>0. /\ GalleryTypes /\ UNCHANGED <<block, image, admin, standing>> /\ Ends(w)
      /\ ~AtWork(w, "idle")
  BY DEF Inv, GalleryInv, WriterFails
<1>1. /\ writer' \in [Writers -> Writer]
      /\ writer'[w] = Rest /\ \A u \in Writers \ {w} : writer'[u] = writer[u]
      /\ g \in Galleries /\ gallery[g].row # "none"
      /\ \A h \in Galleries : Filling(h)' = Filling(h) \ {w}
  BY <1>0, WriterEnds
<1>2. /\ gallery[g] \in Gallery
      /\ \A x \in gallery[g].items : There(x)
      /\ \A x \in gallery[g].asked : Stored(x)
  BY <1>0, <1>1 DEF GalleryTypes, Inv, GalleryInv, StoredInv
<1>3. IF AtWork(w, "items") THEN Write(g, to) ELSE UNCHANGED gallery
  BY DEF WriterFails
<1>4. /\ to \in Gallery /\ to.row = gallery[g].row /\ to.loose
      /\ to.items = gallery[g].items /\ to.asked = gallery[g].asked
  BY <1>2 DEF Gallery
<1> HIDE DEF to
<1>5. /\ gallery' \in [Galleries -> Gallery]
      /\ gallery'[g] = IF AtWork(w, "items") /\ gallery[g].row = "live" THEN to ELSE gallery[g]
      /\ \A h \in Galleries \ {g} : gallery'[h] = gallery[h]
  BY <1>0, <1>1, <1>3, <1>4, GalleryWritten DEF g, GalleryTypes
<1>6. AtWork(w, "fill") => Filling(g) = {w}
  BY Alone
<1>7. ~AtWork(w, "fill") /\ ~AtWork(w, "items") => w \notin Filling(g)
  BY DEF Filling, AtWork
<1> HIDE DEF g
<1>8. ASSUME NEW k \in Galleries, k = g, gallery'[k].row = "live", ~gallery'[k].loose
      PROVE  Shows(k)'
  <2>1. gallery'[k] = gallery[k] /\ ~AtWork(w, "items") /\ Shows(k)
    BY <1>1, <1>4, <1>5, <1>8 DEF Inv, GalleryInv, ShownInv
  <2>2. CASE AtWork(w, "fill")
    <3>1. gallery'[k].items = {} /\ gallery'[k].asked = {} /\ Filling(k)' = {}
      BY <1>1, <1>6, <1>8, <2>1, <2>2 DEF Shows
    <3>2. QED
      BY <3>1 DEF Shows
  <2>3. CASE ~AtWork(w, "fill")
    <3>1. w \notin Filling(k) /\ w \notin Filling(k)'
      BY <1>1, <1>7, <1>8, <2>1, <2>3
    <3>2. \A u \in Writers : u \in Filling(k) \/ u \in Filling(k)' => writer'[u] = writer[u]
      BY <1>1, <3>1
    <3>3. QED
      BY <1>0, <2>1, <3>2, ShowsKept
  <2>4. QED
    BY <2>2, <2>3
<1>9. ASSUME NEW k \in Galleries, k = g PROVE Inv'
  <2>1. /\ gallery'[k].row # "none" /\ \A x \in gallery'[k].items : There(x)
        /\ \A x \in gallery'[k].asked : Stored(x)
    BY <1>1, <1>2, <1>4, <1>5, <1>9
  <2>2. gallery'[k].row = "live" /\ ~gallery'[k].loose => Shows(k)'
    BY <1>8, <1>9
  <2>3. writer' = [writer EXCEPT ![w] = Rest] /\ writer[w].gallery = k
    BY <1>0, <1>9 DEF Ends, g
  <2>4. QED
    BY <1>0, <1>5, <1>9, <2>1, <2>2, <2>3, Constants, OneWriter
<1>10. QED
  BY <1>1, <1>9 DEF g

LEMMA DeleteGalleryInv ==
  ASSUME Inv, NEW g \in Galleries, DeleteGallery(g)
  PROVE  Inv'
<1> DEFINE row == [NoGallery EXCEPT !.row = "deleted"]
<1>0. /\ GalleryTypes /\ UNCHANGED <<block, image, admin, writer, standing>>
      /\ gallery' = [gallery EXCEPT ![g] = row]
  BY DEF Inv, GalleryInv, DeleteGallery
<1>1. row \in Gallery /\ row.row = "deleted" /\ row.items = {} /\ row.asked = {}
  BY DEF NoGallery, Gallery
<1> HIDE DEF row
<1>2. /\ gallery' \in [Galleries -> Gallery] /\ gallery'[g] = row
      /\ \A h \in Galleries \ {g} : gallery'[h] = gallery[h]
  BY <1>0, <1>1 DEF GalleryTypes
<1>3. GalleryTypes' /\ BlockInv'
  BY <1>0, <1>2, BlockQuiet DEF GalleryTypes, Inv
<1>4. StoredInv'
  BY <1>0, <1>1, <1>2 DEF Inv, GalleryInv, StoredInv, There, Stored
<1>5. WriterInv'
  BY <1>0, <1>1, <1>2 DEF Inv, GalleryInv, WriterInv, AtWork, Filling
<1>6. ShownInv'
  <2> SUFFICES ASSUME NEW h \in Galleries, gallery'[h].row = "live", ~gallery'[h].loose
               PROVE  Shows(h)'
    BY DEF ShownInv
  <2>1. gallery'[h] = gallery[h] /\ Shows(h)
    BY <1>1, <1>2 DEF Inv, GalleryInv, ShownInv
  <2>2. QED
    BY <1>0, <2>1, ShowsKept
<1>7. QED
  BY <1>3, <1>4, <1>5, <1>6 DEF Inv, GalleryInv

LEMMA StepInv == Inv /\ [Next]_vars => Inv'
<1> SUFFICES ASSUME Inv, [Next]_vars PROVE Inv'
  OBVIOUS
<1>1. ASSUME NEW x \in Images,
             Scans(x) \/ Delete(x) \/ Purge(x) \/ \E a \in Admins : Review(a, x)
      PROVE  Inv'
  BY <1>1, ScansInv, PurgeInv, ReviewInv
<1>2. ASSUME NEW a \in Admins,
             Allow(a) \/ Flag(a) \/ EnsurePhash(a) \/ AddBlock(a) \/ Reject(a) \/ AdminFails(a)
      PROVE  Inv'
  BY <1>2, MarkInv, EnsureInv, AddBlockInv, RejectInv, AdminFailsInv
<1>3. ASSUME NEW w \in Writers,
             \/ \E g \in Galleries : Create(w, g) \/ SelectIn(w, g)
             \/ \E x \in Images : AddItem(w, x)
             \/ Batch(w, "edit") \/ Batch(w, "fill") \/ WriterFails(w)
      PROVE  Inv'
  BY <1>3, CreateInv, SelectInv, AddItemInv, BatchInv, WriterFailsInv
<1>4. ASSUME UNCHANGED vars PROVE Inv'
  <2>1. UNCHANGED <<block, image, admin, gallery, writer, standing>>
    BY <1>4 DEF vars
  <2>2. \A x \in Images : Keeps(x)
    BY <2>1 DEF Keeps, Stored, There
  <2>3. QED
    BY <2>1, <2>2, BlockQuiet, GalleryQuiet DEF Inv
<1>5. QED
  BY <1>1, <1>2, <1>3, <1>4, AddLookInv, RemoveRowInv, DeleteGalleryInv DEF Next
-------------------------------------------------------------------------------
\* However scans, administrators and the rows of the blocklist interleave
\* (src/moderation.js, src/routes/review.js): an image that was scanned with its hash
\* while its look stood on the list is seen only if an administrator has looked at it,
\* or if it is held for review and reviews are shown.  Images of trusted users and
\* owners, and all while moderation is off, are not scanned (src/routes/upload.js:170).
THEOREM BlockedRefused == Spec => []BlockedLookRefused
<1>1. Inv => BlockedLookRefused
  BY InvShows
<1>2. QED
  BY <1>1, InitInv, StepInv, PTL DEF Spec

\* However the requests of the owner, the deletions and the retention interleave
\* (src/routes/galleries.js): a gallery shows the images last asked for.
THEOREM GalleriesAsAsked == Spec => []GalleryAsAsked
<1>1. Inv => GalleryAsAsked
  BY InvShows
<1>2. QED
  BY <1>1, InitInv, StepInv, PTL DEF Spec
===============================================================================
