------------------------------- MODULE Exhibits -------------------------------
(***************************************************************************)
(* What the galleries of one user show (src/routes/galleries.js, and the   *)
(* gallery of an upload in src/routes/upload.js), after the scan that each *)
(* image passes (src/moderation.js, src/nsfw.js), unless its owner is      *)
(* trusted (src/ranks.js), against a blocklist that administrators change  *)
(* meanwhile (src/routes/review.js).  Every statement is awaited, and a    *)
(* batch is one transaction.                                               *)
(*                                                                         *)
(* Abstracted: two images match if they look the same, whatever the        *)
(* distance of their hashes; the frames of a video to what was seen in     *)
(* them; positions and titles; the user's own account, which stays.        *)
(***************************************************************************)
CONSTANTS
  Images,      \* the images, each uploaded until it is stored
  Looks,       \* what an image can look like
  LookOf,      \* LookOf[x]: what x looks like
  Rows,        \* rows of phash_blocklist there are at once (a bound)
  Admins,      \* requests of administrators at work at once (a bound)
  Galleries,   \* the galleries created (a bound)
  Writers,     \* requests of the user at work at once (a bound)
  None,        \* no look, image or gallery
  Moderation,  \* config.moderation.enabled
  Nsfw,        \* config.moderation.nsfw.enabled
  FailClosed,  \* config.moderation.nsfw.failClosed
  Hold         \* config.moderation.holdOnReview

ASSUME ExhibitsAssumption ==
  /\ LookOf \in [Images -> Looks] /\ None \notin Looks \cup Images \cup Galleries
  /\ {Moderation, Nsfw, FailClosed, Hold} \subseteq BOOLEAN

VARIABLES
  block,     \* block[b]: the look that row b of the blocklist stands for
  image,     \* image[x]: where its upload is, or its row; its status, whether it has a
             \* phash; as history, whether it was scanned with its hash, and its look
             \* stood on the list all through that
  admin,     \* admin[a]: where the request is, its image, the hash it has
  gallery,   \* gallery[g]: its row, the images of its items; as history, those last
             \* asked for, and whether a creation was cut short or overlapped an edit
  writer,    \* writer[w]: where the request is, its gallery, its images, those still to add
  standing   \* history: the looks that an answered request has put on the list

vars == <<block, image, admin, gallery, writer, standing>>

Scanning == {"list", "store"}     \* hashed; with the verdict, not stored yet
NoImage == [st |-> "none", status |-> "ok", phash |-> FALSE, due |-> FALSE]
Free == [pc |-> "idle", image |-> None, hash |-> "none"]
NoGallery == [row |-> "none", items |-> {}, asked |-> {}, loose |-> FALSE]
Rest == [pc |-> "idle", gallery |-> None, list |-> {}, todo |-> {}]

TypeOK ==
  /\ block \in [Rows -> Looks \cup {None}] /\ standing \subseteq Looks
  /\ image \in [Images -> [st : {"none", "live", "deleted", "gone"} \cup Scanning,
                           status : {"ok", "review", "quarantined", "approved"},
                           phash : BOOLEAN, due : BOOLEAN]]
  /\ admin \in [Admins -> [pc : {"idle", "allow", "flag", "hash", "add", "reject"},
                           image : Images \cup {None},
                           hash : {"none", "known", "voided"}]]
  /\ gallery \in [Galleries -> [row : {"none", "live", "deleted"}, items : SUBSET Images,
                                asked : SUBSET Images, loose : BOOLEAN]]
  /\ writer \in [Writers -> [pc : {"idle", "fill", "items", "edit"},
                             gallery : Galleries \cup {None},
                             list : SUBSET Images, todo : SUBSET Images]]
  /\ \A g \in Galleries : \A x \in gallery[g].items : image[x].st \in {"live", "deleted"}

Init ==
  /\ block = [b \in Rows |-> None] /\ standing = {}
  /\ image = [x \in Images |-> NoImage]
  /\ admin = [a \in Admins |-> Free]
  /\ gallery = [g \in Galleries |-> NoGallery]
  /\ writer = [w \in Writers |-> Rest]

Live(x) == image[x].st = "live"
There(x) == image[x].st \in {"live", "deleted"}
-------------------------------------------------------------------------------
(***************************************************************************)
(* The scan of an upload.                                                  *)
(***************************************************************************)
AtScan(x, st) == image[x].st = st
Goes(x, st) == image' = [image EXCEPT ![x].st = st]
OnlyImage == UNCHANGED <<block, admin, gallery, writer, standing>>

\* The upload of a user who is to be scanned, and both hashes, or none: then the
\* blocklist is passed over.
Hash(x) ==
  /\ AtScan(x, "none") /\ Moderation
  /\ \E hashed \in BOOLEAN :
       image' = [image EXCEPT ![x] = [st |-> "list", status |-> "ok", phash |-> hashed,
                                      due |-> hashed /\ LookOf[x] \in standing]]
  /\ OnlyImage

\* A user who is trusted or an owner at the time of the upload (a rank comes, and ends,
\* between two uploads), or moderation is off: nothing is hashed or compared.
Unscanned(x) ==
  /\ AtScan(x, "none")
  /\ image' = [image EXCEPT ![x] = [st |-> "store", status |-> "ok", phash |-> FALSE,
                                    due |-> FALSE]]
  /\ OnlyImage

Listed == {block[b] : b \in Rows} \ {None}
Matches(x) == image[x].phash /\ LookOf[x] \in Listed

\* What was seen in the frames that could be extracted and classified: the worst
\* of it counts.
Judged(seen) ==
  IF "suspect" \in seen \/ (seen = {} /\ FailClosed) THEN "review" ELSE "ok"

Verdicts(x) ==
  IF Matches(x) THEN {"quarantined"}
  ELSE IF Nsfw THEN {Judged(seen) : seen \in SUBSET {"suspect", "harmless"}} ELSE {"ok"}

\* The list is read; the classifier runs after that, and on its own.
Scan(x) ==
  /\ AtScan(x, "list")
  /\ \E status \in Verdicts(x) :
       image' = [image EXCEPT ![x].st = "store", ![x].status = status]
  /\ OnlyImage

\* The list cannot be read: the scan throws.
ScanFails(x) ==
  /\ AtScan(x, "list")
  /\ image' = [image EXCEPT ![x] = [st |-> "store", phash |-> FALSE, due |-> FALSE,
                 status |-> IF Nsfw /\ FailClosed THEN "review" ELSE "ok"]]
  /\ OnlyImage

\* The object and the row, or neither.
Store(x) == AtScan(x, "store") /\ Goes(x, "live") /\ OnlyImage
StoreFails(x) ==
  AtScan(x, "store") /\ image' = [image EXCEPT ![x] = NoImage] /\ OnlyImage

\* What nobody reads of a deleted image is not kept.
Deleted == [NoImage EXCEPT !.st = "deleted"]

\* By whoever deletes images; and by the retention, with the gallery's item.
Delete(x) == Live(x) /\ image' = [image EXCEPT ![x] = Deleted] /\ OnlyImage
Purge(x) ==
  /\ AtScan(x, "deleted") /\ Goes(x, "gone")
  /\ gallery' = [g \in Galleries |-> [gallery[g] EXCEPT !.items = @ \ {x}]]
  /\ UNCHANGED <<block, admin, writer, standing>>
-------------------------------------------------------------------------------
(***************************************************************************)
(* The administrators.                                                     *)
(***************************************************************************)
AtDesk(a, pc) == admin[a].pc = pc
Done(a) == admin' = [admin EXCEPT ![a] = Free]

\* The row of a live image is read, for Allow, Flag, and Blocklist with or without a ban.
Review(a, x) ==
  /\ AtDesk(a, "idle") /\ Live(x)
  /\ \E pc \in {"allow", "flag", "hash"} :
       admin' = [admin EXCEPT ![a] = [pc |-> pc, image |-> x,
         hash |-> IF pc = "hash" /\ image[x].phash THEN "known" ELSE "none"]]
  /\ UNCHANGED <<block, image, gallery, writer, standing>>

Mark(a, pc, status) ==
  LET x == admin[a].image IN
  /\ AtDesk(a, pc) /\ Done(a)
  /\ image' = [image EXCEPT ![x].status = IF Live(x) THEN status ELSE @]
  /\ UNCHANGED <<block, gallery, writer, standing>>
Allow(a) == Mark(a, "allow", "approved")
Flag(a) == Mark(a, "flag", "review")

\* Mutant: the image is rejected before its hash is on the list.
NextRejectFirst(pc) ==
  CASE pc = "hash" -> "reject" [] pc = "reject" -> "add" [] pc = "add" -> "idle"
\* What a Blocklist does after what.
NextStep(pc) ==
  CASE pc = "hash" -> "add" [] pc = "add" -> "reject" [] pc = "reject" -> "idle"

Proceeds(a, hash) ==
  LET next == NextStep(admin[a].pc) IN
  admin' = [admin EXCEPT ![a] = IF next = "idle" THEN Free
                                ELSE [pc |-> next, image |-> admin[a].image, hash |-> hash]]

\* ensurePhash: computed if the row had none, from the original, if it is there.
EnsurePhash(a) ==
  LET x == admin[a].image IN
  /\ AtDesk(a, "hash")
  /\ \/ admin[a].hash = "known" /\ Proceeds(a, "known") /\ UNCHANGED image
     \/ admin[a].hash = "none" /\ Proceeds(a, "none") /\ UNCHANGED image
     \/ /\ admin[a].hash = "none" /\ Proceeds(a, "known")
        /\ image' = [image EXCEPT ![x].phash = @ \/ Live(x)]
  /\ UNCHANGED <<block, gallery, writer, standing>>

AddBlock(a) ==
  /\ AtDesk(a, "add") /\ Proceeds(a, admin[a].hash)
  /\ IF admin[a].hash = "known"
     THEN \E b \in Rows : block[b] = None /\ block' = [block EXCEPT ![b] = LookOf[admin[a].image]]
     ELSE UNCHANGED block
  /\ UNCHANGED <<image, gallery, writer, standing>>

Reject(a) ==
  LET x == admin[a].image IN
  /\ AtDesk(a, "reject") /\ Proceeds(a, admin[a].hash)
  /\ image' = [image EXCEPT ![x] = IF There(x) THEN Deleted ELSE @]
  /\ standing' = IF admin[a].hash = "known" THEN standing \cup {LookOf[x]} ELSE standing
  /\ UNCHANGED <<block, gallery, writer>>

\* A database error.
AdminFails(a) ==
  /\ ~AtDesk(a, "idle") /\ Done(a)
  /\ UNCHANGED <<block, image, gallery, writer, standing>>

\* /admin/blocklist/add: any image, which is not kept.
AddLook(look) ==
  /\ \E b \in Rows : block[b] = None /\ block' = [block EXCEPT ![b] = look]
  /\ standing' = standing \cup {look}
  /\ UNCHANGED <<image, admin, gallery, writer>>

\* One row; another may stand for the same look.
RemoveRow(b) ==
  LET look == block[b]
      last == \A c \in Rows \ {b} : block[c] # look IN
  /\ look # None /\ block' = [block EXCEPT ![b] = None]
  /\ standing' = IF last THEN standing \ {look} ELSE standing
  /\ image' = [x \in Images |->
       IF last /\ LookOf[x] = look /\ image[x].st = "list"
       THEN [image[x] EXCEPT !.due = FALSE] ELSE image[x]]
  /\ admin' = [a \in Admins |->
       IF last /\ AtDesk(a, "reject") /\ LookOf[admin[a].image] = look /\ admin[a].hash = "known"
       THEN [admin[a] EXCEPT !.hash = "voided"] ELSE admin[a]]
  /\ UNCHANGED <<gallery, writer>>
-------------------------------------------------------------------------------
(***************************************************************************)
(* The galleries.                                                          *)
(***************************************************************************)
AtWork(w, pc) == writer[w].pc = pc
Ends(w) == writer' = [writer EXCEPT ![w] = Rest]
Filling(g) == {w \in Writers : writer[w].pc \in {"items", "fill"} /\ writer[w].gallery = g}
\* Nobody reads the items of a gallery that is deleted.
Write(g, to) ==
  gallery' = IF gallery[g].row = "live" THEN [gallery EXCEPT ![g] = to] ELSE gallery
OnlyWriter == UNCHANGED <<block, image, admin, gallery, standing>>

\* The selected images of the user, as they are live now, or those that an upload
\* has stored; and the row of the gallery.  The dashboard adds the items one by one, an
\* upload in a batch.
Create(w, g) ==
  /\ AtWork(w, "idle") /\ gallery[g].row = "none"
  /\ gallery' = [gallery EXCEPT ![g].row = "live"]
  /\ \E list \in SUBSET {x \in Images : Live(x)} \ {{}} :
       writer' \in {[writer EXCEPT ![w] = [pc |-> "items", gallery |-> g, list |-> list, todo |-> list]],
                   [writer EXCEPT ![w] = [pc |-> "fill", gallery |-> g, list |-> list, todo |-> {}]]}
  /\ UNCHANGED <<block, image, admin, standing>>

SelectIn(w, g) ==
  /\ AtWork(w, "idle") /\ gallery[g].row = "live"
  /\ \E list \in SUBSET {x \in Images : Live(x)} \ {{}} :
       writer' = [writer EXCEPT ![w] = [pc |-> "edit", gallery |-> g, list |-> list, todo |-> {}]]
  /\ OnlyWriter

\* INSERT OR IGNORE; the foreign key needs the row of the image.
AddItem(w, x) ==
  LET rest == writer[w].todo \ {x}
      g == writer[w].gallery IN
  /\ AtWork(w, "items") /\ x \in writer[w].todo /\ There(x)
  /\ Write(g, [gallery[g] EXCEPT !.items = @ \cup {x},
                                  !.asked = IF rest = {} THEN writer[w].list ELSE @])
  /\ writer' = [writer EXCEPT ![w] = IF rest = {} THEN Rest ELSE [@ EXCEPT !.todo = rest]]
  /\ UNCHANGED <<block, image, admin, standing>>

\* Mutant: the items are deleted, and then added like those of a new gallery.
BatchApart(w, pc) ==
  /\ AtWork(w, pc) /\ pc = "edit"
  /\ Write(writer[w].gallery, [gallery[writer[w].gallery] EXCEPT !.items = {}])
  /\ writer' = [writer EXCEPT ![w].pc = "items", ![w].todo = writer[w].list]
  /\ UNCHANGED <<block, image, admin, standing>>

\* One transaction: all items are replaced, or none.  An upload only inserts, and
\* not what is there.
Batch(w, pc) ==
  LET g == writer[w].gallery IN
  /\ AtWork(w, pc) /\ \A x \in writer[w].list : There(x)
  /\ pc = "fill" => writer[w].list \cap gallery[g].items = {}
  /\ Write(g, [gallery[g] EXCEPT
       !.items = IF pc = "edit" THEN writer[w].list ELSE @ \cup writer[w].list,
       !.asked = writer[w].list,
       !.loose = Filling(g) \ {w} # {} \/ (pc = "fill" /\ @)])
  /\ Ends(w)
  /\ UNCHANGED <<block, image, admin, standing>>

DeleteGallery(g) ==
  /\ gallery[g].row = "live"
  /\ gallery' = [gallery EXCEPT ![g] = [NoGallery EXCEPT !.row = "deleted"]]
  /\ UNCHANGED <<block, image, admin, writer, standing>>

\* A database error, or an image that is gone: a creation stops where it is.
WriterFails(w) ==
  /\ ~AtWork(w, "idle") /\ Ends(w)
  /\ IF AtWork(w, "items")
     THEN Write(writer[w].gallery, [gallery[writer[w].gallery] EXCEPT !.loose = TRUE])
     ELSE UNCHANGED gallery
  /\ UNCHANGED <<block, image, admin, standing>>
-------------------------------------------------------------------------------
Scans(x) ==
  Hash(x) \/ Unscanned(x) \/ Scan(x) \/ ScanFails(x) \/ Store(x) \/ StoreFails(x)

Next ==
  \/ \E x \in Images : Scans(x) \/ Delete(x) \/ Purge(x) \/ \E a \in Admins : Review(a, x)
  \/ \E a \in Admins : \/ Allow(a) \/ Flag(a) \/ EnsurePhash(a) \/ AddBlock(a) \/ Reject(a)
                       \/ AdminFails(a)
  \/ \E look \in Looks : AddLook(look)
  \/ \E b \in Rows : RemoveRow(b)
  \/ \E w \in Writers :
       \/ \E g \in Galleries : Create(w, g) \/ SelectIn(w, g)
       \/ \E x \in Images : AddItem(w, x)
       \/ Batch(w, "edit") \/ Batch(w, "fill") \/ WriterFails(w)
  \/ \E g \in Galleries : DeleteGallery(g)

Spec == Init /\ [][Next]_vars
-------------------------------------------------------------------------------
Viewable(x) ==
  Live(x) /\ image[x].status \in {"ok", "approved"} \cup (IF Hold THEN {} ELSE {"review"})

\* The page of a gallery: one query, filtered.
Page(g) == IF gallery[g].row = "live" THEN {x \in gallery[g].items : Viewable(x)} ELSE {}

\* An image that looks like one an administrator has put on the list, by hand or by
\* rejecting it, is shown by no gallery and no link if its upload began after that,
\* until every row for that look is removed or an administrator has looked at it.
\* Excepted is what was not scanned, as its user was trusted or an owner or moderation
\* was off (upload.js:170, moderation.js:64), and what could not be hashed or compared
\* with the list (review.js:176, moderation.js:76).
BlockedLookRefused ==
  /\ TypeOK
  /\ \A x \in Images : Viewable(x) /\ image[x].due => image[x].status \in {"approved", "review"}

\* A gallery shows what its owner last asked for, as far as it may be seen: the lists
\* of two requests do not mix, and an edit that fails leaves the old one.  Excepted are
\* a creation that failed half way, and one that an edit has overtaken
\* (galleries.js:123, galleries.js:166).
GalleryAsAsked ==
  \A g \in Galleries :
    gallery[g].row = "live" /\ ~gallery[g].loose /\ Filling(g) = {} =>
      Page(g) = {x \in gallery[g].asked : Viewable(x)}
===============================================================================
