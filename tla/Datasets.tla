------------------------------- MODULE Datasets -------------------------------
(***************************************************************************)
(* The datasets a server downloads and then matches locally: the Tor exits *)
(* and the VPN (or datacenter) ranges of src/netlists.js, the disposable   *)
(* mail domains of src/email-domains.js, and the GeoLite2 databases of     *)
(* src/geoip.js.  Each has files on disk, what was last told about them by *)
(* the publisher (src/util/fetch-cache.js: ETag and Last-Modified; geoip:  *)
(* the checksum), and a copy in memory that a restart loses.  A refresh    *)
(* takes the sources in turn.  The datasets share nothing, so a behaviour  *)
(* is about one of them.                                                   *)
(*                                                                         *)
(* Abstracted: what a list names; a text is a version of a source, "whole" *)
(* as published, "blank" (published so, or a file that was only truncated) *)
(* or "cut" short by an interrupted write.  A publisher numbers what it    *)
(* publishes upwards.  Refreshes come hours apart, and one is over before  *)
(* the next begins: a request times out after 15 or 60 seconds.            *)
(***************************************************************************)
EXTENDS Naturals, Sequences

CONSTANTS
  First, Second,  \* the sources in order: URLs, or the ASN and the City edition
  MaxVersion,     \* versions of a source (a bound)
  MaxRestarts     \* crashes of the server (a bound)

ASSUME DatasetsAssumption ==
  /\ First # Second
  /\ MaxVersion \in Nat \ {0} /\ MaxRestarts \in Nat

VARIABLES
  kind,      \* the dataset this behaviour is about
  upstream,  \* upstream[s]: what the publisher of s has now
  file,      \* file[s]: the text on disk
  meta,      \* meta[s]: the version that is noted as fetched, 0 for none
  mem,       \* mem[s]: the text that is matched against, or the open reader
  usable,    \* state.torLoaded, state.vpnLoaded, state.dcLoaded
  job,       \* where a refresh is, and its local variables
  restarts,  \* how often the server has been restarted
  broken     \* history: a round was broken off since the readers were opened

listsVars == <<kind, upstream, file, meta, mem, usable, job, restarts, broken>>

Sources == {First, Second}
DatasetKinds == {"tor", "ranges", "domains", "geo"}
Used == IF kind \in {"ranges", "geo"} THEN Sources ELSE {First}

NoText == [v |-> 0, is |-> "none"]
Texts == [v : 0..MaxVersion, is : {"none", "whole", "blank", "cut"}]
Whole(text) == text.is = "whole"
\* A string that is not empty.
Some(text) == text.is \in {"whole", "cut"}

\* There is no empty database.
Published == IF kind = "geo" THEN {"whole"} ELSE {"whole", "blank"}

NoTexts == [s \in Sources |-> NoText]
Resting == [pc |-> "idle", at |-> First, got |-> NoText, changed |-> FALSE, texts |-> NoTexts]

\* The types; and nothing is noted as fetched that has not been stored.
ListsTypeOK ==
  /\ kind \in DatasetKinds
  /\ upstream \in [Sources -> Texts] /\ file \in [Sources -> Texts]
  /\ meta \in [Sources -> 0..MaxVersion] /\ mem \in [Sources -> Texts]
  /\ usable \in BOOLEAN /\ restarts \in 0..MaxRestarts /\ broken \in BOOLEAN
  /\ job \in [pc : {"idle", "fetch", "write", "note"}, at : Sources, got : Texts,
              changed : BOOLEAN, texts : [Sources -> Texts]]
  /\ \A s \in Sources : meta[s] <= file[s].v

ListsInit ==
  /\ kind \in DatasetKinds
  /\ \E is \in [Used -> Published] :
       upstream = [s \in Sources |-> IF s \in Used THEN [v |-> 1, is |-> is[s]] ELSE NoText]
  /\ file = NoTexts /\ meta = [s \in Sources |-> 0] /\ mem = NoTexts
  /\ usable = FALSE /\ job = Resting /\ restarts = 0 /\ broken = FALSE
-------------------------------------------------------------------------------
(***************************************************************************)
(* The world.                                                              *)
(***************************************************************************)
Publish(s) ==
  /\ upstream[s].v < MaxVersion
  /\ \E is \in Published : upstream' = [upstream EXCEPT ![s] = [v |-> @.v + 1, is |-> is]]
  /\ UNCHANGED <<kind, file, meta, mem, usable, job, restarts, broken>>

\* What is opened or loaded of the files when the server starts.
Loadable(text) ==
  IF kind = "ranges" THEN text.is # "none"
  ELSE IF kind = "geo" THEN Whole(text) ELSE Some(text)

RestartServer ==
  /\ restarts < MaxRestarts /\ restarts' = restarts + 1
  /\ mem' = [s \in Sources |-> IF Loadable(file[s]) THEN file[s] ELSE NoText]
  /\ usable' = (\E s \in Used : Loadable(file[s]))
  /\ job' = Resting /\ broken' = FALSE
  /\ UNCHANGED <<kind, upstream, file, meta>>
-------------------------------------------------------------------------------
(***************************************************************************)
(* What a refresh makes of the answer for one source.                      *)
(***************************************************************************)
ToSecond == [job EXCEPT !.at = Second, !.pc = "fetch", !.got = NoText]
Last == job.at = Second

\* refreshTor.
TakeTor(status, text) ==
  /\ job' = Resting
  /\ IF \/ status = "error" /\ ~Some(text)
        \/ status = "notmodified" /\ usable
        \/ text.is = "none"
     THEN UNCHANGED <<mem, usable>>
     ELSE mem' = [mem EXCEPT ![First] = text] /\ usable' = TRUE

\* refresh and load of email-domains.js: nothing empty is loaded.
TakeDomains(status, text) ==
  /\ job' = Resting
  /\ mem' = IF status # "error" /\ Some(text) THEN [mem EXCEPT ![First] = text] ELSE mem
  /\ UNCHANGED usable

\* refreshVpnLists: one set is built of the texts of all the sources.
TakeRange(status, text) ==
  LET changed == job.changed \/ status = "ok"
      texts == [job.texts EXCEPT ![job.at] = text]
  IN IF ~Last
     THEN /\ job' = [ToSecond EXCEPT !.changed = changed, !.texts = texts]
          /\ UNCHANGED <<mem, usable>>
     ELSE /\ job' = Resting
          /\ IF (\A s \in Sources : texts[s].is = "none") \/ (~changed /\ usable)
             THEN UNCHANGED <<mem, usable>>
             ELSE mem' = texts /\ usable' = TRUE

\* openReaders: what cannot be opened leaves the reader as it was.
Opened(files) ==
  [s \in Sources |-> IF Whole(files[s]) THEN files[s] ELSE mem[s]]

\* Mutant: the readers are opened again only when both editions have changed.
OpensIfBoth(a, c) == a /\ c
\* refresh of geoip.js, after both editions.
Opens(a, c) == a \/ c \/ \E s \in Sources : mem[s] = NoText

TakeEdition(changed) ==
  IF ~Last
  THEN job' = [ToSecond EXCEPT !.changed = changed] /\ UNCHANGED <<mem, broken>>
  ELSE /\ job' = Resting
       /\ IF Opens(job.changed, changed) THEN mem' = Opened(file) /\ broken' = FALSE
          ELSE UNCHANGED <<mem, broken>>

\* Mutant: only what has just been fetched is taken.
FetchedOnly(status, text) == IF status = "ok" THEN text ELSE NoText
\* What the source amounts to now: r.text or readCache(cache).
TextOf(status, text) == text

\* fetchText returns.  An ok text has been stored, so it is what the file holds.
Take(status, files) ==
  LET text == TextOf(status, files[job.at]) IN
  /\ \/ kind = "tor" /\ TakeTor(status, text)
     \/ kind = "domains" /\ TakeDomains(status, text)
     \/ kind = "ranges" /\ TakeRange(status, text)
  /\ UNCHANGED broken

\* downloadEdition returns whether it has installed the edition.
Installed(status) ==
  TakeEdition(status = "ok") /\ UNCHANGED usable

Returns(status) ==
  IF kind = "geo" THEN Installed(status) ELSE Take(status, file')

\* It throws: refresh catches that, and the round is over.
BreaksOff ==
  /\ kind = "geo" /\ job' = Resting /\ broken' = TRUE
  /\ UNCHANGED <<mem, usable>>
-------------------------------------------------------------------------------
(***************************************************************************)
(* The steps of a refresh: fetchText and downloadEdition.                  *)
(***************************************************************************)
BeginRefresh ==
  /\ job.pc = "idle" /\ job' = [Resting EXCEPT !.pc = "fetch"]
  /\ UNCHANGED <<kind, upstream, file, meta, mem, usable, restarts, broken>>

\* An error of the publisher or the network, or a checksum that does not match.
FetchFails ==
  /\ job.pc = "fetch" /\ UNCHANGED <<kind, upstream, file, meta, restarts>>
  /\ Returns("error") \/ BreaksOff

\* A 304, or a checksum that is the one that was noted.
UpToDate ==
  meta[job.at] = upstream[job.at].v /\ (kind = "geo" => file[job.at].is # "none")

NotModified ==
  /\ job.pc = "fetch" /\ UpToDate
  /\ UNCHANGED <<kind, upstream, file, meta, restarts>>
  /\ Returns("notmodified")

Answered ==
  /\ job.pc = "fetch" /\ ~UpToDate
  /\ job' = [job EXCEPT !.pc = "write", !.got = upstream[job.at]]
  /\ UNCHANGED <<kind, upstream, file, meta, mem, usable, restarts, broken>>

\* Mutant: what has been fetched is noted before it is stored.
NoteFirst == meta' = [meta EXCEPT ![job.at] = job.got.v]
\* The text is stored first ...
NoteWithText == UNCHANGED meta

WithText == [file EXCEPT ![job.at] = job.got]

WriteText ==
  /\ job.pc = "write"
  /\ file' = WithText /\ NoteWithText
  /\ job' = [job EXCEPT !.pc = "note"]
  /\ UNCHANGED <<kind, upstream, mem, usable, restarts, broken>>

\* The file has been truncated, or written in part, as the write fails or the
\* server crashes.
Torn == {[file EXCEPT ![job.at] = [job.got EXCEPT !.is = is]] : is \in {"cut", "blank"}}

WriteFails ==
  /\ job.pc = "write" /\ file' \in Torn \cup {file} /\ NoteWithText
  /\ IF kind = "geo" THEN BreaksOff ELSE Returns("error")
  /\ UNCHANGED <<kind, upstream, restarts>>

WriteTorn ==
  /\ job.pc = "write" /\ restarts < MaxRestarts
  /\ file' \in Torn /\ NoteWithText
  /\ restarts' = restarts + 1
  /\ mem' = [s \in Sources |-> IF Loadable(file'[s]) THEN file'[s] ELSE NoText]
  /\ usable' = (\E s \in Used : Loadable(file'[s]))
  /\ job' = Resting /\ broken' = FALSE
  /\ UNCHANGED <<kind, upstream>>

\* ... and then noted.
Note ==
  /\ job.pc = "note"
  /\ meta' = [meta EXCEPT ![job.at] = job.got.v]
  /\ UNCHANGED file
  /\ Returns("ok")
  /\ UNCHANGED <<kind, upstream, restarts>>

\* What cannot be read says nothing.
NoteFails ==
  /\ job.pc = "note"
  /\ meta' \in {meta, [meta EXCEPT ![job.at] = 0]}
  /\ UNCHANGED file
  /\ IF kind = "geo" THEN BreaksOff ELSE Returns("error")
  /\ UNCHANGED <<kind, upstream, restarts>>
-------------------------------------------------------------------------------
Succeeds == NotModified \/ Answered \/ WriteText \/ Note
Breaks == FetchFails \/ WriteFails \/ NoteFails \/ WriteTorn \/ RestartServer

ListsNext == (\E s \in Used : Publish(s)) \/ BeginRefresh \/ Succeeds \/ Breaks

ListsSpec == ListsInit /\ [][ListsNext]_listsVars

\* The intervals go on; a publisher, the network and the disk do not fail for ever.
ListsFairSpec ==
  /\ ListsSpec /\ WF_listsVars(BeginRefresh) /\ SF_listsVars(WriteText) /\ SF_listsVars(Note)
  /\ \A s \in Sources : SF_listsVars(job.at = s /\ (NotModified \/ Answered))
-------------------------------------------------------------------------------
\* Once nothing new is published and the server stays up, what is matched against is
\* what the publisher has, whatever failed or crashed at whatever step before; except
\* for an empty list of domains, and for readers since a round was broken off
\* (fetch-cache.js:26, netlists.js:93, email-domains.js:76, geoip.js:123).
CatchesUp ==
  <>[](\A s \in Used : \/ mem[s] = upstream[s]
                       \/ kind = "domains" /\ ~Whole(upstream[s])
                       \/ kind = "geo" /\ broken)

\* What every version of a source lists: classify, and assess or isDisposableDomain.
Refuses(s) == kind # "geo" /\ Whole(mem[s])

\* While a server is up, a failed or partial refresh does not make it admit what a
\* loaded list names, nor go back to an older list: only an empty list that was
\* published for an address does, or a file that a failed write has damaged
\* (netlists.js:71, netlists.js:97, email-domains.js:64).
ListedStaysRefused ==
  [][restarts' = restarts =>
       \A s \in Used : Refuses(s) =>
         /\ mem'[s].v >= mem[s].v
         /\ Whole(mem'[s]) \/ (kind # "domains" /\ mem'[s] = file'[s])]_listsVars
===============================================================================
