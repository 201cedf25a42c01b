----------------------------- MODULE FileAccess -----------------------------
(***************************************************************************)
(* The names of the shared folder: uploads store under a name, the listing *)
(* shows names, downloads ask for names (handleFiles and handleDownload of *)
(* internal/server/handler.go, ListFiles of internal/share/share.go), and  *)
(* RangedDownload loads what a name stands for, while it may change.       *)
(*                                                                         *)
(* An upload is a temporary file until it is renamed; how it gets its      *)
(* contents is in UploadManager and Publishing.  Folders in the shared     *)
(* folder are there already and not empty: nothing here creates one.       *)
(***************************************************************************)
EXTENDS RangedDownload, SafePath

CONSTANTS
  RawNames,     \* the names a client may send
  OtherNames,   \* names that others upload meanwhile
  Wanted,       \* bound: the names that are downloaded
  Subfolders    \* paths of folders below the root

ASSUME AccessAssumption == RawNames \cup OtherNames \subseteq Seq(Items)

VARIABLES
  name,         \* what one client sends, and looks for later
  incoming,     \* the name whose temporary file is there
  shown,        \* contents of each path that is a file
  answered,     \* what each name was answered for last
  asked         \* what the server is asked for

uploads == <<name, incoming, answered>>
accessVars == <<downloadVars, uploads, shown, asked>>

AccessInit ==
  /\ Init /\ current = Nothing
  /\ name \in RawNames
  /\ incoming = Unsafe
  /\ shown = <<>> /\ answered = <<>> /\ asked = <<>>

\* handleDownload: a regular file, or 404.
Lookup(files, relative) ==
  LET path == SafeJoin(relative)
  IN  IF path \in DOMAIN files THEN files[path] ELSE Nothing

\* ".mizban-upload-" and so on, in the root; no client sends it.
Temporary == <<Dot, <<"mizban-upload", 0>> >>

\* ListFiles: the regular files of the root itself, temporary ones as well.
Listed ==
  {path[1] : path \in {p \in DOMAIN shown : Len(p) = 1}}
    \cup (IF incoming = Unsafe THEN {} ELSE {Temporary})

\* The file under a path is another one, or gone.
Put(files) ==
  /\ shown' = files
  /\ Change(Lookup(files, asked))
  /\ UNCHANGED <<name, asked>>

\* Init or handleLegacyUpload accept the name.
Begin(raw) ==
  LET clean == SanitizeFilename(raw) IN
  /\ incoming = Unsafe
  /\ clean # Unsafe /\ SafeJoin(clean) # Unsafe
  /\ incoming' = clean
  /\ UNCHANGED <<downloadVars, shown, name, answered, asked>>

\* f with the value v at x.
With(f, x, v) == [y \in DOMAIN f \cup {x} |-> IF y = x THEN v ELSE f[y]]

\* The rename fails where a folder is or is missing.
Storable(path) ==
  path \notin Subfolders /\ (Len(path) > 1 => Front(path) \in Subfolders)

Store(v) ==
  /\ incoming # Unsafe /\ Storable(SafeJoin(incoming))
  /\ incoming' = Unsafe
  /\ answered' = With(answered, incoming, v)
  /\ Put(With(shown, SafeJoin(incoming), v))

\* It is refused, breaks off or cannot be renamed.
Discard ==
  /\ incoming # Unsafe /\ incoming' = Unsafe
  /\ UNCHANGED <<downloadVars, shown, name, answered, asked>>

\* Somebody at the machine removes a file.
Delete(path) ==
  /\ path \in DOMAIN shown
  /\ answered' = Restrict(answered, {n \in DOMAIN answered : SafeJoin(n) # path})
  /\ Put(Restrict(shown, DOMAIN shown \ {path}))
  /\ UNCHANGED incoming

\* The user clicks on the card of that file.
Click ==
  /\ step = "idle" /\ asked = <<>>
  /\ name \in Listed \cap Wanted
  /\ asked' = Decode(Encode(name))
  /\ Change(Lookup(shown, asked'))
  /\ UNCHANGED <<uploads, shown>>

Kept == UNCHANGED <<uploads, shown, asked>>

DownloadStep == asked # <<>> /\ Download /\ Kept

AccessNext ==
  \/ \E raw \in {name} \cup OtherNames : Begin(raw)
  \/ \E v \in Versions : Store(v)
  \/ Discard
  \/ \E path \in DOMAIN shown : Delete(path)
  \/ Click
  \/ DownloadStep

AccessSpec == AccessInit /\ [][AccessNext]_accessVars
FairAccessSpec ==
  /\ AccessSpec
  /\ WF_accessVars(DownloadStep /\ (AskSize \/ Finish))
  /\ \A w \in Workers : WF_accessVars(Load(w) /\ Kept)

-----------------------------------------------------------------------------
\* A path that is served or written lies strictly below the root, and its
\* segments are names of files and folders, however the name was encoded: a
\* name that means the root itself is no file, and nobody stores under it.
StaysBelow ==
  /\ Unsafe \notin DOMAIN shown
  /\ incoming # Unsafe => SafeJoin(incoming) # Unsafe
  /\ \A path \in DOMAIN shown \cup {SafeJoin(name)} :
       \A i \in DOMAIN path : path[i] \notin {<<>>, <<Dot>>, <<Dot, Dot>>}
                              /\ ~Contains(path[i], Slash)

\* As long as no name looks like an escape, the names the server answers, the
\* names it lists (apart from temporary files) and the names it finds again
\* are the same ones, and two names never share a file.
PlainNamesAgree ==
  (\A n \in DOMAIN answered : Plain(n)) =>
    /\ Listed \ {Temporary} = DOMAIN answered
    /\ \A n \in DOMAIN answered : Lookup(shown, Decode(Encode(n))) = answered[n]
=============================================================================
