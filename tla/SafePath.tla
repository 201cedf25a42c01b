------------------------------ MODULE SafePath ------------------------------
(***************************************************************************)
(* Names and paths: SafeJoin and SanitizeFilename of                       *)
(* internal/share/share.go, and how a browser writes a name into a URL.    *)
(*                                                                         *)
(* A name is a sequence of <<character, n>>, the character percent-encoded *)
(* n times: "%2e" is <<".", 1>>, "%252e" is <<".", 2>>.  X stands for all  *)
(* ordinary characters but hexadecimal digits, so <<"%", 0>> is a percent  *)
(* sign that begins no escape.  A path is a sequence of segments, each a   *)
(* name without slashes, below the root.                                   *)
(***************************************************************************)
EXTENDS Naturals, SequencesExt

X         == <<"x", 0>>
Dot       == <<".", 0>>
Slash     == <<"/", 0>>
Backslash == <<"\\", 0>>
Percent   == <<"%", 0>>

Characters == {X, Dot, Slash, Backslash, Percent}
Items == {c[1] : c \in Characters} \X Nat

Escaped(item) == <<item[1], item[2] + 1>>

\* No name, no path.
Unsafe == <<>>

\* encodeURIComponent: what is not an ordinary character or a dot.
Encode(name) ==
  [i \in DOMAIN name |-> IF name[i] \in {X, Dot} THEN name[i] ELSE Escaped(name[i])]

\* url.PathUnescape, and net/http on a request line; a percent sign that
\* begins no escape is an error.
Decode(name) ==
  IF Contains(name, Percent) THEN Unsafe
  ELSE [i \in DOMAIN name |->
          IF name[i][2] = 0 THEN name[i] ELSE <<name[i][1], name[i][2] - 1>>]

Slashed(name) == [i \in DOMAIN name |-> IF name[i] = Backslash THEN Slash ELSE name[i]]

\* strings.Split at slashes: split[i] is what the first i items make.
Segments(name) ==
  LET split[i \in 0 .. Len(name)] ==
        IF i = 0 THEN <<(<<>>)>>
        ELSE IF name[i] = Slash THEN Append(split[i - 1], <<>>)
        ELSE Front(split[i - 1]) \o <<Append(Last(split[i - 1]), name[i])>>
  IN  split[Len(name)]

\* path.Clean of an absolute path: ".." at the root stays at the root.
Enter(path, segment) ==
  IF segment \in {<<>>, <<Dot>>} THEN path
  ELSE IF segment = <<Dot, Dot>> THEN (IF path = <<>> THEN <<>> ELSE Front(path))
  ELSE Append(path, segment)

Clean(name) ==
  LET segments == Segments(name)
      entered[i \in 0 .. Len(segments)] ==
        IF i = 0 THEN <<>> ELSE Enter(entered[i - 1], segments[i])
  IN  entered[Len(segments)]

BugSafeJoin(relative) ==
  LET path == Clean(Slashed(relative)) IN [i \in DOMAIN path |-> Decode(path[i])]
SafeJoin(relative) == Clean(Slashed(Decode(relative)))

BugSanitizeFilename(name) == Slashed(name)
\* path.Base: the last segment that is not empty, unless it means a folder.
SanitizeFilename(name) ==
  LET segments == Segments(Slashed(name))
      bases == {segments[i] : i \in {j \in DOMAIN segments :
                  /\ segments[j] \notin {<<>>, <<Dot>>, <<Dot, Dot>>}
                  /\ \A k \in DOMAIN segments : k > j => segments[k] = <<>>}}
  IN  IF bases = {} THEN Unsafe ELSE CHOOSE base \in bases : TRUE

\* Nothing in the name looks like an escape.
Plain(name) == \A i \in DOMAIN name : name[i][2] = 0 /\ name[i] # Percent
=============================================================================
