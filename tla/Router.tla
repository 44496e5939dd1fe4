-------------------------------- MODULE Router -------------------------------
(***************************************************************************)
(* Which route a path takes: crates/imgx/src/router.rs.  A path is the     *)
(* sequence of its segments, without the leading slash: one more segment   *)
(* than slashes are left.  A segment is a record: its name, whether it     *)
(* holds an equals sign, a NUL byte, or a percent-encoded dot, slash or    *)
(* NUL, and the pairs that it consists of when it is an options segment.   *)
(***************************************************************************)
EXTENDS Integers, Sequences

Named(name) ==
  [name |-> name, equals |-> FALSE, nul |-> FALSE, encoded |-> FALSE, pairs |-> <<>>]

contains_nul(path) == \E i \in DOMAIN path : path[i].nul
contains_traversal(path) == \E i \in DOMAIN path : path[i].name = ".."
contains_encoded_traversal(path) == \E i \in DOMAIN path : path[i].encoded

\* Mutant of sanitize_path: the last segment is not looked at.
ForgetsLastSegment(path) ==
  /\ ~contains_nul(path)
  /\ path[1].name # ""
  /\ ~contains_traversal(SubSeq(path, 1, Len(path) - 1))
  /\ ~contains_encoded_traversal(path)

\* Not empty, no further slash in front, nothing that climbs.
sanitize_path(path) ==
  /\ ~contains_nul(path)
  /\ path[1].name # ""
  /\ ~contains_traversal(path)
  /\ ~contains_encoded_traversal(path)

Route(kind, pairs, image_path) == [kind |-> kind, pairs |-> pairs, image_path |-> image_path]
NotFound == Route("not_found", <<>>, <<>>)
ServicePaths == {"health", "metrics", "ready"}

\* What follows image/: options and a path, or a path only.
ResolveImage(rest) ==
  IF rest[1].equals
  THEN IF Len(rest) = 1 \/ Tail(rest) = <<Named("")>> THEN NotFound
       ELSE Route("image", rest[1].pairs, Tail(rest))
  ELSE IF rest = <<Named("")>> THEN NotFound
  ELSE Route("image", <<>>, rest)

resolve(path) ==
  IF ~sanitize_path(path) THEN NotFound
  ELSE IF Len(path) = 1 /\ path[1].name \in ServicePaths
  THEN Route(path[1].name, <<>>, <<>>)
  ELSE IF Len(path) > 1 /\ path[1].name = "image" THEN ResolveImage(Tail(path))
  ELSE NotFound

\* http:// or https:// in front, in any case: "http:", "" and a host.
is_absolute_url_source(image_path) ==
  /\ Len(image_path) > 2
  /\ image_path[1].name \in {"http:", "https:"}
  /\ image_path[2].name = ""
=============================================================================
