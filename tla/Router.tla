------------------------------- MODULE Router -------------------------------
(***************************************************************************)
(* match_route (src/src/routing/mod.rs): the route a request's path        *)
(* belongs to.  A path and a prefix are sequences of characters, of which  *)
(* only "/" is told from the others.                                       *)
(***************************************************************************)
EXTENDS Naturals, Sequences, SequencesExt

\* No route matches: match_route returns None.
NoRoute == 0

\* Mutant: a bare starts_with, so /api also takes /api-other.
PrefixesText(path, prefix) == IsPrefix(prefix, path)

\* path == p || path.starts_with("{p}/")
Matches(path, prefix) ==
    \/ path = prefix
    \/ IsPrefix(Append(prefix, "/"), path)

\* The index of the route match_route returns: the longest prefix, and the last
\* of them when several are as long (max_by_key).
MatchRoute(path, routes) ==
    LET matching == {i \in DOMAIN routes : Matches(path, routes[i].path_prefix)}
        length(i) == Len(routes[i].path_prefix)
        longest == {i \in matching : \A j \in matching : length(j) <= length(i)}
    IN  IF matching = {} THEN NoRoute ELSE Max(longest)

-----------------------------------------------------------------------------
(* The reference: a path is its segments, the texts between the slashes, each *)
(* known by the place where it begins.                                        *)

Starts(path) == {1} \cup {i + 1 : i \in {j \in DOMAIN path : path[j] = "/"}}

\* The slash after the segment that begins at s, or the end of path.
End(path, s) == Min({i \in s .. Len(path) + 1 : i > Len(path) \/ path[i] = "/"})

Segments(path) == [s \in Starts(path) |-> SubSeq(path, s, End(path, s) - 1)]

\* prefix is made of the first segments of path.
Covers(prefix, path) ==
    /\ Starts(prefix) \subseteq Starts(path)
    /\ \A s \in Starts(prefix) : Segments(prefix)[s] = Segments(path)[s]
=============================================================================
