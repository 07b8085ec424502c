--------------------------- MODULE MCCommunityMaps ----------------------------
(***************************************************************************)
(* Instances of CommunityMaps: a package of two maps, a newer version of   *)
(* it, one without a checksum for a map, one without the map, signed ones, *)
(* and one whose two maps have the same file name.                         *)
(***************************************************************************)
EXTENDS CommunityMaps, TLC

Map(path, name) == [path |-> path, name |-> name]
OfName(text, valid) == [text |-> text, valid |-> valid]
A1 == OfName("a1", TRUE)    A2 == OfName("a2", TRUE)
B1 == OfName("b1", TRUE)    B2 == OfName("b2", FALSE)

Manifest(sound, maps, checksums, key_id) ==
  [sound |-> sound, maps |-> maps, checksums |-> checksums, key_id |-> key_id]
Version(m, a, b) == [manifest |-> m, files |-> ("a" :> a) @@ ("b" :> b)]

Maps   == <<Map("a", "a"), Map("b", "b")>>
First  == Version(Manifest(TRUE, Maps, ("a" :> A1) @@ ("b" :> B1), NoKey), A1, B1)
Second == Version(Manifest(TRUE, Maps, ("a" :> A2) @@ ("b" :> B2), NoKey), A2, B2)
Sloppy == Version(Manifest(TRUE, Maps, "a" :> A2, NoKey), A2, B2)
Gone   == Version(Manifest(TRUE, Maps, ("a" :> A1) @@ ("b" :> B1), NoKey), A1, NoFile)
Signed == Version(Manifest(TRUE, Maps, ("a" :> A1) @@ ("b" :> B1), "k1"), A1, B1)
Wrong  == Version(Manifest(FALSE, Maps, ("a" :> A1) @@ ("b" :> B1), "k1"), A1, B1)
Other  == Version(Manifest(TRUE, Maps, ("a" :> A1) @@ ("b" :> B1), "k2"), A1, B1)
NoMaps == Version(Manifest(FALSE, <<>>, [path \in {} |-> A1], NoKey), A1, B1)
SameName == Version(Manifest(TRUE, <<Map("a", "a"), Map("b", "a")>>,
                             ("a" :> A1) @@ ("b" :> B1), NoKey), A1, B1)

Published == {First, Second, Sloppy, Gone, NoMaps, Signed, Other, Wrong, SameName}

Symmetry == Permutations(Importers) \cup Permutations(Keepers) \cup Permutations(PublicKeys)

\* Imports and key commands share no state: either the ones happen or the others.
Apart == keyCommands = 0 \/ (imports = 0 /\ edits = 0)

===============================================================================
