------------------------------ MODULE MCContent ------------------------------
(* Content for TLC: schemas, contents and the symmetry of identities.       *)
EXTENDS Content, TLC

CONSTANTS k1, k2, m1, w1

Image == [type |-> "image", fields |-> NoFields]
Text == [type |-> "text", fields |-> NoFields]
ImageList == [type |-> "list", fields |-> k1 :> Image]

\* A block type with a list of images, one whose administrator made it a text
\* beside an image, and one that is refused.
Gallery == k1 :> ImageList
Portrait == k1 :> Text @@ k2 :> Image
Nested == k1 :> [type |-> "list", fields |-> Gallery]
GalleryOrPortrait == {Gallery, Portrait, Nested}

OneImageTwice == {k1 :> <<k1 :> m1>> @@ k2 :> m1}

\* A field that was a text and became an image.
TextOrImage == {k1 :> Text, k1 :> Image}
WordOrImage == {k1 :> w1, k1 :> m1, Junk}

Identities == Permutations(Pages) \cup Permutations(Sections)
=============================================================================
